--------------------------- MODULE RsyslogLogger ---------------------------
(***************************************************************************)
(* RSysLoggerBase, RSysUnixSocketLogger and RSysEndpointLogger             *)
(* (src/src/logger/rsyslog_logger.cpp): a logger that sends each line to a *)
(* server over a datagram or a stream socket, connecting when it has none. *)
(*                                                                         *)
(* WriteLine runs under the logger's mutex, one line at a time.  The bytes *)
(* of a line are numbered from 0; what the server gets is a sequence of    *)
(* those numbers.  A send may take a part (streams), take all, or fail.    *)
(***************************************************************************)
EXTENDS Integers, Sequences

CONSTANTS
    MaxLen,     \* bound: the bytes of a line
    IntMax,     \* the largest int
    Endpoint    \* TRUE: RSysEndpointLogger, which resolves a name first

\* What an instance gives for the constants.
RsyslogAssumption ==
    /\ MaxLen \in Nat \ {0} /\ IntMax \in Nat
    /\ MaxLen < IntMax
    /\ Endpoint \in BOOLEAN

VARIABLES
    sockfd,     \* what sockfd_ is: "closed" (-1), "dgram" or "stream"
    pc,         \* where WriteLine is
    round,      \* the socket type Connect tries
    lineSize,   \* the value snprintf returned for this line
    sent, len,  \* the variables of the send loop
    got,        \* the bytes of this line the server got, in their order
    sendFailed, \* history: a send of this line failed
    shown       \* the line went to the console or to stderr

line == <<lineSize, sent, len, got, sendFailed, shown>>
rsyslogVars == <<sockfd, pc, round, line>>

RsyslogInit ==
    /\ sockfd = "closed" /\ pc = "idle" /\ round = "dgram"
    /\ lineSize = 0 /\ sent = 0 /\ len = 0
    /\ got = <<>> /\ sendFailed = FALSE /\ shown = FALSE

\* int arithmetic of the build: it wraps around
Wrap(x) == ((x + IntMax + 1) % (2 * IntMax + 2)) - IntMax - 1

-----------------------------------------------------------------------------
RsyslogWriteLine(n) ==
    /\ pc = "idle"
    /\ lineSize' = n /\ sent' = 0 /\ len' = n
    /\ got' = <<>> /\ sendFailed' = FALSE /\ shown' = FALSE
    /\ pc' = IF sockfd = "closed" THEN "resolve" ELSE "send"
    /\ round' = "dgram"
    /\ UNCHANGED sockfd

\* getaddrinfo in a round of Connect: only the error -1 is noticed, with any
\* other one an uninitialized pointer is used
Resolve ==
    /\ pc = "resolve"
    /\ \/ pc' = "connect"
       \/ Endpoint /\ pc' = "idle"
       \/ Endpoint /\ pc' = "undefined"
    /\ UNCHANGED <<sockfd, round, line>>

\* socket and connect in a round; the datagram socket is tried first
Connect ==
    /\ pc = "connect"
    /\ \/ sockfd' = round /\ pc' = "send" /\ UNCHANGED round
       \/ round = "dgram" /\ round' = "stream" /\ pc' = "resolve" /\ UNCHANGED sockfd
       \/ round = "stream" /\ pc' = "console" /\ UNCHANGED <<sockfd, round>>
    /\ UNCHANGED line

\* neither socket: the line is printed instead
ToConsole ==
    /\ pc = "console" /\ shown' = TRUE /\ pc' = "idle"
    /\ UNCHANGED <<sockfd, round, lineSize, sent, len, got, sendFailed>>

\* Mutant: len stays the size of the line.
LenAfterWhole(s) == len

\* len after a send that left sent at s: the running total is subtracted, not
\* what this send took
LenAfter(s) == Wrap(len - s)

\* the bytes a send takes: r of them, from buf + sent on
Taken(r) == [i \in 1 .. r |-> sent + i - 1]

\* the test for an error looks at the running total, which is -1 only if the
\* first send failed
GivesUp(s) == s = -1

\* one round of the loop in which send returns r
Send(r) ==
    LET s == Wrap(sent + r) IN
    /\ pc = "send" /\ sent < len
    /\ got' = IF r > 0 THEN got \o Taken(r) ELSE got
    /\ sendFailed' = (sendFailed \/ r = -1)
    /\ sent' = s
    /\ IF GivesUp(s)
       THEN sockfd' = "closed" /\ shown' = TRUE
       ELSE UNCHANGED <<sockfd, shown>>
    /\ IF s = 0
       THEN pc' = "idle" /\ UNCHANGED len
       ELSE pc' = pc /\ len' = LenAfter(s)
    /\ UNCHANGED <<round, lineSize>>

\* what send may return: on a closed socket, and on one in trouble, an error
SendSome == \E r \in 1 .. len : sockfd = "stream" /\ Send(r)
SendAll == sockfd = "dgram" /\ len > 0 /\ Send(len)
SendFails == Send(-1)

\* the loop is over and WriteLine returns true
Return ==
    /\ pc = "send" /\ ~(sent < len)
    /\ pc' = "idle"
    /\ UNCHANGED <<sockfd, round, line>>

\* the destructor; the client makes another logger
Destroy ==
    /\ pc = "idle"
    /\ sockfd' = "closed"
    /\ UNCHANGED <<pc, round, line>>

Step == Resolve \/ Connect \/ ToConsole \/ SendSome \/ SendAll \/ SendFails \/ Return

RsyslogNext == Step \/ Destroy \/ \E n \in 1 .. MaxLen : RsyslogWriteLine(n)

\* the calls of the system return, so WriteLine goes on
RsyslogSpec == RsyslogInit /\ [][RsyslogNext]_rsyslogVars /\ WF_rsyslogVars(Step)

-----------------------------------------------------------------------------
\* Every variable has its type.
RsyslogTypeOK ==
    /\ sockfd \in {"closed", "dgram", "stream"}
    /\ pc \in {"idle", "resolve", "connect", "console", "send", "undefined"}
    /\ round \in {"dgram", "stream"}
    /\ lineSize \in 0 .. MaxLen
    /\ sent \in -(IntMax + 1) .. IntMax /\ len \in -(IntMax + 1) .. IntMax
    /\ got \in Seq(Int) /\ sendFailed \in BOOLEAN /\ shown \in BOOLEAN

\* The server gets only bytes of the line: the offset and the length that the
\* loop computes, wrong as they are, never leave the buffer on an open socket.
SendsOnlyTheLine == \A i \in 1 .. Len(got) : got[i] \in 0 .. lineSize - 1

\* Without a failure the server gets a prefix of the line, all of it if the
\* socket takes whole datagrams: nothing twice, nothing out of order.
PrefixWithoutFailure ==
    ~sendFailed =>
        /\ \A i \in 1 .. Len(got) : got[i] = i - 1
        /\ sockfd = "dgram" => Len(got) \in {0, lineSize}

\* A line whose first send failed is printed, its socket is given up, and the
\* server gets nothing of it: the rounds the loop still makes are on no socket.
FailureGivesUpTheSocket == sent < 0 => sockfd = "closed" /\ shown /\ got = <<>>

\* Whatever send answers, the server gets bytes of the line only, without a
\* failure a beginning of it, and nothing of a line whose first send failed.
ServerGetsTheLine ==
    RsyslogTypeOK /\ SendsOnlyTheLine /\ PrefixWithoutFailure /\ FailureGivesUpTheSocket

=============================================================================
