-------------------------- MODULE MCDynamicValues ---------------------------
(***************************************************************************)
(* Dynamic values.  Reference counts of dicts that Update merges, and of   *)
(* lists and dicts in each other, of which Clone copies two levels: there  *)
(* are addresses for two objects and their copies.  Dates and times, with  *)
(* real years and months and days of three hours of two minutes of two     *)
(* seconds, so that a word fits TLC's integers.                            *)
(***************************************************************************)
EXTENDS DynamicHeap, TLC

CONSTANTS o1, o2, o3, o4

VARIABLES part, v, was, op, steps

dateTimeVars == <<v, was, op, steps>>
allVars == <<part, vars, dateTimeVars>>

\* Addresses are interchangeable.
Symmetry == Permutations(Obj)

\* The ends of February in common, leap, century and 400th years, the ends of
\* the calendar, and three that are no dates.
DatesAtTheEdges ==
    {<<1900, 2, 28>>, <<1900, 2, 29>>, <<2000, 2, 29>>, <<2001, 1, 31>>,
     <<2004, 2, 28>>, <<2003, 12, 31>>, <<0, 1, 1>>, <<4095, 12, 31>>,
     <<2001, 2, 29>>, <<2001, 0, 1>>, <<4096, 1, 1>>}

ClocksAtTheEdges ==
    {<<0, 0, 0, 0>>, <<2, 1, 1, 1>>, <<1, 0, 1, 1>>, <<3, 0, 0, 0>>}

\* Days of 12 seconds: the years 0 and 4096 begin on the days 0 and 1496034,
\* and 29 February 2000 is the day 730544.
StampsAtTheEdges == {0, 730544 * 12 + 7, 1496034 * 12 - 1, 1496034 * 12, 0 - 1}

\* The parts, one of which a behaviour is about.
Dicts == INSTANCE DynamicHeap WITH
    Kind <- {"dict"}, MaxItems <- 3
Nested == INSTANCE DynamicHeap WITH
    Key <- {1}, MaxItems <- 2, MaxDepth <- 4
Date == INSTANCE DateTime WITH
    YEAR_SIZE <- 12, MONTH_SIZE <- 4, DAY_SIZE <- 5, HH_SIZE <- 2,
    MM_SIZE <- 1, SS_SIZE <- 1, MICROSEC_SIZE <- 1, HoursADay <- 3,
    MinutesAnHour <- 2, SecondsAMinute <- 2, MICROSEC_MAX <- 1,
    Dates <- DatesAtTheEdges, Clocks <- ClocksAtTheEdges,
    Stamps <- StampsAtTheEdges, DayCounts <- {0 - 366, 0 - 1, 1, 29, 31, 366},
    SecondCounts <- {0 - 13, 0 - 1, 1, 12}, MaxSteps <- 3

ASSUME HeapAssumption
ASSUME Nested!HeapAssumption
ASSUME Date!SizesAssumption

\* Bound: objects after a step; Clone has a free address for each object of a
\* value of two levels, before the old value goes.
MaxLive == 3

\* The variables of dates in a behaviour about other values.
Off == "off"
NoDateTime == v = Off /\ was = Off /\ op = Off /\ steps = Off

MCInit ==
    /\ Init
    /\ \/ part \in {"dicts", "nested"} /\ NoDateTime
       \/ part = "date" /\ Date!Init

\* A step of one part.
InDicts == part = "dicts" /\ UNCHANGED <<part, dateTimeVars>>
InNested == part = "nested" /\ UNCHANGED <<part, dateTimeVars>>
InDate == part = "date" /\ UNCHANGED <<part, vars>>

MCNext ==
    \/ InDicts /\ Dicts!Next /\ Cardinality(Live') <= MaxLive
    \/ InNested /\ Nested!Next /\ Cardinality(Live') <= MaxLive
    \/ InDate /\ Date!Next

MCSpec == MCInit /\ [][MCNext]_allVars

-----------------------------------------------------------------------------
\* A DATE_TIME holds a date of the calendar and a time of day, whatever was
\* created, set and added before, or its date is lost as a whole, which
\* happens only outside the years of the word; words order as times do; sums
\* move the clock by what they are given, over months, leap days and years;
\* and a setter changes one field. (impl_date_time.h)
DatesStayReal ==
    part = "date" =>
        /\ Date!TypeOK
        /\ Date!RealUnlessOutOfRange
        /\ Date!OrderIsChronological
        /\ Date!AdditionMovesTheClock
        /\ Date!SetsOneField

=============================================================================
