----------------------------- MODULE MCLogging -----------------------------
(* Walks through the calendar, and three to a day with threads that log: around  *)
(* changes of the offset in the east and in the west, and with every number and *)
(* every length at which something changes.                                     *)
EXTENDS Logging

CONSTANTS t1, t2

Std(hours) == [gmtOffset |-> hours * 4, isDst |-> FALSE]
Dst(hours) == [gmtOffset |-> hours * 4, isDst |-> TRUE]
On(d, s) == d * 16 + s

Fixed == [times |-> <<>>, index |-> <<>>, types |-> <<Std(2)>>, typesRead |-> 1]

East == [times |-> <<On(-700, 4), On(-600, 4), On(-290, 4), On(-100, 4), On(80, 4), On(270, 4)>>,
         index |-> <<2, 1, 2, 1, 2, 3>>,
         types |-> <<Std(1), Dst(2), Std(1)>>, typesRead |-> 3]

West == [times |-> <<On(-650, 7), On(-290, 9), On(-100, 6), On(80, 7), On(365, 6)>>,
         index |-> <<1, 2, 1, 2, 1>>,
         types |-> <<Std(-2), Dst(-1)>>, typesRead |-> 2]

NewStandard == [times |-> <<On(-365, 0), On(0, 0), On(31, 3)>>, index |-> <<1, 2, 3>>,
                types |-> <<Std(0), Std(1), Std(3)>>, typesRead |-> 3]

CutOff == [East EXCEPT !.typesRead = 2]

Days(file, first, last) ==
    [file |-> file, first |-> first, last |-> last,
     loggers |-> {}, lines |-> 0, day |-> 0, seconds |-> {}, messages |-> {}]

Line(level, errno, pieces) == [level |-> level, errno |-> errno, pieces |-> pieces]

\* 3963 characters are left behind the header in UTC, and 26 are those of the tail.
Lengths == {0, 1, 3935, 3936, 3937, 3938, 3959, 3960, 3961, 3962, 3963, 4000}

Lengthy == {Line(WARN, e, <<{Text("text", n)}, {Integer(-7)}, {Text("double", 19)}>>) : n \in Lengths, e \in {0, 11}}
           \cup {Line(WARN, 0, <<{Text("text", n)}>>) : n \in Lengths}

Numbers == {-2147483647 - 1, -2147483647, -10, -9, -1, 0, 1, 9, 10, 99, 100, 999, 1000, 1004, 1005, 1006,
            1023, 1024, 1029, 1030, 1034, 1035,
            9994, 9995, 9999, 10000, 10234, 10235, 10240, 99949, 99950, 99999, 100000, 102348, 102349,
            999499, 999500, 999999, 1000000, 1004999, 1005000, 1047552, 1048063, 1048064, 1048575, 1048576,
            9994999, 9995000, 9999999, 10480517, 10480518, 99949999, 99950000, 104805171, 104805172,
            999499999}

Numeric == {Line(ERROR, 0, <<{Integer(n)}>>) : n \in Numbers}
           \cup {Line(ERROR, 0, <<FormatSI(n), FormatIEC(n), {Pointer(n)}>>) : n \in Numbers \cap Nat}

Levels == {Line(DEBUG, 0, <<>>), Line(INFO, 0, <<>>), Line(FATAL, 0, <<>>)}

MCWalks ==
    {Days(Fixed, 1900 + 60 * k, 1960 + 60 * k) : k \in 0 .. 9}
    \cup {Days(f, 1968, 1971) : f \in {East, West, NewStandard, CutOff}}
    \cup {[Days(f[1], 1970, 1970) EXCEPT !.loggers = Loggers, !.lines = 3, !.day = 80,
                                         !.seconds = f[2], !.messages = Levels] :
              f \in {<<East, {4, 5, 15}>>, <<West, {6, 7, 9}>>}}
    \cup {[Days(Fixed, 1970, 1970) EXCEPT !.loggers = {t1}, !.lines = 1, !.day = 1, !.messages = Lengthy \cup Numeric]}
=============================================================================
