------------------------------ MODULE Pipeline ------------------------------
(***************************************************************************)
(* homework-2/program.c: P1 turns 20 bytes of its input into one line of a *)
(* temporary file and wakes P2 with SIGUSR2; P2, its child, takes the      *)
(* lines out of the same file one at a time, suspends when it finds none,  *)
(* and learns from SIGUSR1 that P1 is done.  The file never shrinks: a     *)
(* line is removed by moving the rest to the front and padding with        *)
(* spaces, and both processes find their place by scanning it.             *)
(* A section under the file lock is one step.  SIGINT and SIGTERM come     *)
(* from outside, to either process, at any time.                           *)
(***************************************************************************)
EXTENDS Naturals, Sequences, SequencesExt, FiniteSets

CONSTANTS
    Lines,          \* how many times P1 reads 20 bytes
    Length,         \* how many characters each line has in the file
    StatsCapacity,  \* places for metrics at first, 10 in the program
    Outside         \* the signals from outside: <<process, signal>>

ASSUME LinesAssumption == Lines \in Nat /\ Length \in [1..Lines -> Nat \ {0, 1}]
ASSUME StatsAssumption == StatsCapacity \in Nat \ {0}
ASSUME OutsideAssumption == Outside \subseteq {"P1", "P2"} \X {"INT", "TERM"}

VARIABLES
    file,           \* the characters of the temporary file
    linked,         \* whether it has a name in the directory
    p1, p2,         \* the next operation of each process
    line,           \* the number of the line P1 works on
    arrived,        \* signals_arrived: what P1 counted in its critical section
    pending,        \* the signals each process has not handled
    P1_finished,    \* a variable of P2
    buf,            \* the characters of the line P2 works on
    stats,          \* the metrics of P2: their number and their room
    output,         \* the lines in the output file
    outside         \* the signals still to come from outside

p1_vars == <<p1, line, arrived>>
p2_data == <<linked, P1_finished, buf, stats, output>>
p2_vars == <<p2, p2_data>>
vars == <<file, p1_vars, p2_vars, pending, outside>>

-----------------------------------------------------------------------------
\* Characters.  A line ends with a newline, has single spaces between its
\* numbers, never two in a row, and starts with a parenthesis.
Pad == [of |-> 0, char |-> "space"]

Text(i) ==
    [j \in 1..Length[i] |-> [of   |-> i,
                             char |-> CASE j = Length[i] -> "newline"
                                        [] j = 2 /\ j < Length[i] -> "space"
                                        [] OTHER -> "digit"]]

IsSpace(f, o) == o < Len(f) /\ f[o + 1].char = "space"       \* offsets start at 0
IsNewline(f, o) == o < Len(f) /\ f[o + 1].char = "newline"
FirstOf(offsets, otherwise) ==
    IF offsets = {} THEN otherwise ELSE CHOOSE o \in offsets : \A q \in offsets : o <= q
Pairs(f) == {o \in 0..Len(f) : o < Len(f) /\ o % 2 = 0}      \* read two at a time

\* Faulty variant: a newline at the start of a pair is passed over.
next_empty_Even(f) ==
    FirstOf({o \in Pairs(f) : IsSpace(f, o) /\ (IsSpace(f, o + 1) \/ o + 1 = Len(f))}, Len(f))

\* Where P1 writes: at two spaces, at a last space, or between a newline and
\* a space, whichever the scan meets first; else at the end.
next_empty(f) ==
    LET blank == {o \in Pairs(f) : IsSpace(f, o) /\ (IsSpace(f, o + 1) \/ o + 1 = Len(f))}
        ended == {o + 1 : o \in {q \in Pairs(f) : IsNewline(f, q) /\ IsSpace(f, q + 1)}}
    IN FirstOf(blank \cup ended, Len(f))

\* Where P2 reads.
next_available(f) == FirstOf({o \in Pairs(f) : ~IsSpace(f, o)}, Len(f))

WriteAt(f, o, text) ==
    [j \in 1..(IF o + Len(text) > Len(f) THEN o + Len(text) ELSE Len(f)) |->
        IF j \in (o + 1)..(o + Len(text)) THEN text[j - o] ELSE f[j]]

\* Up to the first newline; nothing when there is none.
read_line(f, o) ==
    LET end == FirstOf({q \in o..Len(f) : IsNewline(f, q)}, Len(f))
    IN IF end < Len(f) THEN SubSeq(f, o + 1, end + 1) ELSE <<>>

remove_line(f) ==
    LET first == FirstOf({q \in 0..Len(f) : IsNewline(f, q)}, Len(f))
    IN SubSeq(f, first + 2, Len(f)) \o [j \in 1..(first + 1) |-> Pad]

-----------------------------------------------------------------------------
\* Signals.
Init ==
    /\ file = <<>>
    /\ linked = TRUE
    /\ p1 = "start"
    /\ p2 = "start"
    /\ line = 0
    /\ arrived = {}
    /\ pending = [p \in {"P1", "P2"} |-> {}]
    /\ P1_finished = FALSE
    /\ buf = <<>>
    /\ stats = [idx |-> 0, capacity |-> StatsCapacity]
    /\ output = <<>>
    /\ outside = Outside

P1Ended == p1 \in {"exited", "terminated", "killed"}
P2Ended == p2 \in {"exited", "terminated", "killed"}

Blocked1 == IF p1 = "fit" THEN {"INT"} ELSE {}

\* Faulty variant: SIGUSR2 is let through like SIGUSR1.
Blocked2_Open ==
    CASE p2 = "start" -> {"USR1", "USR2"}
      [] p2 = "unblock" -> {"USR1"}
      [] p2 = "suspended" -> {"INT", "TERM"}
      [] OTHER -> {}

\* Faulty variant: nothing is blocked before the fork.
Blocked2_Late ==
    CASE p2 = "start" -> {}
      [] p2 = "suspended" -> {"INT", "TERM"}
      [] OTHER -> {"USR2"}

\* Both are blocked before the fork; sigsuspend lets only them through.
Blocked2 ==
    CASE p2 \in {"start", "unblock"} -> {"USR1", "USR2"}
      [] p2 = "suspended" -> {"INT", "TERM"}
      [] p2 = "measure" -> {"INT", "USR2"}
      [] OTHER -> {"USR2"}

Sent(p, s) == pending' = [pending EXCEPT ![p] = @ \cup {s}]

FromOutside(p, s) ==
    /\ <<p, s>> \in outside
    /\ IF p = "P1" THEN ~P1Ended ELSE ~P2Ended
    /\ outside' = outside \ {<<p, s>>}
    /\ Sent(p, s)
    /\ UNCHANGED <<p1_vars, p2_vars, file>>

\* P1 counts every signal but SIGTERM between register_signal_counter(FALSE)
\* and (TRUE); SIGTERM and, otherwise, SIGINT end it.
HandleSignal1(s) ==
    /\ ~P1Ended
    /\ s \in pending["P1"] \ Blocked1
    /\ pending' = [pending EXCEPT !["P1"] = @ \ {s}]
    /\ IF s = "INT" /\ p1 \in {"block", "fit", "unregister"}
          THEN arrived' = arrived \cup {s} /\ UNCHANGED p1
          ELSE /\ p1' = IF s = "TERM" /\ p1 # "start" THEN "terminated" ELSE "killed"
               /\ UNCHANGED arrived
    /\ UNCHANGED <<line, p2_vars, file, outside>>

\* handle_usr1 and handle_usr2 only set a flag and wake P2 up; when both
\* signals end the suspension they may be handled together.
WakeUp(signals) ==
    /\ p2 = "suspended"
    /\ signals # {}
    /\ signals \subseteq pending["P2"] \ Blocked2
    /\ pending' = [pending EXCEPT !["P2"] = @ \ signals]
    /\ P1_finished' = (P1_finished \/ "USR1" \in signals)
    /\ p2' = "read"
    /\ UNCHANGED <<linked, buf, stats, output, p1_vars, file, outside>>

\* Before the handlers are there every signal kills.
HandleSignal2(s) ==
    /\ p2 # "suspended" /\ ~P2Ended
    /\ s \in pending["P2"] \ Blocked2
    /\ pending' = [pending EXCEPT !["P2"] = @ \ {s}]
    /\ P1_finished' = (P1_finished \/ s = "USR1")
    /\ p2' = CASE s = "INT" \/ p2 = "start" -> "killed"
               [] s = "TERM" /\ p2 # "start" -> "terminated"
               [] OTHER -> p2
    /\ linked' = (linked /\ p2' # "terminated")     \* p2_sigterm_handler
    /\ UNCHANGED <<buf, stats, output, p1_vars, file, outside>>

-----------------------------------------------------------------------------
\* P1.
Goto1(from, to) == p1 = from /\ p1' = to

Start1 ==
    /\ Goto1("start", "read")
    /\ UNCHANGED <<line, arrived, pending, p2_vars, file, outside>>

read20bytes ==
    /\ Goto1("read", "register")
    /\ line < Lines
    /\ line' = line + 1
    /\ UNCHANGED <<arrived, pending, p2_vars, file, outside>>

Register ==
    /\ Goto1("register", "block")
    /\ UNCHANGED <<line, arrived, pending, p2_vars, file, outside>>

BlockInt ==
    /\ Goto1("block", "fit")
    /\ UNCHANGED <<line, arrived, pending, p2_vars, file, outside>>

\* Faulty variant: the handlers are restored before SIGINT is let through.
LineEquation_Bare ==
    /\ Goto1("fit", "write")
    /\ UNCHANGED <<line, arrived, pending, p2_vars, file, outside>>

\* line_equation, and SIGINT is let through: one that waits is counted.
LineEquation ==
    /\ Goto1("fit", "unregister")
    /\ arrived' = arrived \cup (pending["P1"] \cap {"INT"})
    /\ pending' = [pending EXCEPT !["P1"] = @ \ {"INT"}]
    /\ UNCHANGED <<line, p2_vars, file, outside>>

Unregister ==
    /\ Goto1("unregister", "write")
    /\ UNCHANGED <<line, arrived, pending, p2_vars, file, outside>>

write10points ==
    /\ Goto1("write", "wake")
    /\ file' = WriteAt(file, next_empty(file), Text(line))
    /\ UNCHANGED <<line, arrived, pending, p2_vars, outside>>

Wake ==
    /\ Goto1("wake", "read")
    /\ Sent("P2", "USR2")
    /\ UNCHANGED <<line, arrived, p2_vars, file, outside>>

Finish1 ==
    /\ Goto1("read", "wait")
    /\ line = Lines
    /\ Sent("P2", "USR1")
    /\ UNCHANGED <<line, arrived, p2_vars, file, outside>>

WaitChild ==
    /\ Goto1("wait", "exited")
    /\ P2Ended
    /\ UNCHANGED <<line, arrived, pending, p2_vars, file, outside>>

P1 ==
    \/ Start1 \/ read20bytes \/ Register \/ BlockInt \/ LineEquation \/ Unregister
    \/ write10points \/ Wake \/ Finish1 \/ WaitChild

-----------------------------------------------------------------------------
\* P2.
Goto2(from, to) == p2 = from /\ p2' = to

Start2 ==
    /\ Goto2("start", "unblock")
    /\ UNCHANGED <<p2_data, pending, p1_vars, file, outside>>

UnblockUsr1 ==
    /\ Goto2("unblock", "read")
    /\ UNCHANGED <<p2_data, pending, p1_vars, file, outside>>

\* read10points, first section.
ReadLine ==
    /\ p2 = "read"
    /\ buf' = read_line(file, next_available(file))
    /\ p2' = IF buf' = <<>> THEN "check" ELSE "remove"
    /\ UNCHANGED <<linked, P1_finished, stats, output, pending, p1_vars, file, outside>>

\* Faulty variant: the line read is written back with the rest.
RemoveLine_Stale ==
    /\ Goto2("remove", "enter")
    /\ file' = WriteAt(file, 0, [j \in 1..Len(buf) |-> Pad])
    /\ UNCHANGED <<p2_data, pending, p1_vars, outside>>

\* Second section, after the line was parsed.
RemoveLine ==
    /\ Goto2("remove", "enter")
    /\ file' = remove_line(file)
    /\ UNCHANGED <<p2_data, pending, p1_vars, outside>>

CheckFinished ==
    /\ p2 = "check"
    /\ p2' = IF P1_finished THEN "finish" ELSE "suspend"
    /\ UNCHANGED <<p2_data, pending, p1_vars, file, outside>>

Suspend ==
    /\ Goto2("suspend", "suspended")
    /\ UNCHANGED <<p2_data, pending, p1_vars, file, outside>>

BlockInt2 ==
    /\ Goto2("enter", "measure")
    /\ UNCHANGED <<p2_data, pending, p1_vars, file, outside>>

update_stats ==
    stats' = [idx      |-> stats.idx + 1,
              capacity |-> IF stats.idx = stats.capacity THEN 2 * stats.capacity ELSE stats.capacity]

Errors ==
    /\ Goto2("measure", "report")
    /\ update_stats
    /\ UNCHANGED <<linked, P1_finished, buf, output, pending, p1_vars, file, outside>>

write10points_errors ==
    /\ Goto2("report", "read")
    /\ output' = Append(output, buf)
    /\ buf' = <<>>
    /\ UNCHANGED <<linked, P1_finished, stats, pending, p1_vars, file, outside>>

Finish2 ==
    /\ Goto2("finish", "exited")
    /\ linked' = FALSE
    /\ UNCHANGED <<P1_finished, buf, stats, output, pending, p1_vars, file, outside>>

P2 ==
    \/ Start2 \/ UnblockUsr1 \/ ReadLine \/ RemoveLine \/ CheckFinished \/ Suspend
    \/ BlockInt2 \/ Errors \/ write10points_errors \/ Finish2

Handlers ==
    \/ \E s \in {"INT", "TERM"} : HandleSignal1(s)
    \/ \E s \in {"INT", "TERM", "USR1", "USR2"} : HandleSignal2(s)
    \/ \E signals \in SUBSET {"USR1", "USR2"} : WakeUp(signals)

Arrivals == \E p \in {"P1", "P2"}, s \in {"INT", "TERM"} : FromOutside(p, s)

Next == P1 \/ P2 \/ Handlers \/ Arrivals

Spec == Init /\ [][Next]_vars

\* Both processes are scheduled and a signal that is let through is handled.
FairSpec == Spec /\ WF_vars(P1) /\ WF_vars(P2) /\ WF_vars(Handlers)

-----------------------------------------------------------------------------
\* The properties.
Texts(from, to) == [i \in 1..(to + 1 - from) |-> Text(from + i - 1)]
Removed == IF p2 \in {"enter", "measure", "report"} THEN 1 ELSE 0
HasLine == next_available(file) < Len(file)

\* Whatever way P1's writes and P2's removals interleave, the temporary file
\* is what P1 wrote and P2 did not remove, in order and without a gap,
\* followed by spaces: both scans find the right place, no line is written
\* over and no piece of a removed one comes back.
FileIsQueue ==
    \E written \in {line - 1, line} \cap Nat, removed \in Len(output)..(Len(output) + 1) :
        /\ ~P2Ended => removed = Len(output) + Removed
        /\ \E n \in 0..Len(file) :
              file = FlattenSeq(Texts(removed + 1, written)) \o [j \in 1..n |-> Pad]

\* P2 reports the lines of P1 once each and in their order, and the line it
\* works on is the next one.
ReportsInOrder ==
    /\ output = Texts(1, Len(output))
    /\ buf # <<>> => buf = Text(Len(output) + 1)
    /\ Len(output) <= stats.idx /\ stats.idx <= stats.capacity

\* From the moment P2 has found no line until it is awake again, a line in
\* the file has a SIGUSR2 that is waiting or on its way: P2 blocks the signal
\* outside sigsuspend, so that none is handled between the look and the sleep.
NoLostWakeup ==
    p2 \in {"check", "suspend", "suspended"} /\ HasLine
        => "USR2" \in pending["P2"] \/ p1 = "wake" \/ P1Ended

\* The signals of P1 never end P2, however late P2 installs its handlers.
OnlyOutsideKills == p2 = "killed" => \E s \in {"INT", "TERM"} : <<"P2", s>> \in Outside \ outside

\* P2 does not end by itself before P1 has written all its lines.
EndsAfterP1 == p2 \in {"finish", "exited"} => line = Lines /\ p1 \in {"wait", "exited", "terminated", "killed"}

\* A SIGINT that comes while P1 fits the line does not end it, not even
\* later: it is one of the signals P1 prints at the end.
SectionCounted ==
    p1 = "fit" /\ "INT" \in pending["P1"] ~> "INT" \in arrived \/ p1 = "terminated"

\* False: P1 may write the last line after P2 has found the file empty and
\* send SIGUSR1 before P2 tests P1_finished.
AllLinesReported == p2 = "exited" => Len(output) = Lines

\* False: SIGUSR1 may be handled between the test of P1_finished and
\* sigsuspend, which then waits for a second one, SIGTERM blocked; so does P2
\* for ever after P1 was ended by a signal.
P2Ends == P1Ended \/ p1 = "wait" ~> P2Ended
=============================================================================
