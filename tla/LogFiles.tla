----------------------------- MODULE LogFiles -----------------------------
(* The log on disk of the graphical program: dd-run.log, its numbered      *)
(* predecessors, and the handle the logger keeps open.  Lines are numbered *)
(* in the order they are logged.  Every failure of the file system is      *)
(* ignored by the code, so the files are what counts, not the results.     *)
(* panic.log is only ever appended to: it shares the directory, not this   *)
(* rotation.                                                               *)
EXTENDS Naturals, Sequences, SequencesExt

CONSTANTS
  Keep,     \* ROTATE_KEEP: files that stay, dd-run.log among them
  Size,     \* ROTATE_THRESHOLD_BYTES, in lines
  MaxLines  \* bound: lines logged

Slot == 0 .. Keep - 1     \* 0 is dd-run.log, n is dd-run.log.n
File == 1 .. MaxLines + 1
None == 0

VARIABLES
  slot,    \* the file under each name, or None
  lines,   \* the lines of each file
  handle,  \* the file the logger writes to, named or not
  foreign, \* a file another program has open: no rename or removal
  logged,  \* lines logged so far
  refused, \* reopenings refused since the last that was not
  calm     \* no file was ever held, no reopening ever refused

vars == <<slot, lines, handle, foreign, logged, refused, calm>>

TypeOK ==
  /\ slot \in [Slot -> File \cup {None}]
  /\ DOMAIN lines = File /\ \A f \in File : lines[f] \in Seq(1 .. MaxLines)
  /\ handle \in File /\ foreign \in File \cup {None}
  /\ logged \in 0 .. MaxLines /\ refused \in 0 .. MaxLines /\ calm \in BOOLEAN

\* Opened at start; without a directory there is no file sink and nothing
\* of this module happens.
Init ==
  /\ slot = [n \in Slot |-> IF n = 0 THEN 1 ELSE None]
  /\ lines = [f \in File |-> <<>>]
  /\ handle = 1 /\ foreign = None /\ logged = 0 /\ refused = 0 /\ calm = TRUE

\* One rung of rotate_logs: remove n + 1, then rename n to n + 1. A held
\* file stays where it is, and nothing is renamed over it.
Shift(names, n) ==
  LET freed == IF names[n + 1] = foreign THEN names ELSE [names EXCEPT ![n + 1] = None]
  IN  IF freed[n] \in {None, foreign} \/ freed[n + 1] # None
      THEN freed
      ELSE [freed EXCEPT ![n + 1] = freed[n], ![n] = None]

\* A faulty order for the checks below: from the newest to the oldest.
RotatedUpwards(names) ==
  LET after[i \in 0 .. Keep - 1] ==
        IF i = 0 THEN names ELSE Shift(after[i - 1], i - 1)
  IN  after[Keep - 1]

\* From the oldest to the newest, dd-run.log last.
Rotated(names) ==
  LET after[i \in 0 .. Keep - 1] ==
        IF i = 0 THEN names ELSE Shift(after[i - 1], Keep - 1 - i)
  IN  after[Keep - 1]

Unused == CHOOSE f \in File : f # handle /\ lines[f] = <<>> /\ \A n \in Slot : slot[n] # f

Append1(file) == /\ handle' = file
                 /\ lines' = [lines EXCEPT ![file] = Append(@, logged + 1)]
                 /\ logged' = logged + 1

\* write_line, under the lock of the sink. dd-run.log is opened again after
\* a rotation, created if the rename has freed its name; where that fails
\* the line goes to the old handle.
WriteLine ==
  /\ logged < MaxLines
  /\ IF Len(lines[handle]) < Size
     THEN Append1(handle) /\ UNCHANGED <<slot, refused, calm>>
     ELSE LET names == Rotated(slot) IN
          \/ /\ IF names[0] = None
                THEN slot' = [names EXCEPT ![0] = Unused] /\ Append1(Unused)
                ELSE slot' = names /\ Append1(names[0])
             /\ refused' = 0 /\ UNCHANGED calm
          \/ /\ slot' = names /\ Append1(handle)
             /\ refused' = refused + 1 /\ calm' = FALSE
  /\ UNCHANGED foreign

\* Another program opens one of the files without sharing its deletion, or
\* closes it.
Foreign ==
  /\ IF foreign = None
     THEN foreign' \in {slot[n] : n \in Slot} \ {None} /\ calm' = FALSE
     ELSE foreign' = None /\ UNCHANGED calm
  /\ UNCHANGED <<slot, lines, handle, logged, refused>>

Next == WriteLine \/ Foreign

Spec == Init /\ [][Next]_vars

Kept == {i \in 1 .. logged : \E n \in Slot : slot[n] # None /\ i \in ToSet(lines[slot[n]])}

\* While the file system does what it is asked, rotation forgets nothing but
\* the oldest file: the last Keep - 1 files' worth of lines are all there.
OnlyTheOldestGoes ==
  calm => \A i \in 1 .. logged : logged - i < (Keep - 1) * Size => i \in Kept

\* Whoever holds a file open, and after one refused reopening too, the line
\* just written can be read in a named file. Two refusals in a row are
\* enough to lose it: the first leaves the handle on dd-run.log.1, and a
\* held dd-run.log.2 makes the second rotation remove it.
LatestIsKept == logged > 0 /\ refused < 2 => logged \in Kept

\* The comment in write_line: a reopening that fails costs the rotation and
\* not the log.
LatestIsAlwaysKept == logged > 0 => logged \in Kept
=============================================================================
