--------------------------- MODULE ExtensionsProofs ---------------------------
(***************************************************************************)
(* Proofs about the extensions the program ships and the tool that checks  *)
(* one (MCExtensions): the shell, the bookmarks, the search engines, the   *)
(* programs, the search of files and the conformance check; then the types *)
(* of all of them, and what the calculator answers.  The parts share no    *)
(* variable: each has an invariant of its own, kept by its steps and by    *)
(* those of the others, which leave its variables alone.                   *)
(***************************************************************************)
EXTENDS MCExtensions, Integers, FiniteSetTheorems, WellFoundedInduction, TLAPS

-----------------------------------------------------------------------------
(* The commands of the shell extension (ShellRun).                          *)

\* Every byte written is in the pipe or with the reader, and a reader that
\* ended left nothing behind and nobody to write.
Conserved(s) ==
    /\ pipe[s] \in Nat /\ got[s] \in Nat /\ written[s] = got[s] + pipe[s]
    /\ reader[s] = "ended" => pipe[s] = 0 /\ child # "running" /\ ~heir

\* The strengthening of OutputIsWhole: the readers are waited for only when the
\* process is over, and an output that was shown can no longer grow.
IInv ==
    /\ pipe \in [Stream -> Nat] /\ got \in [Stream -> Nat] /\ written \in [Stream -> Nat]
    /\ reader \in [Stream -> {"none", "reading", "ended"}]
    /\ \A s \in Stream : Conserved(s)
    /\ phase = "joining" => child # "running"
    /\ phase # "idle" => answer.kind # "output"
    /\ phase = "idle" /\ answer.kind = "output" =>
          answer.output = written /\ ~heir /\ child # "running"

\* Nothing runs at first.
LEMMA InitIInv == Init => IInv
  BY DEF Init, IInv, Conserved, Zero, Stream

\* An answer of handle_invoke's own is not an output.
LEMMA SaysNoOutput ==
    ASSUME NEW kind, kind # "output", Says(kind)
    PROVE  answer'.kind # "output"
  BY DEF Says

\* The results that start no process leave the last one alone.
LEMMA IdleKeepsIInv ==
    ASSUME IInv, phase' = phase, phase = "idle", UNCHANGED procVars, answer'.kind # "output"
    PROVE  IInv'
  BY DEF IInv, Conserved, procVars

\* The process and its heirs write to one pipe; an ended reader forbids it.
LEMMA WriteKeepsIInv ==
    ASSUME IInv, NEW s \in Stream, Write(s)
    PROVE  IInv'
<1>1. /\ written' = [written EXCEPT ![s] = @ + 1] /\ pipe' = [pipe EXCEPT ![s] = @ + 1]
      /\ child = "running" \/ heir
      /\ UNCHANGED <<phase, child, heir, reader, got, answer>>
  BY DEF Write
<1>2. \A t \in Stream : Conserved(t)'
  BY <1>1 DEF IInv, Conserved
<1> QED
  BY <1>1, <1>2 DEF IInv

\* A reader takes from its pipe, or ends once it is empty and closed.
LEMMA ReadKeepsIInv ==
    ASSUME IInv, NEW s \in Stream, Read(s)
    PROVE  IInv'
<1>1. UNCHANGED <<phase, child, heir, written, answer>>
  BY DEF Read
<1>2. CASE /\ pipe[s] > 0
           /\ pipe' = [pipe EXCEPT ![s] = @ - 1] /\ got' = [got EXCEPT ![s] = @ + 1]
           /\ UNCHANGED reader
  <2>1. \A t \in Stream : Conserved(t)'
    BY <1>1, <1>2 DEF IInv, Conserved
  <2> QED BY <1>1, <1>2, <2>1 DEF IInv, Conserved
<1>3. CASE /\ pipe[s] = 0 /\ child # "running" /\ ~heir
           /\ reader' = [reader EXCEPT ![s] = "ended"] /\ UNCHANGED <<pipe, got>>
  <2>1. \A t \in Stream : Conserved(t)'
    BY <1>1, <1>3 DEF IInv, Conserved
  <2> QED BY <1>1, <1>3, <2>1 DEF IInv
<1> QED
  BY <1>2, <1>3 DEF Read

\* The join of both readers: their pipes are empty, so got is what was written.
LEMMA JoinKeepsIInv ==
    ASSUME IInv, Join
    PROVE  IInv'
<1>1. /\ phase' = "idle" /\ answer' = [kind |-> "output", output |-> got]
      /\ UNCHANGED procVars /\ phase = "joining" /\ \A s \in Stream : reader[s] = "ended"
  BY DEF Join
<1>2. \A s \in Stream : pipe[s] = 0 /\ written[s] = got[s]
  BY <1>1 DEF IInv, Conserved
<1>3. got = written
  BY <1>2 DEF IInv
<1>4. "stdout" \in Stream
  BY DEF Stream
<1>5. ~heir /\ child # "running"
  BY <1>1, <1>4 DEF IInv, Conserved
<1> QED
  BY <1>1, <1>3, <1>5 DEF IInv, Conserved, procVars

\* Every step keeps the invariant.
LEMMA NextIInv ==
    ASSUME IInv, [Next]_shellVars
    PROVE  IInv'
<1>1. CASE OpenTerminal \/ (\E dangerous, yes \in BOOLEAN : SystemCommand(dangerous, yes))
  BY <1>1, SaysNoOutput, IdleKeepsIInv DEF OpenTerminal, SystemCommand
<1>2. ASSUME NEW q \in Query, NEW yes \in BOOLEAN, Refuse(q, yes) PROVE IInv'
  BY <1>2, SaysNoOutput, IdleKeepsIInv DEF Refuse
<1>3. ASSUME NEW q \in Query, NEW yes \in BOOLEAN, Spawn(q, yes) PROVE IInv'
  <2>1. CASE Says("toast") /\ UNCHANGED <<phase, procVars>>
    BY <1>3, <2>1, SaysNoOutput, IdleKeepsIInv DEF Spawn
  <2>2. CASE /\ phase' = "polling" /\ child' = "running" /\ heir' = FALSE
             /\ pipe' = Zero /\ written' = Zero /\ got' = Zero
             /\ reader' = [s \in Stream |-> "reading"]
             /\ Says("none")
    BY <2>2, SaysNoOutput DEF IInv, Conserved, Zero
  <2> QED BY <1>3, <2>1, <2>2 DEF Spawn
<1>4. ASSUME NEW s \in Stream, Write(s) \/ Read(s) PROVE IInv'
  BY <1>4, WriteKeepsIInv, ReadKeepsIInv
<1>5. CASE LeaveBehind
  <2>1. child = "running" /\ heir' = TRUE
        /\ UNCHANGED <<phase, child, pipe, written, reader, got, answer>>
    BY <1>5 DEF LeaveBehind
  <2> QED BY <2>1 DEF IInv, Conserved
<1>6. CASE HeirEnds \/ Exit
  BY <1>6 DEF HeirEnds, Exit, IInv, Conserved
<1>7. CASE Poll
  <2>1. UNCHANGED <<heir, pipe, written, reader, got>>
    BY <1>7 DEF Poll
  <2>2. CASE child = "exited" /\ phase = "polling" /\ phase' = "joining" /\ UNCHANGED <<child, answer>>
    BY <2>1, <2>2 DEF IInv, Conserved
  <2>3. CASE child = "running" /\ UNCHANGED <<phase, child, answer>>
    BY <2>1, <2>3 DEF IInv, Conserved
  <2>4. CASE child = "running" /\ child' = "killed" /\ phase' = "idle" /\ Says("timeout")
    BY <2>1, <2>4, SaysNoOutput DEF IInv, Conserved
  <2>5. CASE phase' = "idle" /\ Says("toast") /\ UNCHANGED child
    BY <2>1, <2>5, SaysNoOutput DEF IInv, Conserved
  <2> QED BY <1>7, <2>2, <2>3, <2>4, <2>5 DEF Poll
<1>8. CASE Join
  BY <1>8, JoinKeepsIInv
<1>9. CASE UNCHANGED shellVars
  BY <1>9 DEF shellVars, IInv, Conserved
<1> QED
  BY <1>1, <1>2, <1>3, <1>4, <1>5, <1>6, <1>7, <1>8, <1>9 DEF Next

\* An output that is shown is everything the command and what it left behind
\* wrote, for every schedule of the process, its heir and the two readers.
THEOREM WholeOutput == Spec => []OutputIsWhole
<1>1. IInv => OutputIsWhole
  BY DEF IInv, OutputIsWhole
<1> QED
  BY <1>1, InitIInv, NextIInv, PTL DEF Spec

\* So it is when the shell extension is one of the extensions.
THEOREM OutputStaysWhole == ExtensionsSpec => []OutputIsWhole
<1>1. ExtensionsInit => IInv
  BY InitIInv DEF ExtensionsInit
<1>2. ASSUME IInv, [ExtensionsNext]_extensionsVars PROVE IInv'
  <2>1. [Next]_shellVars
    BY <1>2 DEF ExtensionsNext, extensionsVars, commandVars, shellVars
  <2> QED BY <2>1, <1>2, NextIInv
<1>3. IInv => OutputIsWhole
  BY DEF IInv, OutputIsWhole
<1> QED
  BY <1>1, <1>2, <1>3, PTL DEF ExtensionsSpec

-----------------------------------------------------------------------------
(* Recursion along a sequence.                                              *)

\* A set of numbers that is not empty has a least one.
LEMMA LeastNat ==
    ASSUME NEW T, T \subseteq Nat, T # {}
    PROVE  \E m \in T : \A n \in T : m <= n
<1> DEFINE R == OpToRel(<, Nat)
<1>1. IsWellFoundedOn(R, Nat)
  BY NatLessThanWellFounded
<1>2. \A m, n \in Nat : n < m => <<n, m>> \in R
  BY DEF OpToRel
<1> HIDE DEF R
<1>3. PICK m \in T : \A n \in T : ~(<<n, m>> \in R)
  BY <1>1, WFMin
<1>4. \A n \in T : ~(n < m)
  BY <1>2, <1>3
<1>5. m \in Nat /\ \A n \in T : n \in Nat
  OBVIOUS
<1> QED
  BY <1>4, <1>5

\* Induction: a set with 0 and every successor has all numbers.
LEMMA NatInd ==
    ASSUME NEW T, 0 \in T, \A n \in Nat : n \in T => n + 1 \in T
    PROVE  Nat \subseteq T
<1> SUFFICES ASSUME Nat \ T # {} PROVE FALSE
  OBVIOUS
<1>1. PICK m \in Nat \ T : \A n \in Nat \ T : m <= n
  BY LeastNat
<1>2. m # 0 /\ m - 1 \in Nat /\ m - 1 \notin Nat \ T
  BY <1>1
<1> QED BY <1>1, <1>2

\* f is computed step by step, up to last.
RunsBy(f, start, step1, last) ==
    f = [i \in 0 .. last |-> IF i = 0 THEN start ELSE step1[<<f[i - 1], i>>]]

\* What is computed element by element exists, and stays in the set the steps
\* stay in.
LEMMA Recursion ==
    ASSUME NEW D, NEW start \in D, NEW step1 \in [D \X Nat -> D], NEW last \in Nat
    PROVE  \E f \in [0 .. last -> D] : RunsBy(f, start, step1, last)
<1> DEFINE Runs(f, n) ==
             f = [i \in 0 .. n |-> IF i = 0 THEN start ELSE step1[<<f[i - 1], i>>]]
           T == {n \in Nat : \E f \in [0 .. n -> D] : Runs(f, n)}
<1>1. 0 \in T
  <2> DEFINE f == [i \in 0 .. 0 |-> start]
  <2>1. f \in [0 .. 0 -> D] /\ Runs(f, 0)
    OBVIOUS
  <2> QED BY <2>1
<1>2. ASSUME NEW n \in Nat, n \in T PROVE n + 1 \in T
  <2>1. PICK f \in [0 .. n -> D] : Runs(f, n)
    BY <1>2
  <2> DEFINE h == [i \in 0 .. n + 1 |-> IF i \in 0 .. n THEN f[i] ELSE step1[<<f[n], n + 1>>]]
  <2>2. h \in [0 .. n + 1 -> D]
    <3>1. f[n] \in D /\ <<f[n], n + 1>> \in D \X Nat
      OBVIOUS
    <3> QED BY <3>1
  <2>3. \A i \in 0 .. n + 1 : h[i] = IF i = 0 THEN start ELSE step1[<<h[i - 1], i>>]
    <3> SUFFICES ASSUME NEW i \in 0 .. n + 1
                 PROVE  h[i] = IF i = 0 THEN start ELSE step1[<<h[i - 1], i>>]
      OBVIOUS
    <3>1. CASE i \in 0 .. n
      <4>1. h[i] = f[i] /\ (i # 0 => h[i - 1] = f[i - 1])
        BY <3>1
      <4>2. f[i] = IF i = 0 THEN start ELSE step1[<<f[i - 1], i>>]
        BY <2>1, <3>1
      <4> HIDE DEF h
      <4> QED BY <4>1, <4>2
    <3>2. CASE i = n + 1
      <4>1. i # 0 /\ i - 1 = n /\ h[i - 1] = f[n] /\ h[i] = step1[<<f[n], i>>]
        BY <3>2
      <4> HIDE DEF h
      <4> QED BY <4>1
    <3> QED BY <3>1, <3>2
  <2> HIDE DEF h
  <2>4. Runs(h, n + 1)
    BY <2>2, <2>3
  <2> HIDE DEF Runs
  <2>5. \E f0 \in [0 .. n + 1 -> D] : Runs(f0, n + 1)
    BY <2>2, <2>4
  <2> QED BY <2>5
<1> HIDE DEF T
<1>3. last \in T
  BY <1>1, <1>2, NatInd
<1> QED
  BY <1>3 DEF T, RunsBy

\* Where each step stays, the last value is.
LEMMA StaysIn ==
    ASSUME NEW D, NEW h, NEW last \in Nat, h[0] \in D,
           \A i \in 1 .. last : h[i - 1] \in D => h[i] \in D
    PROVE  h[last] \in D
<1> DEFINE T == {n \in Nat : n \in 0 .. last => h[n] \in D}
<1>1. 0 \in T
  OBVIOUS
<1>2. ASSUME NEW n \in Nat, n \in T PROVE n + 1 \in T
  <2> SUFFICES ASSUME n + 1 \in 0 .. last PROVE h[n + 1] \in D
    OBVIOUS
  <2>1. n \in 0 .. last /\ n + 1 \in 1 .. last /\ (n + 1) - 1 = n
    OBVIOUS
  <2>2. h[n] \in D
    BY <1>2, <2>1
  <2> QED BY <2>1, <2>2
<1> HIDE DEF T
<1>3. last \in T /\ last \in 0 .. last
  BY <1>1, <1>2, NatInd
<1> QED
  BY <1>3 DEF T

-----------------------------------------------------------------------------
(* The index of the bookmarks (Bookmarks).                                  *)

\* The copies in m are no newer than the clock, and a copy with the time of
\* the file that is there has its entries.
Current(m, files, time) ==
    \A f \in Profile \cap DOMAIN m :
        /\ m[f].mtime \in 0 .. time
        /\ files[f] # Bookmarks!Gone /\ m[f].mtime = files[f].mtime /\ m[f].read
             => m[f].entries = Bookmarks!Parse(files[f].text)

\* A caller on its way: what it copied, and what it has parsed so far.
WayOK(w, files, time) ==
    \/ w = Bookmarks!Quiet
    \/ /\ w.at \in {"stat", "text"}
       /\ w \in [at : {"stat", "text"}, call : {w.call}, old : {w.old},
                 todo : {w.todo}, files : {w.files}, mtime : {w.mtime}]
       /\ Current(w.old, files, time) /\ Current(w.files, files, time)
       /\ w.at = "text" /\ Bookmarks!Next1(w.todo) \in Profile => w.mtime \in 0 .. time

\* The strengthening of FreshIsCurrent: it holds of every copy a caller has,
\* too, and no file is newer than the clock.
BooksIInv ==
    /\ clock \in Nat
    /\ disk \in [Profile -> {Bookmarks!Gone} \cup [mtime : 1 .. clock, text : Bookmarks!Text]]
    /\ Current(bookmarksIndex.files, disk, clock)
    /\ caller = [c \in Caller |-> caller[c]]
    /\ \A c \in Caller : WayOK(caller[c], disk, clock)

\* There is no index and no caller at first.
LEMMA InitBooksIInv == Bookmarks!Init => BooksIInv
<1> SUFFICES ASSUME Bookmarks!Init PROVE BooksIInv
  OBVIOUS
<1>1. Current(<<>>, disk, clock)
  BY DEF Current
<1>2. bookmarksIndex.files = <<>>
  BY DEF Bookmarks!Init, Bookmarks!NoIndex
<1>3. disk \in [Profile -> {Bookmarks!Gone} \cup [mtime : 1 .. clock, text : Bookmarks!Text]]
  BY DEF Bookmarks!Init
<1> QED
  BY <1>1, <1>2, <1>3 DEF Bookmarks!Init, BooksIInv, WayOK

\* A later write makes no copy wrong: its time is a new one.
LEMMA WriteKeepsCurrent ==
    ASSUME NEW m, NEW files, NEW time \in Nat, NEW f \in Profile, NEW new,
           Current(m, files, time), files = [p \in Profile |-> files[p]],
           new = Bookmarks!Gone \/ new.mtime = time + 1
    PROVE  Current(m, [files EXCEPT ![f] = new], time + 1)
  BY DEF Current

\* Nor does it make the way of a caller wrong.
LEMMA WriteKeepsWayOK ==
    ASSUME NEW w, NEW files, NEW time \in Nat, NEW f \in Profile, NEW new,
           WayOK(w, files, time), files = [p \in Profile |-> files[p]],
           new = Bookmarks!Gone \/ new.mtime = time + 1
    PROVE  WayOK(w, [files EXCEPT ![f] = new], time + 1)
  BY WriteKeepsCurrent DEF WayOK

\* A copy added to those of a caller.
LEMMA KeepWayOK ==
    ASSUME NEW w, NEW files, NEW time \in Nat, NEW f, NEW entry,
           WayOK(w, files, time), w # Bookmarks!Quiet,
           f \in Profile =>
               /\ entry.mtime \in 0 .. time
               /\ files[f] # Bookmarks!Gone /\ entry.mtime = files[f].mtime /\ entry.read
                    => entry.entries = Bookmarks!Parse(files[f].text)
    PROVE  WayOK(Bookmarks!Keep(w, f, entry), files, time)
<1> DEFINE more == [h \in DOMAIN w.files \cup {f} |-> IF h = f THEN entry ELSE w.files[h]]
           v == Bookmarks!Keep(w, f, entry)
<1>1. Current(more, files, time)
  BY DEF WayOK, Current
<1> HIDE DEF more
<1>2. w \in [at : {"stat", "text"}, call : {w.call}, old : {w.old},
             todo : {w.todo}, files : {w.files}, mtime : {w.mtime}]
  BY DEF WayOK
<1>3. v = [w EXCEPT !.at = "stat", !.todo = @ \ {f}, !.files = more]
  BY DEF Bookmarks!Keep, more
<1> HIDE DEF v
<1>4. /\ v.at = "stat" /\ v.old = w.old /\ v.files = more
      /\ v \in [at : {"stat", "text"}, call : {v.call}, old : {v.old},
                todo : {v.todo}, files : {v.files}, mtime : {v.mtime}]
  BY <1>2, <1>3
<1> QED
  BY <1>1, <1>4 DEF WayOK, v

\* A caller's step changes its own way only.
LEMMA WayKeepsBooksIInv ==
    ASSUME BooksIInv, NEW c \in Caller, NEW w, WayOK(w, disk, clock),
           caller' = [caller EXCEPT ![c] = w], UNCHANGED <<disk, clock, bookmarksIndex>>
    PROVE  BooksIInv'
  BY DEF BooksIInv

\* A caller takes the time of a file, and perhaps its old copy.
LEMMA StatKeepsBooksIInv ==
    ASSUME BooksIInv, NEW c \in Caller, Bookmarks!Stat(c)
    PROVE  BooksIInv'
<1> DEFINE w == caller[c]
           f == Bookmarks!Next1(w.todo)
           v == [w EXCEPT !.at = "text", !.mtime = disk[f].mtime]
<1>1. w.at = "stat" /\ UNCHANGED <<disk, clock, bookmarksIndex>>
  BY DEF Bookmarks!Stat
<1>2. WayOK(w, disk, clock) /\ w # Bookmarks!Quiet /\ clock \in Nat
  BY <1>1 DEF BooksIInv, Bookmarks!Quiet
<1>3. CASE /\ f \in DOMAIN w.old /\ w.old[f].mtime = disk[f].mtime
           /\ caller' = [caller EXCEPT ![c] = Bookmarks!Keep(w, f, w.old[f])]
  <2>1. Current(w.old, disk, clock)
    BY <1>2 DEF WayOK
  <2>2. WayOK(Bookmarks!Keep(w, f, w.old[f]), disk, clock)
    BY <1>2, <1>3, <2>1, KeepWayOK DEF Current
  <2> QED BY <1>1, <1>3, <2>2, WayKeepsBooksIInv
<1>4. CASE caller' = [caller EXCEPT ![c] = v]
  <2>1. f \in Profile => disk[f].mtime \in 0 .. clock
    BY <1>2 DEF BooksIInv, Bookmarks!Gone
  <2> HIDE DEF f
  <2>2. w \in [at : {"stat", "text"}, call : {w.call}, old : {w.old},
               todo : {w.todo}, files : {w.files}, mtime : {w.mtime}]
    BY <1>2 DEF WayOK
  <2>3. /\ v.at = "text" /\ v.old = w.old /\ v.files = w.files
        /\ v.todo = w.todo /\ v.mtime = disk[f].mtime
        /\ v \in [at : {"stat", "text"}, call : {v.call}, old : {v.old},
                  todo : {v.todo}, files : {v.files}, mtime : {v.mtime}]
    BY <2>2
  <2> HIDE DEF v
  <2>4. WayOK(v, disk, clock)
    BY <1>2, <2>1, <2>3 DEF WayOK, f
  <2> QED BY <1>1, <1>4, <2>4, WayKeepsBooksIInv
<1> QED
  BY <1>3, <1>4 DEF Bookmarks!Stat

\* A caller reads the text of a file.
LEMMA ReadKeepsBooksIInv ==
    ASSUME BooksIInv, NEW c \in Caller, Bookmarks!Read(c)
    PROVE  BooksIInv'
<1> DEFINE w == caller[c]
           f == Bookmarks!Next1(w.todo)
<1>1. w.at = "text" /\ UNCHANGED <<disk, clock, bookmarksIndex>>
  BY DEF Bookmarks!Read
<1>2. WayOK(w, disk, clock) /\ w # Bookmarks!Quiet /\ clock \in Nat
  BY <1>1 DEF BooksIInv, Bookmarks!Quiet
<1>3. PICK ok \in {FALSE, disk[f] # Bookmarks!Gone} :
         caller' = [caller EXCEPT ![c] = Bookmarks!Keep(w, f,
           [mtime |-> w.mtime, read |-> ok,
            entries |-> IF ok THEN Bookmarks!Parse(disk[f].text) ELSE <<>>])]
  BY DEF Bookmarks!Read
<1> DEFINE e == [mtime |-> w.mtime, read |-> ok,
                 entries |-> IF ok THEN Bookmarks!Parse(disk[f].text) ELSE <<>>]
<1>4. e.mtime = w.mtime /\ e.read = ok /\ (ok => e.entries = Bookmarks!Parse(disk[f].text))
  OBVIOUS
<1>5. f \in Profile => w.mtime \in 0 .. clock
  BY <1>1, <1>2 DEF WayOK
<1> HIDE DEF e, f
<1>6. WayOK(Bookmarks!Keep(w, f, e), disk, clock)
  BY <1>2, <1>4, <1>5, KeepWayOK
<1> QED
  BY <1>1, <1>3, <1>6, WayKeepsBooksIInv DEF e, f

\* Every step keeps the invariant of the bookmarks.
LEMMA NextBooksIInv ==
    ASSUME BooksIInv, [Bookmarks!Next]_bookmarksVars
    PROVE  BooksIInv'
<1>1. ASSUME NEW c \in Caller, Bookmarks!Hit(c)
      PROVE  BooksIInv'
  BY <1>1 DEF Bookmarks!Hit, BooksIInv
<1>2. ASSUME NEW c \in Caller, Bookmarks!Rebuild(c)
      PROVE  BooksIInv'
  <2>1. PICK call : caller' = [caller EXCEPT ![c] = [at |-> "stat", call |-> call,
                       old |-> bookmarksIndex.files, todo |-> Bookmarks!Sources,
                       files |-> <<>>, mtime |-> 0]]
    BY <1>2 DEF Bookmarks!Rebuild
  <2> DEFINE w == [at |-> "stat", call |-> call, old |-> bookmarksIndex.files,
                   todo |-> Bookmarks!Sources, files |-> <<>>, mtime |-> 0]
  <2>2. Current(<<>>, disk, clock) /\ Current(bookmarksIndex.files, disk, clock)
    BY DEF Current, BooksIInv
  <2>3. WayOK(w, disk, clock)
    BY <2>2 DEF WayOK
  <2>4. UNCHANGED <<disk, clock, bookmarksIndex>>
    BY <1>2 DEF Bookmarks!Rebuild
  <2> HIDE DEF w
  <2> QED BY <2>1, <2>3, <2>4, WayKeepsBooksIInv DEF w
<1>3. ASSUME NEW c \in Caller, Bookmarks!Publish(c)
      PROVE  BooksIInv'
  <2>1. /\ caller[c].at = "stat" /\ UNCHANGED <<disk, clock>>
        /\ bookmarksIndex'.files = caller[c].files
        /\ caller' = [caller EXCEPT ![c] = Bookmarks!Quiet]
    BY <1>3 DEF Bookmarks!Publish, Bookmarks!Merge
  <2>2. Current(caller[c].files, disk, clock)
    BY <2>1 DEF BooksIInv, WayOK, Bookmarks!Quiet
  <2> QED BY <2>1, <2>2 DEF BooksIInv, WayOK
<1>4. ASSUME NEW f \in Profile, Bookmarks!BrowserWrites(f)
      PROVE  BooksIInv'
  <2>1. PICK new : /\ new \in {Bookmarks!Gone} \cup [mtime : {clock + 1}, text : Bookmarks!Text]
                   /\ disk' = [disk EXCEPT ![f] = new] /\ clock' = clock + 1
                   /\ UNCHANGED <<bookmarksIndex, caller>>
    BY <1>4 DEF Bookmarks!BrowserWrites
  <2>2. disk = [p \in Profile |-> disk[p]] /\ clock \in Nat
    BY DEF BooksIInv
  <2>3. new = Bookmarks!Gone \/ new.mtime = clock + 1
    BY <2>1
  <2>4. Current(bookmarksIndex.files, disk', clock')
    BY <2>1, <2>2, <2>3, WriteKeepsCurrent DEF BooksIInv
  <2>5. \A c \in Caller : WayOK(caller[c], disk', clock')
    BY <2>1, <2>2, <2>3, WriteKeepsWayOK DEF BooksIInv
  <2>6. disk' \in [Profile -> {Bookmarks!Gone} \cup [mtime : 1 .. clock', text : Bookmarks!Text]]
    BY <2>1, <2>2 DEF BooksIInv
  <2> QED BY <2>1, <2>2, <2>4, <2>5, <2>6 DEF BooksIInv
<1>5. CASE UNCHANGED bookmarksVars
  BY <1>5 DEF bookmarksVars, BooksIInv
<1> QED
  BY <1>1, <1>2, <1>3, <1>4, <1>5, StatKeepsBooksIInv, ReadKeepsBooksIInv DEF Bookmarks!Next

\* However many callers rebuild the index, and whatever the browsers write in
\* between, a copy with the time of the file has the bookmarks of the file.
THEOREM FreshStaysCurrent == ExtensionsSpec => []FreshIsCurrent
<1> DEFINE Now == part = "bookmarks" => BooksIInv
<1>1. ExtensionsInit => Now
  BY InitBooksIInv DEF ExtensionsInit, BookmarksStart
<1>2. ASSUME Now, [ExtensionsNext]_extensionsVars PROVE Now'
  <2>1. part' = part /\ (part = "bookmarks" => [Bookmarks!Next]_bookmarksVars)
    BY <1>2 DEF ExtensionsNext, extensionsVars
  <2> QED BY <2>1, <1>2, NextBooksIInv
<1>3. BooksIInv => Bookmarks!FreshIsCurrent
  BY DEF BooksIInv, Current, Bookmarks!FreshIsCurrent, Bookmarks!Sources
<1>4. Now => FreshIsCurrent
  BY <1>3 DEF FreshIsCurrent
<1> QED
  BY <1>1, <1>2, <1>4, PTL DEF ExtensionsSpec

-----------------------------------------------------------------------------
(* The ids of the search engines (WebSearch).                               *)

Words == Word \cup Nat
Engine == [name : Name, suffix : Seq(Words)]

\* Engines of which no two have one suffix.
Distinct == {s \in Seq(Engine) : \A i, j \in 1 .. Len(s) : s[i].suffix = s[j].suffix => i = j}

\* A slug is a list of words.
LEMMA SlugsAreWords == \A name \in Name : Slug[name] \in Seq(Words)
  BY ExtensionsAssumption DEF Words

\* The candidates for a slug are words, and all different.
LEMMA CandidatesDiffer ==
    ASSUME NEW slug \in Seq(Words)
    PROVE  /\ \A n \in Nat : Web!Candidate(slug, n) \in Seq(Words)
           /\ \A m, n \in Nat \ {0} :
                Web!Candidate(slug, m) = Web!Candidate(slug, n) => m = n
<1>1. ASSUME NEW n \in Nat
      PROVE  /\ Append(slug, n) \in Seq(Words)
             /\ Len(Append(slug, n)) = Len(slug) + 1
             /\ Append(slug, n)[Len(slug) + 1] = n
  <2>1. n \in Words
    BY DEF Words
  <2> QED BY <2>1
<1>2. Len(slug) \in Nat
  OBVIOUS
<1>3. \A n \in Nat : Append(slug, n) # slug
  BY <1>1, <1>2
<1>4. \A m, n \in Nat : Append(slug, m) = Append(slug, n) => m = n
  BY <1>1
<1> QED
  BY <1>1, <1>3, <1>4 DEF Web!Candidate

\* One of the first candidates is not used yet: there is one more than there
\* are engines.
LEMMA CandidateIsFree ==
    ASSUME NEW before \in Seq(Engine), NEW slug \in Seq(Words)
    PROVE  \E n \in 1 .. Len(before) + 1 : \A j \in 1 .. Len(before) :
               before[j].suffix # Web!Candidate(slug, n)
<1> SUFFICES ASSUME \A n \in 1 .. Len(before) + 1 : \E j \in 1 .. Len(before) :
                        before[j].suffix = Web!Candidate(slug, n)
             PROVE  FALSE
  OBVIOUS
<1> DEFINE f == [n \in 1 .. Len(before) + 1 |->
                   CHOOSE j \in 1 .. Len(before) : before[j].suffix = Web!Candidate(slug, n)]
<1>1. Len(before) \in Nat
  OBVIOUS
<1>2. \A n \in 1 .. Len(before) + 1 :
         f[n] \in 1 .. Len(before) /\ before[f[n]].suffix = Web!Candidate(slug, n)
  OBVIOUS
<1>3. f \in [1 .. Len(before) + 1 -> 1 .. Len(before)]
  BY <1>2
<1> HIDE DEF f
<1>4. \A k \in Nat : IsFiniteSet(1 .. k) /\ Cardinality(1 .. k) = k
  <2> SUFFICES ASSUME NEW k \in Nat PROVE IsFiniteSet(1 .. k) /\ Cardinality(1 .. k) = k
    OBVIOUS
  <2>1. 1 \in Int /\ k \in Int
    OBVIOUS
  <2>2. /\ IsFiniteSet(1 .. k)
        /\ Cardinality(1 .. k) = IF 1 > k THEN 0 ELSE k - 1 + 1
    BY <2>1, FS_Interval
  <2> QED BY <2>2
<1>5. PICK m, n \in 1 .. Len(before) + 1 : m # n /\ f[m] = f[n]
  <2>1. Len(before) + 1 \in Nat
    BY <1>1
  <2>2. /\ IsFiniteSet(1 .. Len(before)) /\ IsFiniteSet(1 .. Len(before) + 1)
        /\ Cardinality(1 .. Len(before)) = Len(before)
        /\ Cardinality(1 .. Len(before) + 1) = Len(before) + 1
    BY <1>1, <2>1, <1>4
  <2>3. Cardinality(1 .. Len(before)) < Cardinality(1 .. Len(before) + 1)
    BY <1>1, <2>2
  <2> QED BY <1>3, <2>2, <2>3, FS_PigeonHole
<1>6. Web!Candidate(slug, m) = Web!Candidate(slug, n)
  BY <1>2, <1>5
<1> QED
  BY <1>1, <1>5, <1>6, CandidatesDiffer

\* So an engine is given a suffix of its own.
LEMMA ChosenIsNew ==
    ASSUME NEW before \in Seq(Engine), NEW name \in Name
    PROVE  /\ Web!Chosen(before, name) \in Engine
           /\ \A j \in 1 .. Len(before) :
                before[j].suffix # Web!Chosen(before, name).suffix
<1> DEFINE slug == Slug[name]
           taken == {before[j].suffix : j \in DOMAIN before}
           free(n) == Web!Candidate(slug, n) \notin taken
           T == {n \in 1 .. Len(before) + 1 : free(n)}
           best == CHOOSE n \in 1 .. Len(before) + 1 :
                     free(n) /\ \A k \in 1 .. n - 1 : ~free(k)
<1>1. slug \in Seq(Words) /\ DOMAIN before = 1 .. Len(before) /\ Len(before) \in Nat
  BY SlugsAreWords
<1>2. T # {} /\ T \subseteq Nat
  BY <1>1, CandidateIsFree
<1>3. PICK m \in T : \A n \in T : m <= n
  BY <1>2, LeastNat
<1>4. m \in 1 .. Len(before) + 1 /\ free(m) /\ \A k \in 1 .. m - 1 : ~free(k)
  <2>1. m \in 1 .. Len(before) + 1 /\ free(m)
    BY <1>3
  <2>2. ASSUME NEW k \in 1 .. m - 1, free(k) PROVE FALSE
    <3>1. k \in T /\ k < m
      BY <1>1, <2>1, <2>2
    <3> QED BY <1>1, <1>3, <2>1, <3>1
  <2> QED BY <2>1, <2>2
<1>5. best \in 1 .. Len(before) + 1 /\ free(best)
  BY <1>4
<1>6. Web!Chosen(before, name) = [name |-> name, suffix |-> Web!Candidate(slug, best)]
  BY DEF Web!Chosen
<1> HIDE DEF best
<1>7. Web!Candidate(slug, best) \in Seq(Words)
  BY <1>1, <1>5, CandidatesDiffer
<1>8. \A j \in 1 .. Len(before) : before[j].suffix # Web!Candidate(slug, best)
  BY <1>1, <1>5
<1> QED
  BY <1>6, <1>7, <1>8 DEF Engine

\* Hence no two engines have one suffix, whatever their names are.
LEMMA DedupeIsDistinct ==
    ASSUME NEW names \in Seq(Name)
    PROVE  Web!Dedupe(names) \in Distinct
<1> DEFINE Step(d, i) == IF i \in 1 .. Len(names) THEN Append(d, Web!Chosen(d, names[i])) ELSE d
           step1 == [p \in Distinct \X Nat |-> Step(p[1], p[2])]
           Runs(f) == f = [i \in 0 .. Len(names) |->
                         IF i = 0 THEN <<>> ELSE Append(f[i - 1], Web!Chosen(f[i - 1], names[i]))]
<1>1. ASSUME NEW d \in Distinct, NEW i \in Nat PROVE Step(d, i) \in Distinct
  <2>1. CASE i \in 1 .. Len(names)
    <3> DEFINE e == Web!Chosen(d, names[i])
    <3>1. d \in Seq(Engine) /\ names[i] \in Name /\ Len(d) \in Nat
      BY <2>1 DEF Distinct
    <3>2. e \in Engine /\ \A j \in 1 .. Len(d) : d[j].suffix # e.suffix
      BY <3>1, ChosenIsNew
    <3> HIDE DEF e
    <3>3. /\ Append(d, e) \in Seq(Engine) /\ Len(Append(d, e)) = Len(d) + 1
          /\ Append(d, e)[Len(d) + 1] = e
          /\ \A j \in 1 .. Len(d) : Append(d, e)[j] = d[j]
      BY <3>1, <3>2
    <3> DEFINE all == Append(d, e)
    <3> HIDE DEF all
    <3>4. ASSUME NEW j \in 1 .. Len(all), NEW k \in 1 .. Len(all), all[j].suffix = all[k].suffix
          PROVE  j = k
      <4>1. \A l \in 1 .. Len(all) : l \in 1 .. Len(d) \/ l = Len(d) + 1
        BY <3>1, <3>3 DEF all
      <4>2. CASE j \in 1 .. Len(d) /\ k \in 1 .. Len(d)
        BY <3>3, <3>4, <4>2 DEF all, Distinct
      <4>3. CASE j = Len(d) + 1 /\ k \in 1 .. Len(d)
        BY <3>2, <3>3, <3>4, <4>3 DEF all
      <4>4. CASE j \in 1 .. Len(d) /\ k = Len(d) + 1
        BY <3>2, <3>3, <3>4, <4>4 DEF all
      <4> QED BY <4>1, <4>2, <4>3, <4>4
    <3>5. all \in Distinct
      BY <3>3, <3>4 DEF Distinct, all
    <3> QED BY <2>1, <3>5 DEF e, all
  <2> QED BY <2>1
<1>2. step1 \in [Distinct \X Nat -> Distinct]
  BY <1>1
<1>3. <<>> \in Distinct /\ Len(names) \in Nat
  <2>1. <<>> \in Seq(Engine)
    OBVIOUS
  <2> QED BY <2>1 DEF Distinct
<1>4. \A d \in Distinct, i \in Nat : step1[<<d, i>>] = Step(d, i)
  OBVIOUS
<1> HIDE DEF step1
<1>5. PICK f \in [0 .. Len(names) -> Distinct] :
         f = [i \in 0 .. Len(names) |-> IF i = 0 THEN <<>> ELSE step1[<<f[i - 1], i>>]]
  <2> DEFINE start == <<>>
             last == Len(names)
  <2>1. start \in Distinct /\ last \in Nat
    BY <1>3
  <2> HIDE DEF start, last
  <2>2. \E f \in [0 .. last -> Distinct] : RunsBy(f, start, step1, last)
    BY <1>2, <2>1, Recursion
  <2> QED BY <2>2 DEF start, last, RunsBy
<1>6. ASSUME NEW i \in 0 .. Len(names), i # 0
      PROVE  f[i] = Append(f[i - 1], Web!Chosen(f[i - 1], names[i]))
  <2>1. i - 1 \in 0 .. Len(names) /\ i \in Nat /\ i \in 1 .. Len(names)
    BY <1>3, <1>6
  <2>2. f[i] = step1[<<f[i - 1], i>>] /\ f[i - 1] \in Distinct
    BY <1>5, <1>6, <2>1
  <2> QED BY <2>1, <2>2, <1>4
<1>7. f[0] = <<>>
  BY <1>3, <1>5
<1>8. Runs(f)
  BY <1>6, <1>7
<1> DEFINE pick == CHOOSE p : Runs(p)
<1>9. Runs(pick)
  BY <1>8
<1>10. Web!Dedupe(names) = pick[Len(names)]
  BY DEF Web!Dedupe
<1> HIDE DEF pick
<1>11. pick[0] \in Distinct
  BY <1>3, <1>9
<1>12. ASSUME NEW i \in 1 .. Len(names), pick[i - 1] \in Distinct PROVE pick[i] \in Distinct
  <2>1. i \in Nat /\ i \in 0 .. Len(names) /\ i # 0
    BY <1>3
  <2>2. pick[i] = Append(pick[i - 1], Web!Chosen(pick[i - 1], names[i]))
    BY <1>9, <2>1
  <2>3. pick[i] = Step(pick[i - 1], i)
    BY <2>2
  <2> QED BY <1>1, <1>12, <2>1, <2>3
<1> HIDE DEF Step
<1>13. pick[Len(names)] \in Distinct
  BY <1>3, <1>11, <1>12, StaysIn
<1> QED
  BY <1>10, <1>13

\* What a filter leaves are names.
LEMMA SoundNames ==
    ASSUME NEW names \in Seq(Name)
    PROVE  Web!Sound(names) \in Seq(Name)
<1> DEFINE Step(d, i) == IF i \in 1 .. Len(names)
                         THEN IF names[i] \in Unsound THEN d ELSE Append(d, names[i]) ELSE d
           step1 == [p \in Seq(Name) \X Nat |-> Step(p[1], p[2])]
           Runs(f) == f = [i \in 0 .. Len(names) |->
                         IF i = 0 THEN <<>>
                         ELSE IF names[i] \in Unsound THEN f[i - 1]
                              ELSE Append(f[i - 1], names[i])]
<1>1. ASSUME NEW d \in Seq(Name), NEW i \in Nat PROVE Step(d, i) \in Seq(Name)
  OBVIOUS
<1>2. step1 \in [Seq(Name) \X Nat -> Seq(Name)]
  BY <1>1
<1>3. <<>> \in Seq(Name) /\ Len(names) \in Nat
  <2>1. <<>> \in Seq(Name)
    OBVIOUS
  <2> QED BY <2>1
<1>4. \A d \in Seq(Name), i \in Nat : step1[<<d, i>>] = Step(d, i)
  OBVIOUS
<1> HIDE DEF step1
<1>5. PICK f \in [0 .. Len(names) -> Seq(Name)] :
         f = [i \in 0 .. Len(names) |-> IF i = 0 THEN <<>> ELSE step1[<<f[i - 1], i>>]]
  <2> DEFINE start == <<>>
             last == Len(names)
  <2>1. start \in Seq(Name) /\ last \in Nat
    BY <1>3
  <2> HIDE DEF start, last
  <2>2. \E f \in [0 .. last -> Seq(Name)] : RunsBy(f, start, step1, last)
    BY <1>2, <2>1, Recursion
  <2> QED BY <2>2 DEF start, last, RunsBy
<1>6. ASSUME NEW i \in 0 .. Len(names), i # 0
      PROVE  f[i] = IF names[i] \in Unsound THEN f[i - 1] ELSE Append(f[i - 1], names[i])
  <2>1. i - 1 \in 0 .. Len(names) /\ i \in Nat /\ i \in 1 .. Len(names)
    BY <1>3, <1>6
  <2>2. f[i] = step1[<<f[i - 1], i>>] /\ f[i - 1] \in Seq(Name)
    BY <1>5, <1>6, <2>1
  <2> QED BY <2>1, <2>2, <1>4
<1>7. f[0] = <<>>
  BY <1>3, <1>5
<1>8. Runs(f)
  BY <1>6, <1>7
<1> DEFINE kept == CHOOSE p : Runs(p)
<1>9. Runs(kept)
  BY <1>8
<1>10. Web!Sound(names) = kept[Len(names)]
  BY DEF Web!Sound
<1> HIDE DEF kept
<1>11. kept[0] \in Seq(Name)
  BY <1>3, <1>9
<1>12. ASSUME NEW i \in 1 .. Len(names), kept[i - 1] \in Seq(Name) PROVE kept[i] \in Seq(Name)
  <2>1. i \in Nat /\ i \in 0 .. Len(names) /\ i # 0
    BY <1>3
  <2>2. kept[i] = IF names[i] \in Unsound THEN kept[i - 1] ELSE Append(kept[i - 1], names[i])
    BY <1>9, <2>1
  <2>3. names[i] \in Name
    OBVIOUS
  <2> QED BY <1>12, <2>2, <2>3
<1>13. kept[Len(names)] \in Seq(Name)
  BY <1>3, <1>11, <1>12, StaysIn
<1> QED
  BY <1>10, <1>13

\* What is configured is a list of names, and no step leaves it.
WebIInv == configured \in Web!Config /\ env \in Env

\* The engines at work, wherever they come from.
LEMMA ActiveIsDistinct ==
    ASSUME WebIInv
    PROVE  Web!Active \in Distinct
<1>1. BuiltIn \in Seq(Name)
  BY ExtensionsAssumption
<1>2. \A c \in Web!Config \cup Env : Web!IsEngines(c) => c.list \in Seq(Name)
  <2>1. \A c \in Web!Config : c.kind = "array" => c.list \in Web!SeqOf(Name, NameLongest)
    BY DEF Web!Config, Web!Nothing
  <2>2. \A s \in Web!SeqOf(Name, NameLongest) : s \in Seq(Name)
    <3> SUFFICES ASSUME NEW s \in Web!SeqOf(Name, NameLongest) PROVE s \in Seq(Name)
      OBVIOUS
    <3>1. PICK n \in 0 .. NameLongest : s \in [1 .. n -> Name]
      BY DEF Web!SeqOf
    <3>2. n \in Nat
      OBVIOUS
    <3> QED BY <3>1, <3>2
  <2>3. \A c \in Env : c.list \in Seq(Name)
    BY ExtensionsAssumption
  <2> QED BY <2>1, <2>2, <2>3 DEF Web!IsEngines
<1> DEFINE config == IF configured # Web!Nothing THEN configured ELSE env
<1>3. config \in Web!Config \cup Env
  BY DEF WebIInv
<1> HIDE DEF config
<1>4. Web!Active = IF Web!IsEngines(config) THEN Web!FromJson(config) ELSE Web!Dedupe(BuiltIn)
  BY DEF Web!Active, config
<1>5. CASE Web!IsEngines(config)
  BY <1>2, <1>3, <1>4, <1>5, SoundNames, DedupeIsDistinct DEF Web!FromJson
<1>6. CASE ~Web!IsEngines(config)
  BY <1>1, <1>4, <1>6, DedupeIsDistinct
<1> QED
  BY <1>5, <1>6

\* Where no two engines have one suffix, a suffix finds its engine.
LEMMA DistinctAreFound ==
    ASSUME NEW engines \in Distinct, NEW i \in DOMAIN engines
    PROVE  Web!Named(engines, engines[i].suffix) = i
<1> DEFINE I == {j \in 1 .. Len(engines) : engines[j].suffix = engines[i].suffix}
<1>1. DOMAIN engines = 1 .. Len(engines) /\ Len(engines) \in Nat
  BY DEF Distinct
<1>2. I = {i}
  BY <1>1 DEF Distinct
<1>3. Web!Named(engines, engines[i].suffix) = IF I # {} THEN Web!Min(I) ELSE 0
  BY DEF Web!Named, Web!SelectInSeq
<1> HIDE DEF I
<1>4. Web!Min({i}) = i
  BY <1>1 DEF Web!Min
<1> QED
  BY <1>2, <1>3, <1>4

\* Whatever the user, the environment and the built-in table name, in whatever
\* number and order: an id finds the engine it was given to.
THEOREM IdsStayFound == ExtensionsSpec => []IdsFindTheirEngine
<1> DEFINE Now == part = "web" => WebIInv
<1>1. ExtensionsInit => Now
  BY DEF ExtensionsInit, WebStart, Web!Init, WebIInv, Web!Config
<1>2. ASSUME Now, [ExtensionsNext]_extensionsVars PROVE Now'
  <2>1. part' = part /\ (part = "web" => Web!Next \/ UNCHANGED webVars)
    BY <1>2 DEF ExtensionsNext, extensionsVars
  <2>2. ASSUME WebIInv, Web!Next \/ UNCHANGED webVars PROVE WebIInv'
    BY <2>2 DEF Web!Next, Web!Inject, Web!List, Web!Invoke, webVars, WebIInv
  <2> QED BY <2>1, <1>2, <2>2
<1>3. Now => IdsFindTheirEngine
  BY ActiveIsDistinct, DistinctAreFound DEF IdsFindTheirEngine, Web!IdsFindTheirEngine
<1> QED
  BY <1>1, <1>2, <1>3, PTL DEF ExtensionsSpec

-----------------------------------------------------------------------------
(* The list of the programs (AppCatalog).                                   *)

\* The strengthening of LaunchesWhatItShows: every entry that is listed shows
\* the title at its place in the list that is kept, and there is an entry only
\* once the list is kept.
AppsIInv ==
    /\ Apps!LaunchesWhatItShows
    /\ \A e \in appsListed :
         at = "kept" /\ e.at \in DOMAIN apps /\ apps[e.at].title = e.title

\* Every step keeps the invariant of the programs: what is kept stays.
LEMMA NextAppsIInv ==
    ASSUME AppsIInv, [Apps!Next]_appsVars
    PROVE  AppsIInv'
<1>1. CASE at' # "kept" \/ at # "kept"
  <2>1. appsListed = {} \/ at = "kept"
    BY DEF AppsIInv
  <2>2. CASE at # "kept" /\ UNCHANGED <<appsListed, appsRan>>
    BY <2>1, <2>2 DEF AppsIInv, Apps!LaunchesWhatItShows
  <2>3. at = "kept" => at' = "kept"
    BY DEF Apps!Next, Apps!Enumerate, Apps!FolderItem, Apps!FolderDone, Apps!LinkItem,
           Apps!UrlItem, Apps!Keep, Apps!Panic, Apps!Inject, Apps!TopLevel, Apps!Invoke,
           appsVars
  <2>4. at # "kept" => UNCHANGED <<appsListed, appsRan>>
    BY <2>1 DEF Apps!Next, Apps!Enumerate, Apps!FolderItem, Apps!FolderDone, Apps!LinkItem,
           Apps!UrlItem, Apps!Keep, Apps!Panic, Apps!Inject, Apps!TopLevel, Apps!Invoke,
           appsVars
  <2> QED BY <1>1, <2>2, <2>3, <2>4
<1>2. CASE at = "kept" /\ at' = "kept"
  <2>1. apps' = apps
    BY <1>2 DEF Apps!Next, Apps!Enumerate, Apps!FolderItem, Apps!FolderDone, Apps!LinkItem,
           Apps!UrlItem, Apps!Keep, Apps!Panic, Apps!Inject, Apps!TopLevel, Apps!Invoke,
           appsVars
  <2>2. CASE UNCHANGED <<appsListed, appsRan>>
    BY <1>2, <2>1, <2>2 DEF AppsIInv, Apps!LaunchesWhatItShows
  <2>3. CASE Apps!TopLevel
    BY <1>2, <2>1, <2>3 DEF Apps!TopLevel, Apps!Numbered, AppsIInv, Apps!LaunchesWhatItShows
  <2>4. ASSUME NEW e \in appsListed, Apps!Invoke(e)
        PROVE  AppsIInv'
    <3>1. appsRan'.shown = e.title /\ appsRan'.launched = apps[e.at].title
      BY <2>4 DEF Apps!Invoke, AppsIInv
    <3> QED BY <1>2, <2>1, <2>4, <3>1 DEF Apps!Invoke, AppsIInv, Apps!LaunchesWhatItShows
  <2>5. \/ UNCHANGED <<appsListed, appsRan>>
        \/ Apps!TopLevel
        \/ \E e \in appsListed : Apps!Invoke(e)
    BY DEF Apps!Next, Apps!Enumerate, Apps!FolderItem, Apps!FolderDone, Apps!LinkItem,
           Apps!UrlItem, Apps!Keep, Apps!Panic, Apps!Inject, appsVars
  <2> QED BY <2>2, <2>3, <2>4, <2>5
<1> QED
  BY <1>1, <1>2

\* An entry launches the program whose title it shows, however often the
\* block list changes between the listing and the choice.
THEOREM LaunchesStayShown == ExtensionsSpec => []LaunchesWhatItShows
<1> DEFINE Now == part = "apps" => AppsIInv
<1>1. ExtensionsInit => Now
  BY DEF ExtensionsInit, AppsStart, Apps!Init, AppsIInv, Apps!LaunchesWhatItShows
<1>2. ASSUME Now, [ExtensionsNext]_extensionsVars PROVE Now'
  <2>1. part' = part /\ (part = "apps" => [Apps!Next]_appsVars)
    BY <1>2 DEF ExtensionsNext, extensionsVars
  <2> QED BY <2>1, <1>2, NextAppsIInv
<1>3. Now => LaunchesWhatItShows
  BY DEF LaunchesWhatItShows, AppsIInv
<1> QED
  BY <1>1, <1>2, <1>3, PTL DEF ExtensionsSpec

-----------------------------------------------------------------------------
(* The way to the indexer (SearchLink), and the icons (SearchSidecar).      *)

\* A client of an indexer that is gone has at most as many searches behind it
\* as failures were counted, and it is given up before they are RebuildAfter.
IpcIInv ==
    /\ fails \in 0 .. RebuildAfter - 1 /\ lame \in 0 .. RebuildAfter
    /\ client = "gone" => lame <= fails

\* There is no client at first.
LEMMA InitIpcIInv == Ipc!Init => IpcIInv
<1>1. RebuildAfter \in Nat /\ RebuildAfter >= 1
  BY ExtensionsAssumption
<1>2. 0 \in 0 .. RebuildAfter - 1 /\ 0 \in 0 .. RebuildAfter
  BY <1>1
<1> QED
  BY <1>2 DEF Ipc!Init, IpcIInv

\* One more failure, of a client that is kept or not.
LEMMA IpcFailsKeepsIpcIInv ==
    ASSUME IpcIInv, NEW kept, Ipc!IpcFails(kept),
           kept = "gone" => client = "gone",
           lame' \in 0 .. RebuildAfter, kept = "gone" => lame' <= lame + 1
    PROVE  IpcIInv'
<1>1. CASE fails + 1 = RebuildAfter
  BY <1>1, ExtensionsAssumption DEF IpcIInv, Ipc!IpcFails
<1>2. CASE fails + 1 # RebuildAfter
  BY <1>2, ExtensionsAssumption DEF IpcIInv, Ipc!IpcFails
<1> QED
  BY <1>1, <1>2

\* A search, through the client and then the tool.
LEMMA SearchKeepsIpcIInv ==
    ASSUME IpcIInv, NEW ok \in BOOLEAN, Ipc!Search(ok)
    PROVE  IpcIInv'
<1>1. PICK ipc \in BOOLEAN :
          /\ Ipc!ByIpc(ipc)
          /\ lame' = IF ipc \/ ~everything THEN 0
                     ELSE IF client = "gone" THEN lame + 1 ELSE lame
  BY DEF Ipc!Search
<1>2. lame \in Nat /\ fails \in Nat /\ RebuildAfter \in Nat
  BY ExtensionsAssumption DEF IpcIInv
<1>3. lame' \in 0 .. RebuildAfter /\ lame' <= lame + 1
  BY <1>1, <1>2 DEF IpcIInv
<1>4. CASE client = "gone"
  BY <1>1, <1>3, <1>4, IpcFailsKeepsIpcIInv DEF Ipc!ByIpc
<1>5. CASE client # "gone" /\ ~everything /\ client = "none"
  BY <1>1, <1>3, <1>5 DEF Ipc!ByIpc, IpcIInv
<1>6. CASE client # "gone" /\ ~(~everything /\ client = "none")
  <2>1. (client' = "live" /\ fails' = 0) \/ Ipc!IpcFails("live")
    BY <1>1, <1>6 DEF Ipc!ByIpc
  <2> QED
    BY <2>1, <1>3, <1>2, IpcFailsKeepsIpcIInv, ExtensionsAssumption DEF IpcIInv
<1> QED
  BY <1>4, <1>5, <1>6

\* Every step keeps the invariant of the client.
LEMMA NextIpcIInv ==
    ASSUME IpcIInv, [Ipc!Next]_ipcVars
    PROVE  IpcIInv'
<1>1. CASE Ipc!GetItems
  BY <1>1, SearchKeepsIpcIInv DEF Ipc!GetItems, IpcIInv
<1>2. CASE Ipc!AvailExpires \/ UNCHANGED ipcVars
  BY <1>2 DEF Ipc!AvailExpires, ipcVars, IpcIInv
<1>3. CASE Ipc!EverythingStarts \/ Ipc!EverythingStops
  BY <1>3, ExtensionsAssumption DEF Ipc!EverythingStarts, Ipc!EverythingStops, IpcIInv
<1> QED
  BY <1>1, <1>2, <1>3 DEF Ipc!Next

\* Each key that is on its way is waiting or with a thread, never both.
LEMMA NextNoIconStuck ==
    ASSUME Sidecar!NoIconStuck, [Sidecar!Next]_sidecarVars
    PROVE  Sidecar!NoIconStuck'
<1>1. CASE Sidecar!GetItems
  <2>1. CASE UNCHANGED <<waiting, busy, inflight>>
    BY <2>1 DEF Sidecar!NoIconStuck
  <2>2. CASE \E files \in Sidecar!Found : Sidecar!Results(files)
    <3>1. PICK keys : Sidecar!LookUpIcons(keys)
      BY <2>2 DEF Sidecar!Results
    <3>2. PICK more : Sidecar!Enqueue(more) /\ busy' = busy
      BY <3>1 DEF Sidecar!LookUpIcons
    <3> QED BY <3>2 DEF Sidecar!Enqueue, Sidecar!NoIconStuck
  <2> QED BY <1>1, <2>1, <2>2 DEF Sidecar!GetItems
<1>2. CASE \/ Sidecar!Land \/ Sidecar!WindowEnds \/ Sidecar!Restart
           \/ UNCHANGED sidecarVars
  BY <1>2 DEF Sidecar!Land, Sidecar!WindowEnds, Sidecar!Restart, sidecarVars,
              Sidecar!iconVars, Sidecar!NoIconStuck
<1>3. ASSUME NEW k \in Sidecar!Key, Sidecar!TakeJob(k) \/ Sidecar!JobDone(k)
      PROVE  Sidecar!NoIconStuck'
  BY <1>3 DEF Sidecar!TakeJob, Sidecar!JobDone, Sidecar!NoIconStuck
<1> QED
  BY <1>1, <1>2, <1>3 DEF Sidecar!Next

\* The client of an indexer that was restarted is given up after RebuildAfter
\* searches, and every icon on its way will be fetched by a thread, whatever
\* the searches and the threads do in between.
THEOREM SearchStillRecovers == ExtensionsSpec => []SearchRecovers
<1> DEFINE Now == /\ part = "ipc" => IpcIInv
                  /\ part = "sidecar" => Sidecar!NoIconStuck
<1>1. ExtensionsInit => Now
  BY InitIpcIInv DEF ExtensionsInit, IpcStart, SidecarStart, Sidecar!Init, Sidecar!NoIconStuck
<1>2. ASSUME Now, [ExtensionsNext]_extensionsVars PROVE Now'
  <2>1. /\ part' = part
        /\ part = "ipc" => [Ipc!Next]_ipcVars
        /\ part = "sidecar" => [Sidecar!Next]_sidecarVars
    BY <1>2 DEF ExtensionsNext, extensionsVars
  <2> QED BY <2>1, <1>2, NextIpcIInv, NextNoIconStuck
<1>3. IpcIInv => Ipc!ClientIsRebuilt
  BY ExtensionsAssumption DEF IpcIInv, Ipc!ClientIsRebuilt
<1>4. Now => SearchRecovers
  BY <1>3 DEF SearchRecovers
<1> QED
  BY <1>1, <1>2, <1>4, PTL DEF ExtensionsSpec

-----------------------------------------------------------------------------
(* The numbers of the files found (SearchSidecar).                          *)

Indexes == UNION {[S -> File] : S \in SUBSET Nat}
Numbers == [next : Nat, index : Indexes]

\* After n of the files have their numbers: the new ones are all there, and of
\* the old ones those that are left are as they were.
Given(r, before, files, n) ==
    /\ r \in Numbers /\ r.next = before.next + n
    /\ \A i \in DOMAIN r.index :
         /\ i < before.next + n
         /\ i < before.next => i \in DOMAIN before.index /\ r.index[i] = before.index[i]
         /\ i >= before.next => r.index[i] = files[i - before.next + 1]
    /\ \A k \in 1 .. n : before.next + k - 1 \in DOMAIN r.index

\* What one registration does to the numbers; the window holds at least Limit.
LEMMA RegisterIsNumbers ==
    ASSUME NEW r \in Numbers, NEW f \in File
    PROVE  /\ Sidecar!RegisterPath(r, f) \in Numbers
           /\ Sidecar!RegisterPath(r, f).next = r.next + 1
           /\ \A i \in DOMAIN Sidecar!RegisterPath(r, f).index :
                \/ i = r.next /\ Sidecar!RegisterPath(r, f).index[i] = f
                \/ /\ i # r.next /\ i \in DOMAIN r.index
                   /\ Sidecar!RegisterPath(r, f).index[i] = r.index[i]
           /\ r.next \in DOMAIN Sidecar!RegisterPath(r, f).index
           /\ \A i \in DOMAIN r.index :
                i + Cap - 1 >= r.next => i \in DOMAIN Sidecar!RegisterPath(r, f).index
<1> DEFINE room == IF Sidecar!Cardinality(DOMAIN r.index) < Cap THEN DOMAIN r.index
                   ELSE {i \in DOMAIN r.index : i + Cap - 1 >= r.next}
           more == [i \in room \cup {r.next} |-> IF i = r.next THEN f ELSE r.index[i]]
<1>1. Sidecar!RegisterPath(r, f) = [next |-> r.next + 1, index |-> more]
  BY DEF Sidecar!RegisterPath
<1>2. r.next \in Nat /\ r.index \in Indexes
  BY DEF Numbers
<1>3. PICK S \in SUBSET Nat : r.index \in [S -> File]
  BY <1>2 DEF Indexes
<1>4. /\ room \subseteq DOMAIN r.index
      /\ \A i \in DOMAIN r.index : i + Cap - 1 >= r.next => i \in room
  OBVIOUS
<1> HIDE DEF room
<1>5. more \in [room \cup {r.next} -> File] /\ room \cup {r.next} \in SUBSET Nat
  BY <1>2, <1>3, <1>4
<1>6. DOMAIN more = room \cup {r.next}
  OBVIOUS
<1>7. \A i \in DOMAIN more : more[i] = IF i = r.next THEN f ELSE r.index[i]
  OBVIOUS
<1> HIDE DEF more
<1>8. more \in Indexes
  BY <1>5 DEF Indexes
<1>9. [next |-> r.next + 1, index |-> more] \in Numbers
  BY <1>2, <1>8 DEF Numbers
<1> QED
  BY <1>1, <1>4, <1>6, <1>7, <1>9

\* One more of the files.
LEMMA RegisterGives ==
    ASSUME NEW r, NEW before \in Numbers, NEW files \in Seq(File), NEW n \in Nat,
           n + 1 \in 1 .. Len(files), Len(files) <= Limit, Given(r, before, files, n)
    PROVE  Given(Sidecar!RegisterPath(r, files[n + 1]), before, files, n + 1)
<1> DEFINE v == Sidecar!RegisterPath(r, files[n + 1])
<1>1. r \in Numbers /\ files[n + 1] \in File
  BY DEF Given
<1>2. /\ r.next = before.next + n /\ before.next \in Nat
      /\ Cap \in Nat /\ Limit \in Nat /\ Limit <= Cap /\ Len(files) \in Nat
  BY ExtensionsAssumption DEF Given, Numbers
<1>3. /\ v \in Numbers /\ v.next = r.next + 1
      /\ \A i \in DOMAIN v.index :
           \/ i = r.next /\ v.index[i] = files[n + 1]
           \/ i # r.next /\ i \in DOMAIN r.index /\ v.index[i] = r.index[i]
      /\ r.next \in DOMAIN v.index
      /\ \A i \in DOMAIN r.index : i + Cap - 1 >= r.next => i \in DOMAIN v.index
  BY <1>1, RegisterIsNumbers
<1>4. \A i \in DOMAIN r.index : i \in Nat
  <2>1. PICK S \in SUBSET Nat : r.index \in [S -> File]
    BY <1>1 DEF Numbers, Indexes
  <2> QED BY <2>1
<1> HIDE DEF v
<1>5. ASSUME NEW i \in DOMAIN v.index
      PROVE  /\ i < before.next + (n + 1)
             /\ i < before.next => i \in DOMAIN before.index /\ v.index[i] = before.index[i]
             /\ i >= before.next => v.index[i] = files[i - before.next + 1]
  <2>1. CASE i = r.next
    <3>1. v.index[i] = files[n + 1] /\ i = before.next + n
      BY <1>2, <1>3, <2>1
    <3>2. i - before.next + 1 = n + 1
      BY <1>2, <3>1
    <3> QED BY <1>2, <3>1, <3>2
  <2>2. CASE i # r.next
    <3>1. i \in DOMAIN r.index /\ v.index[i] = r.index[i] /\ i \in Nat
      BY <1>3, <1>4, <2>2
    <3> QED BY <1>2, <3>1 DEF Given
  <2> QED BY <2>1, <2>2
<1>6. ASSUME NEW k \in 1 .. n + 1
      PROVE  before.next + k - 1 \in DOMAIN v.index
  <2>1. CASE k = n + 1
    BY <1>2, <1>3, <2>1
  <2>2. CASE k \in 1 .. n
    <3>1. before.next + k - 1 \in DOMAIN r.index
      BY <2>2 DEF Given
    <3>2. (before.next + k - 1) + Cap - 1 >= r.next
      BY <1>2, <2>2
    <3> QED BY <1>3, <3>1, <3>2
  <2> QED BY <2>1, <2>2
<1>7. v.next = before.next + (n + 1)
  BY <1>2, <1>3
<1> QED
  BY <1>3, <1>5, <1>6, <1>7 DEF Given, v

\* All of the files, one registration after the other.
LEMMA RegisteredRuns ==
    ASSUME NEW files \in Seq(File), next \in Nat, sidecarIndex \in Indexes
    PROVE  \E all : /\ all[0] = [next |-> next, index |-> sidecarIndex]
                    /\ \A n \in 1 .. Len(files) :
                         all[n] = Sidecar!RegisterPath(all[n - 1], files[n])
                    /\ Sidecar!Registered(files) = all[Len(files)]
<1> DEFINE before == [next |-> next, index |-> sidecarIndex]
           Step(r, n) == IF n \in 1 .. Len(files) THEN Sidecar!RegisterPath(r, files[n]) ELSE r
           step1 == [p \in Numbers \X Nat |-> Step(p[1], p[2])]
           last == Len(files)
           Runs(f) == f = [n \in 0 .. Len(files) |->
                         IF n = 0 THEN [next |-> next, index |-> sidecarIndex]
                         ELSE Sidecar!RegisterPath(f[n - 1], files[n])]
<1>1. ASSUME NEW r \in Numbers, NEW n \in Nat PROVE Step(r, n) \in Numbers
  BY RegisterIsNumbers
<1>2. step1 \in [Numbers \X Nat -> Numbers]
  BY <1>1
<1>3. last \in Nat /\ before \in Numbers
  BY DEF Numbers
<1>4. \A r \in Numbers, n \in Nat : step1[<<r, n>>] = Step(r, n)
  OBVIOUS
<1> HIDE DEF step1
<1>5. PICK f \in [0 .. last -> Numbers] : RunsBy(f, before, step1, last)
  <2> HIDE DEF before, last
  <2> QED BY <1>2, <1>3, Recursion
<1>6. ASSUME NEW n \in 0 .. Len(files), n # 0
      PROVE  f[n] = Sidecar!RegisterPath(f[n - 1], files[n])
  <2>1. n - 1 \in 0 .. Len(files) /\ n \in Nat /\ n \in 1 .. Len(files)
    BY <1>3, <1>6
  <2>2. f[n] = step1[<<f[n - 1], n>>] /\ f[n - 1] \in Numbers
    BY <1>5, <1>6, <2>1 DEF RunsBy
  <2> QED BY <2>1, <2>2, <1>4
<1>7. f[0] = before
  BY <1>3, <1>5 DEF RunsBy
<1>8. Runs(f)
  <2>1. f = [n \in 0 .. last |-> IF n = 0 THEN before ELSE step1[<<f[n - 1], n>>]]
    BY <1>5 DEF RunsBy
  <2> QED BY <2>1, <1>6, <1>7
<1> DEFINE all == CHOOSE f0 : Runs(f0)
<1>9. Runs(all)
  BY <1>8
<1>10. Sidecar!Registered(files) = all[Len(files)]
  BY DEF Sidecar!Registered
<1> HIDE DEF all
<1>11. all[0] = before
  BY <1>3, <1>9
<1>12. \A n \in 1 .. Len(files) : all[n] = Sidecar!RegisterPath(all[n - 1], files[n])
  BY <1>3, <1>9
<1> HIDE DEF Runs
<1> QED
  BY <1>10, <1>11, <1>12

\* There are no more of the files than the window holds.
LEMMA RegisteredGives ==
    ASSUME NEW files \in Seq(File), Len(files) <= Limit,
           next \in Nat, sidecarIndex \in Indexes, \A i \in DOMAIN sidecarIndex : i < next
    PROVE  Given(Sidecar!Registered(files), [next |-> next, index |-> sidecarIndex],
                 files, Len(files))
<1> DEFINE before == [next |-> next, index |-> sidecarIndex]
           last == Len(files)
<1>1. PICK all : /\ all[0] = [next |-> next, index |-> sidecarIndex]
                 /\ \A n \in 1 .. Len(files) :
                      all[n] = Sidecar!RegisterPath(all[n - 1], files[n])
                 /\ Sidecar!Registered(files) = all[Len(files)]
  BY RegisteredRuns
<1>2. last \in Nat /\ before \in Numbers /\ all[0] = before
  BY <1>1 DEF Numbers
<1>3. Given(before, before, files, 0)
  <2>1. before.next = next /\ before.index = sidecarIndex
    OBVIOUS
  <2>2. \A i \in DOMAIN sidecarIndex : i \in Nat
    BY DEF Indexes
  <2> HIDE DEF before
  <2> QED BY <1>2, <2>1, <2>2 DEF Given
<1> HIDE DEF before
<1> DEFINE T == {n \in Nat : n \in 0 .. last => Given(all[n], before, files, n)}
<1>4. 0 \in T
  BY <1>2, <1>3
<1>5. ASSUME NEW n \in Nat, n \in T PROVE n + 1 \in T
  <2> SUFFICES ASSUME n + 1 \in 0 .. last PROVE Given(all[n + 1], before, files, n + 1)
    OBVIOUS
  <2>1. n \in 0 .. last /\ n + 1 \in 1 .. Len(files) /\ n + 1 # 0 /\ (n + 1) - 1 = n
    BY <1>2
  <2>2. Given(all[n], before, files, n)
    BY <1>5, <2>1
  <2>3. all[n + 1] = Sidecar!RegisterPath(all[n], files[n + 1])
    BY <1>1, <2>1
  <2>4. Given(Sidecar!RegisterPath(all[n], files[n + 1]), before, files, n + 1)
    BY <1>2, <2>1, <2>2, RegisterGives
  <2> QED BY <2>3, <2>4
<1> HIDE DEF T
<1>6. last \in T /\ last \in 0 .. last
  BY <1>2, <1>4, <1>5, NatInd
<1>7. Given(all[last], before, files, last)
  BY <1>6 DEF T
<1> QED
  BY <1>1, <1>7 DEF before

\* An item that is known, or was: its number is given to no other file.
Mine(item, numbers, index) ==
    /\ item.id \in Nat /\ item.id < numbers
    /\ item.id \in DOMAIN index => index[item.id] = item.file

\* The strengthening of ItemsKeepTheirFile: numbers are given out upwards, so
\* that an item whose number was forgotten never meets another file, and the
\* answer on its way has all of its numbers in the index.
SidecarIInv ==
    /\ next \in Nat \ {0} /\ sidecarIndex \in Indexes
    /\ \A i \in DOMAIN sidecarIndex : i < next
    /\ \/ sidecarAnswer = Sidecar!NoAnswer
       \/ /\ sidecarAnswer \in Seq(Sidecar!Item)
          /\ \A i \in 1 .. Len(sidecarAnswer) :
               /\ sidecarAnswer[i].id \in DOMAIN sidecarIndex
               /\ Mine(sidecarAnswer[i], next, sidecarIndex)
    /\ sidecarShown \in Seq(Sidecar!Item)
    /\ \A i \in 1 .. Len(sidecarShown) :
         sidecarShown[i].alive => Mine(sidecarShown[i], next, sidecarIndex)

\* An index may be empty.
LEMMA NoneIsIndex == <<>> \in Indexes /\ DOMAIN <<>> = {}
<1>1. <<>> \in [{} -> File] /\ DOMAIN <<>> = {}
  OBVIOUS
<1>2. {} \in SUBSET Nat
  OBVIOUS
<1> QED
  BY <1>1, <1>2 DEF Indexes

\* No number is given out at first.
LEMMA InitSidecarIInv == Sidecar!Init => SidecarIInv
<1> SUFFICES ASSUME Sidecar!Init PROVE SidecarIInv
  OBVIOUS
<1>1. /\ next = 1 /\ sidecarIndex = <<>> /\ sidecarAnswer = Sidecar!NoAnswer
      /\ sidecarShown = <<>>
  BY DEF Sidecar!Init
<1>2. <<>> \in Seq(Sidecar!Item) /\ Len(<<>>) = 0
  OBVIOUS
<1> HIDE DEF Sidecar!Item
<1> QED
  BY <1>1, <1>2, NoneIsIndex DEF SidecarIInv

\* The results of a search.
LEMMA ResultsKeepSidecarIInv ==
    ASSUME SidecarIInv, NEW files \in Sidecar!Found, Sidecar!Results(files),
           UNCHANGED sidecarShown
    PROVE  SidecarIInv'
<1> DEFINE r == Sidecar!Registered(files)
           before == [next |-> next, index |-> sidecarIndex]
           icon(i) == IF cache'[Sidecar!KeyOf(files[i])] = "png" THEN "icon" ELSE "glyph"
           items == [i \in 1 .. Len(files) |->
               [id |-> next + i - 1, file |-> files[i], alive |-> TRUE, icon |-> icon(i)]]
<1>1. files \in Seq(File) /\ Len(files) <= Limit /\ Len(files) \in Nat
  <2>1. PICK n \in 0 .. Limit : files \in [1 .. n -> File]
    BY DEF Sidecar!Found
  <2>2. n \in Nat /\ n <= Limit
    BY ExtensionsAssumption
  <2> QED BY <2>1, <2>2
<1>2. /\ r.next <= MaxId + 1
      /\ next' = r.next /\ sidecarIndex' = r.index /\ sidecarAnswer' = items
  BY DEF Sidecar!Results
<1>3. Given(r, before, files, Len(files))
  BY <1>1, RegisteredGives DEF SidecarIInv
<1>4. before.next = next /\ before.index = sidecarIndex /\ next \in Nat \ {0}
  BY DEF SidecarIInv
<1> HIDE DEF r, before
<1>5. /\ next' \in Nat \ {0} /\ sidecarIndex' \in Indexes /\ next' = next + Len(files)
      /\ \A i \in DOMAIN sidecarIndex' :
           /\ i < next'
           /\ i < next => i \in DOMAIN sidecarIndex /\ sidecarIndex'[i] = sidecarIndex[i]
           /\ i >= next => sidecarIndex'[i] = files[i - next + 1]
      /\ \A k \in 1 .. Len(files) : next + k - 1 \in DOMAIN sidecarIndex'
  BY <1>1, <1>2, <1>3, <1>4 DEF Given, Numbers
<1>6. \A i \in DOMAIN sidecarIndex : i \in Nat
  BY DEF SidecarIInv, Indexes
<1>7. items \in Seq(Sidecar!Item) /\ Len(items) = Len(files)
  <2>1. ASSUME NEW i \in 1 .. Len(files)
        PROVE  [id |-> next + i - 1, file |-> files[i], alive |-> TRUE, icon |-> icon(i)]
                 \in Sidecar!Item
    <3>1. next + i - 1 \in 1 .. MaxId
      BY <1>1, <1>2, <1>4, <1>5, ExtensionsAssumption
    <3> QED BY <3>1, <1>1 DEF Sidecar!Item
  <2> QED BY <2>1, <1>1
<1>8. ASSUME NEW i \in 1 .. Len(items)
      PROVE  items[i].id \in DOMAIN sidecarIndex' /\ Mine(items[i], next', sidecarIndex')
  <2>1. /\ i \in 1 .. Len(files) /\ i \in Nat
        /\ items[i].id = next + i - 1 /\ items[i].file = files[i]
    BY <1>1, <1>7
  <2> HIDE DEF items
  <2>2. /\ items[i].id \in DOMAIN sidecarIndex' /\ items[i].id \in Nat
        /\ items[i].id < next' /\ items[i].id >= next /\ items[i].id - next + 1 = i
    BY <1>1, <1>4, <1>5, <2>1
  <2> QED BY <1>5, <2>1, <2>2 DEF Mine
<1>9. ASSUME NEW i \in 1 .. Len(sidecarShown), sidecarShown[i].alive
      PROVE  Mine(sidecarShown[i], next', sidecarIndex')
  <2>1. Mine(sidecarShown[i], next, sidecarIndex)
    BY <1>9 DEF SidecarIInv
  <2> QED BY <1>1, <1>4, <1>5, <2>1 DEF Mine
<1> HIDE DEF items
<1> QED
  BY <1>2, <1>5, <1>7, <1>8, <1>9 DEF SidecarIInv

\* Every step keeps the invariant of the numbers.
LEMMA NextSidecarIInv ==
    ASSUME SidecarIInv, [Sidecar!Next]_sidecarVars
    PROVE  SidecarIInv'
<1>1. CASE Sidecar!GetItems
  <2>1. CASE sidecarAnswer' = <<>> /\ UNCHANGED <<next, sidecarIndex, sidecarShown>>
    <3>1. <<>> \in Seq(Sidecar!Item) /\ Len(<<>>) = 0
      OBVIOUS
    <3> QED BY <2>1, <3>1 DEF SidecarIInv
  <2>2. CASE UNCHANGED sidecarShown /\ \E files \in Sidecar!Found : Sidecar!Results(files)
    BY <2>2, ResultsKeepSidecarIInv
  <2> QED BY <1>1, <2>1, <2>2 DEF Sidecar!GetItems, Sidecar!indexVars
<1>2. CASE Sidecar!Land
  BY <1>2 DEF Sidecar!Land, Sidecar!indexVars, SidecarIInv
<1>3. CASE \/ Sidecar!WindowEnds \/ UNCHANGED sidecarVars
           \/ \E k \in Sidecar!Key : Sidecar!TakeJob(k) \/ Sidecar!JobDone(k)
  <2>1. UNCHANGED <<next, sidecarIndex, sidecarAnswer, sidecarShown>>
    BY <1>3 DEF Sidecar!WindowEnds, sidecarVars, Sidecar!TakeJob, Sidecar!JobDone,
                Sidecar!indexVars, Sidecar!pageVars
  <2> QED BY <2>1 DEF SidecarIInv
<1>4. CASE Sidecar!Restart
  <2> DEFINE dead == [i \in 1 .. Len(sidecarShown) |->
                        [sidecarShown[i] EXCEPT !.alive = FALSE]]
  <2>1. /\ next' = 1 /\ sidecarIndex' = <<>> /\ sidecarAnswer' = Sidecar!NoAnswer
        /\ sidecarShown' = dead
    BY <1>4 DEF Sidecar!Restart
  <2>2. sidecarShown \in Seq(Sidecar!Item) /\ Len(sidecarShown) \in Nat
    BY DEF SidecarIInv
  <2>3. ASSUME NEW i \in 1 .. Len(sidecarShown)
        PROVE  /\ [sidecarShown[i] EXCEPT !.alive = FALSE] \in Sidecar!Item
               /\ [sidecarShown[i] EXCEPT !.alive = FALSE].alive = FALSE
    <3>1. sidecarShown[i] \in Sidecar!Item
      BY <2>2
    <3> QED BY <3>1 DEF Sidecar!Item
  <2>4. /\ dead \in Seq(Sidecar!Item) /\ Len(dead) = Len(sidecarShown)
    BY <2>2, <2>3
  <2>5. \A i \in 1 .. Len(dead) : dead[i].alive = FALSE
    BY <2>3, <2>4
  <2> HIDE DEF dead
  <2> QED BY <2>1, <2>4, <2>5, NoneIsIndex DEF SidecarIInv
<1> QED
  BY <1>1, <1>2, <1>3, <1>4 DEF Sidecar!Next

\* An item that is known reaches the file it was made for; the host, which is
\* given a URL, finds that file again unless its name is one of the others.
LEMMA MineIsReached ==
    ASSUME NEW item, item.id \in DOMAIN sidecarIndex => sidecarIndex[item.id] = item.file
    PROVE  /\ item.id \in DOMAIN sidecarIndex => Sidecar!Reaches(item, "copy") = item.file
           /\ \A verb \in {"copy", "reveal"} :
                Sidecar!Reaches(item, verb) \in {item.file, "stale"}
           /\ \/ Sidecar!Reaches(item, "open") \in {item.file, "stale"}
              \/ /\ item.file \in Escaped
                 /\ item.file \in Unc \/ \E h \in File : <<item.file, h>> \in Twin
<1>1. \A verb \in {"copy", "reveal"} : Sidecar!Reaches(item, verb) \in {item.file, "stale"}
  BY DEF Sidecar!Reaches, Sidecar!PathAction
<1>2. item.id \in DOMAIN sidecarIndex => Sidecar!Reaches(item, "copy") = item.file
  BY DEF Sidecar!Reaches, Sidecar!PathAction
<1>3. Sidecar!Reaches(item, "open") = IF item.id \in DOMAIN sidecarIndex
                                      THEN Sidecar!Opens(item.file) ELSE "stale"
  BY DEF Sidecar!Reaches
<1>4. CASE item.file \notin Escaped
  <2>1. Sidecar!Bearing(item.file) = {item.file}
    BY <1>4 DEF Sidecar!Bearing
  <2>2. Sidecar!Opens(item.file) = item.file
    BY <2>1 DEF Sidecar!Opens
  <2> QED BY <1>1, <1>2, <1>3, <2>2
<1>5. CASE item.file \in Escaped /\ item.file \notin Unc /\ Sidecar!Bearing(item.file) = {}
  <2>1. Sidecar!Opens(item.file) = item.file
    BY <1>5 DEF Sidecar!Opens
  <2> QED BY <1>1, <1>2, <1>3, <2>1
<1>6. CASE item.file \in Escaped /\ Sidecar!Bearing(item.file) # {}
  BY <1>1, <1>2, <1>6 DEF Sidecar!Bearing
<1> QED
  BY <1>1, <1>2, <1>4, <1>5, <1>6

\* However many files are found and forgotten, and however often the process
\* is started again: an item reaches the file it shows or none.
THEOREM ItemsStayTheirFile == ExtensionsSpec => []ItemsKeepTheirFile
<1> DEFINE Now == part = "sidecar" => SidecarIInv
<1>1. ExtensionsInit => Now
  BY InitSidecarIInv DEF ExtensionsInit, SidecarStart
<1>2. ASSUME Now, [ExtensionsNext]_extensionsVars PROVE Now'
  <2>1. part' = part /\ (part = "sidecar" => [Sidecar!Next]_sidecarVars)
    BY <1>2 DEF ExtensionsNext, extensionsVars
  <2> QED BY <2>1, <1>2, NextSidecarIInv
<1>3. ASSUME SidecarIInv PROVE Sidecar!ItemsKeepTheirFile
  <2>1. ASSUME sidecarAnswer # Sidecar!NoAnswer, NEW i \in 1 .. Len(sidecarAnswer)
        PROVE  Sidecar!Reaches(sidecarAnswer[i], "copy") = sidecarAnswer[i].file
    <3>1. /\ sidecarAnswer[i].id \in DOMAIN sidecarIndex
          /\ sidecarIndex[sidecarAnswer[i].id] = sidecarAnswer[i].file
      BY <1>3, <2>1 DEF SidecarIInv, Mine
    <3> QED BY <3>1, MineIsReached
  <2>2. ASSUME NEW i \in 1 .. Len(sidecarShown), sidecarShown[i].alive
        PROVE  sidecarShown[i].id \in DOMAIN sidecarIndex =>
                 sidecarIndex[sidecarShown[i].id] = sidecarShown[i].file
    BY <1>3, <2>2 DEF SidecarIInv, Mine
  <2> QED BY <2>1, <2>2, MineIsReached DEF Sidecar!ItemsKeepTheirFile
<1>4. Now => ItemsKeepTheirFile
  BY <1>3 DEF ItemsKeepTheirFile
<1> QED
  BY <1>1, <1>2, <1>4, PTL DEF ExtensionsSpec

-----------------------------------------------------------------------------
(* The tool that checks an extension (Conformance).                         *)

\* The steps from one of the check on.
FromClose == {"close", "done"}
FromHost == FromClose \cup {"host"}
FromInvoke == FromHost \cup {"invoke"}
FromItems == FromInvoke \cup {"get_items"}
FromCommand == FromItems \cup {"get_command"}
FromFallback == FromCommand \cup {"fallback"}
FromTop == FromFallback \cup {"top_level"}

Clean == tool = "conformance" /\ failures = {}

\* What is not yet asked has no answer.
Unasked ==
    /\ commands \in Seq(Check!Item) /\ reheats \in Seq(Check!Answers) /\ listings \in Seq(Check!Answers)
    /\ step \notin FromCommand => reheats = <<>>
    /\ step \notin FromItems => listings = <<>>
    /\ step \notin FromHost => checkRan = "skipped"

\* The calls on record, and those that are the extension's up to step 8.
Recorded == {record[i] : i \in DOMAIN record}
OnRecord ==
    /\ record \in Seq(Capability)
    /\ step \notin FromClose => missed \/ used \subseteq Recorded

\* What the walk over the pages makes of an item.
Listing(item, given) == IF item.command = "page" THEN Check!Passes(given) ELSE given = "skipped"

\* The strengthening of GreenIsEarned: as long as no step has a cross, every
\* answer up to the present step has what its step looks at.
Earned ==
    /\ step \in FromTop => promised.caps \subseteq Known
    /\ step \in FromFallback => \A i \in 1 .. Len(commands) : Check!WellFormed(commands[i])
    /\ step \in FromCommand =>
         /\ promised.fallback => templates # "none"
         /\ Len(reheats) <= Len(commands)
         /\ \A i \in 1 .. Len(reheats) : Check!Passes(reheats[i])
    /\ step \in FromItems =>
         /\ Len(reheats) = Len(commands)
         /\ Len(listings) <= Len(commands)
         /\ \A i \in 1 .. Len(listings) : Listing(commands[i], listings[i])
    /\ step \in FromInvoke => Len(listings) = Len(commands)
    /\ step \in FromHost =>
         IF invoking /\ commands # <<>> THEN Check!Passes(checkRan) ELSE checkRan = "skipped"
    /\ step \in FromClose => missed \/ used \subseteq promised.caps
    /\ step = "done" => backend = "closed"

CheckIInv == Unasked /\ OnRecord /\ (Clean => Earned)

\* A call that is on record no longer, or never was, has been missed.
LEMMA CallsStayOnRecord ==
    ASSUME record \in Seq(Capability), NEW ok, Check!Calls(ok)
    PROVE  /\ record' \in Seq(Capability)
           /\ missed \/ used \subseteq Recorded => missed' \/ used' \subseteq Recorded'
<1>1. PICK sent \in UNION {[1 .. n -> Capability] : n \in 0 .. MaxBurst}, taken \in BOOLEAN :
        LET all  == record \o sent
            over == backend = "subprocess" /\ Len(all) > RecordCap
        IN  /\ used' = used \cup {sent[i] : i \in DOMAIN sent}
            /\ record' = IF ~taken THEN record
                         ELSE IF over THEN SubSeq(all, Len(all) - RecordCap + 1, Len(all)) ELSE all
            /\ missed' = (missed \/ (~taken /\ sent # <<>>) \/ (taken /\ over))
  BY DEF Check!Calls
<1> DEFINE all == record \o sent
           over == backend = "subprocess" /\ Len(all) > RecordCap
<1>2. sent \in Seq(Capability)
  <2>1. MaxBurst \in Nat
    BY ExtensionsAssumption
  <2>2. PICK n \in 0 .. MaxBurst : sent \in [1 .. n -> Capability]
    OBVIOUS
  <2> QED BY <2>1, <2>2
<1>3. /\ all \in Seq(Capability) /\ Len(all) = Len(record) + Len(sent)
      /\ Len(all) \in Nat /\ RecordCap \in Nat
      /\ \A i \in DOMAIN record : i \in DOMAIN all /\ all[i] = record[i]
      /\ \A i \in DOMAIN sent : i + Len(record) \in DOMAIN all /\ all[i + Len(record)] = sent[i]
  BY <1>2, ExtensionsAssumption
<1>4. /\ used' = used \cup {sent[i] : i \in DOMAIN sent}
      /\ record' = IF ~taken THEN record
                   ELSE IF over THEN SubSeq(all, Len(all) - RecordCap + 1, Len(all)) ELSE all
      /\ missed' = (missed \/ (~taken /\ sent # <<>>) \/ (taken /\ over))
  BY <1>1
<1> HIDE DEF all
<1>5. CASE ~taken
  <2>1. record' = record
    BY <1>4, <1>5
  <2>2. sent = <<>> => used' = used
    BY <1>4
  <2>3. missed' <=> missed \/ sent # <<>>
    BY <1>4, <1>5
  <2> QED BY <2>1, <2>2, <2>3 DEF Recorded
<1>6. CASE taken /\ ~over
  <2>1. record' = all
    BY <1>4, <1>6
  <2>2. \A m \in used' : m \in used \/ m \in Recorded'
    <3>1. ASSUME NEW i \in DOMAIN sent PROVE sent[i] \in Recorded'
      BY <1>3, <2>1 DEF Recorded
    <3> QED BY <1>4, <3>1
  <2>3. Recorded \subseteq Recorded'
    BY <1>3, <2>1 DEF Recorded
  <2>4. missed => missed'
    BY <1>4
  <2> QED BY <1>3, <2>1, <2>2, <2>3, <2>4
<1>7. CASE taken /\ over
  <2>1. record' = SubSeq(all, Len(all) - RecordCap + 1, Len(all)) /\ missed'
    BY <1>4, <1>7
  <2>2. Len(all) - RecordCap + 1 \in 1 .. Len(all) + 1
    BY <1>3, <1>7
  <2>3. record' \in Seq(Capability)
    BY <1>3, <2>1, <2>2
  <2> QED BY <2>1, <2>3
<1> QED
  BY <1>5, <1>6, <1>7

\* So no step up to the host's methods loses one unseen.
LEMMA OnRecordStays ==
    ASSUME OnRecord, step \notin FromClose,
           UNCHANGED Check!calls \/ \E ok \in BOOLEAN : Check!Calls(ok)
    PROVE  OnRecord'
<1>1. CASE UNCHANGED Check!calls
  BY <1>1 DEF OnRecord, Recorded, Check!calls
<1>2. ASSUME NEW ok \in BOOLEAN, Check!Calls(ok)
      PROVE  OnRecord'
  <2>1. record \in Seq(Capability) /\ (missed \/ used \subseteq Recorded)
    BY DEF OnRecord
  <2> QED BY <1>2, <2>1, CallsStayOnRecord DEF OnRecord
<1> QED
  BY <1>1, <1>2

\* Nothing was asked at first.
LEMMA InitCheckIInv == Check!Init => CheckIInv
<1> SUFFICES ASSUME Check!Init PROVE CheckIInv
  OBVIOUS
<1>1. Unasked /\ (Clean => Earned)
  BY DEF Check!Init, Unasked, Earned, Check!Item, Check!Answers, FromTop, FromFallback, FromCommand,
         FromItems, FromInvoke, FromHost, FromClose
<1>2. OnRecord
  BY DEF Check!Init, OnRecord
<1> QED BY <1>1, <1>2 DEF CheckIInv

\* The steps up to the commands.
LEMMA EarlyKeepsCheckIInv ==
    ASSUME CheckIInv, Check!Pick \/ Check!Spawn \/ Check!Initialize
    PROVE  CheckIInv'
<1>1. /\ step \in {"pick", "spawn", "initialize"}
      /\ UNCHANGED <<tool, invoking, commands, reheats, listings, checkRan>>
      /\ step' \in {"spawn", "initialize", "top_level", "done"}
  BY DEF Check!Pick, Check!Spawn, Check!Initialize, Check!Abandon, Check!facts, Check!answers
<1>2. Unasked'
  BY <1>1 DEF CheckIInv, Unasked, FromCommand, FromItems, FromInvoke, FromHost, FromClose
<1>3. Clean' => step' # "done" /\ (step' = "top_level" => promised'.caps \subseteq Known)
  BY <1>1 DEF Check!Pick, Check!Spawn, Check!Initialize, Check!Abandon, Check!Fails, Clean
<1>4. Clean' => Earned'
  BY <1>1, <1>3 DEF Earned, FromTop, FromFallback, FromCommand, FromItems, FromInvoke,
                    FromHost, FromClose
<1>5. OnRecord'
  <2>1. UNCHANGED Check!calls \/ \E ok \in BOOLEAN : Check!Calls(ok)
    BY DEF Check!Pick, Check!Spawn, Check!Initialize
  <2> QED BY <1>1, <2>1, OnRecordStays DEF CheckIInv, FromClose
<1> QED
  BY <1>2, <1>4, <1>5 DEF CheckIInv

\* The commands, and the fallback templates.
LEMMA MiddleKeepsCheckIInv ==
    ASSUME CheckIInv, Check!TopLevel \/ Check!Fallback
    PROVE  CheckIInv'
<1>1. CASE Check!TopLevel
  <2>1. /\ step = "top_level" /\ step' \in {"done", "close", "fallback"}
        /\ UNCHANGED <<tool, invoking, promised, templates, reheats, listings, checkRan>>
    BY <1>1 DEF Check!TopLevel, Check!Abandon, Check!facts
  <2>2. commands' \in Seq(Check!Item)
    <3>1. CASE commands' = commands
      BY <3>1 DEF CheckIInv, Unasked
    <3>2. CASE \E n \in 0 .. MaxItems : commands' \in [1 .. n -> Check!Item]
      <4>1. PICK n \in Nat : commands' \in [1 .. n -> Check!Item]
        BY <3>2
      <4> HIDE DEF Check!Item
      <4> QED BY <4>1
    <3> QED BY <1>1, <3>1, <3>2 DEF Check!TopLevel
  <2>3. Unasked'
    BY <2>1, <2>2 DEF CheckIInv, Unasked, FromCommand, FromItems, FromInvoke, FromHost, FromClose
  <2>4. Clean' => /\ Clean /\ step' = "fallback"
                  /\ ~ \E i \in DOMAIN commands' : ~Check!WellFormed(commands'[i])
    BY <1>1, <2>1 DEF Check!TopLevel, Check!Fails, Clean
  <2>5. DOMAIN commands' = 1 .. Len(commands')
    BY <2>2
  <2>6. Clean' => Earned'
    BY <2>1, <2>4, <2>5 DEF CheckIInv, Earned, FromTop, FromFallback, FromCommand, FromItems,
                            FromInvoke, FromHost, FromClose
  <2>7. OnRecord'
    <3>1. \E ok \in BOOLEAN : Check!Calls(ok)
      BY <1>1 DEF Check!TopLevel
    <3> QED BY <2>1, <3>1, OnRecordStays DEF CheckIInv, FromClose
  <2> QED BY <2>3, <2>6, <2>7 DEF CheckIInv
<1>2. CASE Check!Fallback
  <2>1. /\ step = "fallback" /\ step' \in {"done", "get_command"}
        /\ UNCHANGED <<tool, invoking, promised, templates, commands, reheats, listings, checkRan>>
    BY <1>2 DEF Check!Fallback, Check!Abandon, Check!facts, Check!answers
  <2>2. Unasked' /\ reheats' = <<>> /\ Len(reheats') = 0
    BY <2>1 DEF CheckIInv, Unasked, FromCommand, FromItems, FromInvoke, FromHost, FromClose
  <2>3. Clean' => Clean /\ step' = "get_command" /\ (promised.fallback => templates # "none")
    BY <1>2, <2>1 DEF Check!Fallback, Check!Fails, Clean
  <2>4. Len(commands) \in Nat
    BY DEF CheckIInv, Unasked
  <2>5. Clean' => Earned'
    BY <2>1, <2>2, <2>3, <2>4 DEF CheckIInv, Earned, FromTop, FromFallback, FromCommand, FromItems,
                                  FromInvoke, FromHost, FromClose
  <2>6. OnRecord'
    <3>1. UNCHANGED Check!calls \/ \E ok \in BOOLEAN : Check!Calls(ok)
      BY <1>2 DEF Check!Fallback, Check!calls
    <3> QED BY <2>1, <3>1, OnRecordStays DEF CheckIInv, FromClose
  <2> QED BY <2>2, <2>5, <2>6 DEF CheckIInv
<1> QED
  BY <1>1, <1>2

\* Every id is asked for again.
LEMMA GetCommandKeepsCheckIInv ==
    ASSUME CheckIInv, Check!GetCommand
    PROVE  CheckIInv'
<1>1. /\ step = "get_command"
      /\ UNCHANGED <<tool, invoking, backend, promised, templates, commands, listings, checkRan>>
      /\ commands \in Seq(Check!Item) /\ reheats \in Seq(Check!Answers)
      /\ Len(commands) \in Nat /\ Len(reheats) \in Nat
  BY DEF Check!GetCommand, Check!facts, CheckIInv, Unasked
<1>4. OnRecord'
  <2>1. UNCHANGED Check!calls \/ \E ok \in BOOLEAN : Check!Calls(ok)
    BY DEF Check!GetCommand
  <2> QED BY <1>1, <2>1, OnRecordStays DEF CheckIInv, FromClose
<1>2. CASE Len(reheats) = Len(commands) /\ step' = "get_items" /\ UNCHANGED <<reheats, failures>>
  <2>1. Unasked' /\ Len(listings') = 0
    BY <1>1, <1>2 DEF CheckIInv, Unasked, FromCommand, FromItems, FromInvoke, FromHost, FromClose
  <2>2. Clean' => Earned'
    BY <1>1, <1>2, <2>1 DEF CheckIInv, Earned, Clean, FromTop, FromFallback, FromCommand, FromItems,
                            FromInvoke, FromHost, FromClose
  <2> QED BY <1>4, <2>1, <2>2 DEF CheckIInv
<1>3. CASE Len(reheats) # Len(commands)
  <2> DEFINE item == commands[Len(reheats) + 1]
  <2>1. PICK given \in Check!Answers :
            /\ reheats' = Append(reheats, given) /\ step' = step
            /\ \/ item.id = Check!Blank /\ UNCHANGED failures
               \/ item.id # Check!Blank /\ Check!Fails(~Check!Passes(given))
    BY <1>3 DEF Check!GetCommand, Check!Answers
  <2>2. /\ reheats' \in Seq(Check!Answers) /\ Len(reheats') = Len(reheats) + 1
        /\ reheats'[Len(reheats) + 1] = given
        /\ \A i \in 1 .. Len(reheats) : reheats'[i] = reheats[i]
        /\ \A i \in 1 .. Len(reheats') : i = Len(reheats) + 1 \/ i \in 1 .. Len(reheats)
    BY <1>1, <2>1
  <2>3. Unasked'
    BY <1>1, <2>1, <2>2 DEF CheckIInv, Unasked, FromCommand
  <2>4. ASSUME Clean' PROVE Earned'
    <3>1. Clean /\ Earned
      BY <1>1, <2>1, <2>4 DEF Clean, Check!Fails, CheckIInv
    <3>2. Len(reheats) + 1 \in 1 .. Len(commands)
      BY <1>1, <1>3, <3>1 DEF Earned, FromCommand
    <3>3. item.id # Check!Blank
      BY <1>1, <3>1, <3>2 DEF Earned, FromFallback, FromCommand, Check!WellFormed
    <3>4. Check!Passes(given)
      BY <2>1, <2>4, <3>3 DEF Check!Fails, Clean
    <3> HIDE DEF item
    <3> QED BY <1>1, <2>1, <2>2, <3>1, <3>2, <3>4
            DEF Earned, FromTop, FromFallback, FromCommand, FromItems, FromInvoke, FromHost, FromClose
  <2> QED BY <1>4, <2>3, <2>4 DEF CheckIInv
<1> QED
  BY <1>2, <1>3 DEF Check!GetCommand

\* Every page is listed.
LEMMA GetItemsKeepsCheckIInv ==
    ASSUME CheckIInv, Check!GetItems
    PROVE  CheckIInv'
<1>1. /\ step = "get_items"
      /\ UNCHANGED <<tool, invoking, backend, promised, templates, commands, reheats, checkRan>>
      /\ commands \in Seq(Check!Item) /\ listings \in Seq(Check!Answers)
      /\ Len(commands) \in Nat /\ Len(listings) \in Nat
  BY DEF Check!GetItems, Check!facts, CheckIInv, Unasked
<1>4. OnRecord'
  <2>1. UNCHANGED Check!calls \/ \E ok \in BOOLEAN : Check!Calls(ok)
    BY DEF Check!GetItems
  <2> QED BY <1>1, <2>1, OnRecordStays DEF CheckIInv, FromClose
<1>2. CASE Len(listings) = Len(commands) /\ step' = "invoke" /\ UNCHANGED <<listings, failures>>
  <2>1. Unasked'
    BY <1>1, <1>2 DEF CheckIInv, Unasked, FromCommand, FromItems, FromInvoke, FromHost, FromClose
  <2>2. Clean' => Earned'
    BY <1>1, <1>2 DEF CheckIInv, Earned, Clean, FromTop, FromFallback, FromCommand, FromItems,
                      FromInvoke, FromHost, FromClose
  <2> QED BY <1>4, <2>1, <2>2 DEF CheckIInv
<1>3. CASE Len(listings) # Len(commands)
  <2> DEFINE item == commands[Len(listings) + 1]
  <2>1. PICK given \in Check!Answers :
            /\ listings' = Append(listings, given) /\ step' = step
            /\ \/ item.command \in {"page", "flawed_page"} /\ Check!Fails(~Check!Passes(given))
               \/ /\ item.command \notin {"page", "flawed_page"} /\ given = "skipped"
                  /\ UNCHANGED failures
    BY <1>3 DEF Check!GetItems, Check!Answers
  <2>2. /\ listings' \in Seq(Check!Answers) /\ Len(listings') = Len(listings) + 1
        /\ listings'[Len(listings) + 1] = given
        /\ \A i \in 1 .. Len(listings) : listings'[i] = listings[i]
        /\ \A i \in 1 .. Len(listings') : i = Len(listings) + 1 \/ i \in 1 .. Len(listings)
    BY <1>1, <2>1
  <2>3. Unasked'
    BY <1>1, <2>1, <2>2 DEF CheckIInv, Unasked, FromItems, FromCommand
  <2>4. ASSUME Clean' PROVE Earned'
    <3>1. Clean /\ Earned
      BY <1>1, <2>1, <2>4 DEF Clean, Check!Fails, CheckIInv
    <3>2. Len(listings) + 1 \in 1 .. Len(commands)
      BY <1>1, <1>3, <3>1 DEF Earned, FromItems
    <3>3. item.command \in {"invoke", "page"}
      BY <1>1, <3>1, <3>2 DEF Earned, FromFallback, FromCommand, FromItems, Check!WellFormed
    <3>4. Listing(item, given)
      BY <2>1, <2>4, <3>3 DEF Check!Fails, Clean, Listing
    <3> HIDE DEF item
    <3>5. \A i \in 1 .. Len(listings') : Listing(commands'[i], listings'[i])
      BY <1>1, <2>2, <3>1, <3>4 DEF Earned, FromItems, item
    <3> QED BY <1>1, <2>1, <2>2, <3>1, <3>2, <3>5
            DEF Earned, FromTop, FromFallback, FromCommand, FromItems, FromInvoke, FromHost, FromClose
  <2> QED BY <1>4, <2>3, <2>4 DEF CheckIInv
<1> QED
  BY <1>2, <1>3 DEF Check!GetItems

\* The run, the host's methods and the end.
LEMMA LateKeepsCheckIInv ==
    ASSUME CheckIInv, Check!Invoke \/ Check!HostRequests \/ Check!Close
    PROVE  CheckIInv'
<1>1. /\ step \in {"invoke", "host", "close"}
      /\ UNCHANGED <<tool, invoking, promised, templates, commands, reheats, listings>>
      /\ step' = CASE step = "invoke" -> "host" [] step = "host" -> "close" [] OTHER -> "done"
  BY DEF Check!Invoke, Check!HostRequests, Check!Close, Check!facts, Check!answers
<1>2. Unasked'
  BY <1>1 DEF CheckIInv, Unasked, FromCommand, FromItems, FromInvoke, FromHost, FromClose
<1>3. Clean' => Clean
  BY <1>1 DEF Check!Invoke, Check!HostRequests, Check!Close, Check!Fails, Clean
<1>4. OnRecord'
  <2>1. CASE Check!Invoke
    <3>1. UNCHANGED Check!calls \/ \E ok \in BOOLEAN : Check!Calls(ok)
      BY <2>1 DEF Check!Invoke
    <3> QED BY <2>1, <3>1, OnRecordStays DEF CheckIInv, FromClose, Check!Invoke
  <2>2. CASE Check!HostRequests \/ Check!Close
    <3>1. step' \in FromClose /\ record' \in {<<>>, record}
      BY <2>2 DEF Check!HostRequests, Check!Close, FromClose
    <3>2. <<>> \in Seq(Capability)
      OBVIOUS
    <3> QED BY <3>1, <3>2 DEF CheckIInv, OnRecord
  <2> QED BY <2>1, <2>2
<1>5. ASSUME Clean'
      PROVE  IF invoking /\ commands # <<>> THEN Check!Passes(checkRan') ELSE checkRan' = "skipped"
  <2>1. CASE Check!Invoke
    <3>1. checkRan = "skipped" /\ Clean /\ Earned
      BY <1>3, <1>5, <2>1 DEF CheckIInv, Unasked, FromHost, FromClose, Check!Invoke
    <3>2. CASE invoking /\ commands # <<>> /\ commands[1].id = Check!Blank
      <4>1. 1 \in 1 .. Len(commands)
        BY <3>2 DEF CheckIInv, Unasked
      <4> QED BY <3>1, <3>2, <4>1, <2>1 DEF Earned, Check!WellFormed, FromFallback, FromCommand,
                 FromItems, FromInvoke, Check!Invoke
    <3>3. CASE ~(invoking /\ commands # <<>> /\ commands[1].id = Check!Blank)
      BY <1>5, <2>1, <3>1, <3>3 DEF Check!Invoke, Check!Fails, Clean
    <3> QED BY <3>2, <3>3
  <2>2. CASE Check!HostRequests \/ Check!Close
    <3>1. checkRan' = checkRan /\ step \in FromHost /\ Earned
      BY <1>3, <1>5, <2>2 DEF Check!HostRequests, Check!Close, Check!answers, FromHost, FromClose, CheckIInv
    <3> QED BY <3>1 DEF Earned
  <2> QED BY <2>1, <2>2
<1>6. ASSUME Clean', step' \in FromClose
      PROVE  missed' \/ used' \subseteq promised.caps
  <2>1. CASE Check!HostRequests
    <3>1. /\ \A i \in DOMAIN record : record[i] \in promised.caps
          /\ UNCHANGED <<used, missed>> /\ step = "host"
      BY <1>6, <2>1 DEF Check!HostRequests, Check!Fails, Clean
    <3>2. Recorded \subseteq promised.caps
      BY <3>1 DEF Recorded
    <3>3. missed \/ used \subseteq Recorded
      BY <3>1 DEF CheckIInv, OnRecord, FromClose
    <3> QED BY <3>1, <3>2, <3>3
  <2>2. CASE Check!Close
    <3>1. step \in FromClose /\ Earned
      BY <1>3, <1>6, <2>2 DEF Check!Close, FromClose, CheckIInv
    <3>2. missed \/ used \subseteq promised.caps
      BY <3>1 DEF Earned
    <3>3. PICK late \in SUBSET Capability :
              used' = used \cup late /\ missed' = (missed \/ late # {})
      BY <2>2 DEF Check!Close
    <3> QED BY <3>2, <3>3
  <2>3. CASE Check!Invoke
    BY <1>6, <2>3 DEF Check!Invoke, FromClose
  <2> QED BY <2>1, <2>2, <2>3
<1>7. Clean' => (step = "close" => backend' = "closed")
  BY <1>1 DEF Check!Invoke, Check!HostRequests, Check!Close, Check!Fails, Clean
<1>8. Clean' => Earned'
  <2> SUFFICES ASSUME Clean' PROVE Earned'
    OBVIOUS
  <2>1. Earned /\ step \in FromInvoke /\ step' \in FromHost
    BY <1>1, <1>3 DEF CheckIInv, FromInvoke, FromHost, FromClose
  <2>2. FromHost \subseteq FromInvoke /\ FromInvoke \subseteq FromItems /\ FromItems \subseteq FromCommand
        /\ FromCommand \subseteq FromFallback /\ FromFallback \subseteq FromTop
    BY DEF FromInvoke, FromHost, FromItems, FromCommand, FromFallback, FromTop
  <2>3. step' = "done" => step = "close"
    BY <1>1
  <2> HIDE DEF FromHost, FromInvoke, FromItems, FromCommand, FromFallback, FromTop
  <2> QED BY <1>1, <1>5, <1>6, <1>7, <2>1, <2>2, <2>3 DEF Earned
<1> QED
  BY <1>2, <1>4, <1>8 DEF CheckIInv

\* Every step keeps the invariant.
LEMMA NextCheckIInv ==
    ASSUME CheckIInv, [Check!Next]_checkVars
    PROVE  CheckIInv'
<1>1. CASE UNCHANGED checkVars
  BY <1>1 DEF checkVars, Check!calls, CheckIInv, Unasked, OnRecord, Recorded, Clean, Earned
<1> QED
  BY <1>1, EarlyKeepsCheckIInv, MiddleKeepsCheckIInv, GetCommandKeepsCheckIInv, GetItemsKeepsCheckIInv, LateKeepsCheckIInv
  DEF Check!Next

\* When --conformance exits with success, everything the extension ok on
\* the way has what the step that asked looks at, and what it called was declared
\* unless a call was missed by the record, however many commands it has, whatever
\* it calls and however long the record is (run_conformance in main.rs).
THEOREM GreenStaysEarned == ExtensionsSpec => []GreenIsEarned
<1> DEFINE Now == part = "check" => CheckIInv
<1>1. ExtensionsInit => Now
  BY InitCheckIInv DEF ExtensionsInit, CheckStart
<1>2. ASSUME Now, [ExtensionsNext]_extensionsVars PROVE Now'
  <2>1. part' = part /\ (part = "check" => [Check!Next]_checkVars)
    BY <1>2 DEF ExtensionsNext, extensionsVars
  <2> QED BY <2>1, <1>2, NextCheckIInv
<1>3. ASSUME CheckIInv PROVE Check!GreenIsEarned
  <2>1. CASE Check!Green
    <3>1. Earned /\ step = "done"
      BY <1>3, <2>1 DEF Check!Green, Clean, CheckIInv
    <3>2. DOMAIN commands = 1 .. Len(commands)
      BY <1>3 DEF CheckIInv, Unasked
    <3> QED BY <3>1, <3>2 DEF Check!GreenIsEarned, Earned, Listing, FromTop, FromFallback,
                              FromCommand, FromItems, FromInvoke, FromHost, FromClose
  <2> QED BY <2>1 DEF Check!GreenIsEarned
<1>4. Now => GreenIsEarned
  BY <1>3 DEF GreenIsEarned
<1> QED
  BY <1>1, <1>2, <1>4, PTL DEF ExtensionsSpec

-----------------------------------------------------------------------------
(* The types of the parts.                                                  *)

\* What is left to say of the types of a command, beside IInv.
ShellTypes ==
    /\ phase \in {"idle", "polling", "joining"}
    /\ query \in Query /\ confirmed \in BOOLEAN
    /\ child \in {"none", "running", "exited", "killed"}
    /\ heir \in BOOLEAN
    /\ pipe \in [Stream -> 0..PipeSize] /\ written \in [Stream -> 0..MaxOutput]
    /\ polls \in 0..Deadline
    /\ answer.kind \in {"none", "dismiss", "toast", "confirm", "timeout", "output"}

\* The bounds are numbers, and zero is within each of them.
LEMMA ShellBounds ==
    /\ Deadline \in Nat /\ PipeSize \in Nat /\ MaxOutput \in Nat
    /\ 0 \in 0 .. Deadline /\ Zero \in [Stream -> 0..PipeSize] /\ Zero \in [Stream -> 0..MaxOutput]
  BY ExtensionsAssumption DEF Zero

\* Nothing was started at first.
LEMMA InitShellTypes == Init => ShellTypes
<1> SUFFICES ASSUME Init PROVE ShellTypes
  OBVIOUS
<1>1. NoQuery \in Query
  <2>1. <<>> \in [1 .. 0 -> Segment] /\ 0 \in 0 .. 2
    OBVIOUS
  <2>2. <<>> \in SeqOf(Segment, 2)
    BY <2>1 DEF SeqOf
  <2> QED BY <2>2 DEF NoQuery, Query
<1> QED
  BY <1>1, ShellBounds DEF Init, ShellTypes

\* What is answered at once has one of the kinds.
LEMMA SaysTyped ==
    ASSUME ShellTypes, NEW kind \in {"none", "dismiss", "toast", "confirm", "timeout"}, Says(kind)
    PROVE  answer'.kind \in {"none", "dismiss", "toast", "confirm", "timeout", "output"}
  BY DEF Says

\* A call that starts no process, and one that does.
LEMMA CallKeepsShellTypes ==
    ASSUME ShellTypes, Next, phase = "idle",
           \/ OpenTerminal
           \/ \E dangerous, yes \in BOOLEAN : SystemCommand(dangerous, yes)
           \/ \E q \in Query, yes \in BOOLEAN : Refuse(q, yes) \/ Spawn(q, yes)
    PROVE  ShellTypes'
<1>1. CASE OpenTerminal
  BY <1>1, SaysTyped DEF OpenTerminal, procVars, ShellTypes
<1>2. ASSUME NEW dangerous \in BOOLEAN, NEW yes \in BOOLEAN, SystemCommand(dangerous, yes)
      PROVE  ShellTypes'
  BY <1>2, SaysTyped DEF SystemCommand, procVars, ShellTypes
<1>3. ASSUME NEW q \in Query, NEW yes \in BOOLEAN, Refuse(q, yes)
      PROVE  ShellTypes'
  BY <1>3, SaysTyped DEF Refuse, procVars, ShellTypes
<1>4. ASSUME NEW q \in Query, NEW yes \in BOOLEAN, Spawn(q, yes)
      PROVE  ShellTypes'
  <2>1. query' \in Query /\ confirmed' \in BOOLEAN
    BY <1>4 DEF Spawn
  <2>2. CASE Says("toast") /\ UNCHANGED <<phase, procVars>>
    BY <2>1, <2>2, SaysTyped DEF procVars, ShellTypes
  <2>3. CASE /\ phase' = "polling" /\ child' = "running" /\ heir' = FALSE
             /\ pipe' = Zero /\ written' = Zero /\ polls' = 0 /\ Says("none")
    BY <2>1, <2>3, SaysTyped, ShellBounds DEF ShellTypes
  <2> QED BY <1>4, <2>2, <2>3 DEF Spawn
<1> QED
  BY <1>1, <1>2, <1>3, <1>4

\* Every step keeps the types of a command.
LEMMA NextShellTypes ==
    ASSUME ShellTypes, IInv, [Next]_shellVars
    PROVE  ShellTypes'
<1>1. CASE \/ OpenTerminal
           \/ \E dangerous, yes \in BOOLEAN : SystemCommand(dangerous, yes)
           \/ \E q \in Query, yes \in BOOLEAN : Refuse(q, yes) \/ Spawn(q, yes)
  <2>1. phase = "idle" /\ Next
    BY <1>1 DEF OpenTerminal, SystemCommand, Refuse, Spawn, Next
  <2> QED BY <1>1, <2>1, CallKeepsShellTypes
<1>2. ASSUME NEW s \in Stream, Write(s)
      PROVE  ShellTypes'
  <2>1. /\ written[s] < MaxOutput /\ pipe[s] < PipeSize
        /\ written' = [written EXCEPT ![s] = @ + 1] /\ pipe' = [pipe EXCEPT ![s] = @ + 1]
        /\ UNCHANGED <<phase, query, confirmed, child, heir, polls, answer>>
    BY <1>2 DEF Write
  <2>2. pipe' \in [Stream -> 0..PipeSize] /\ written' \in [Stream -> 0..MaxOutput]
    BY <2>1, ShellBounds DEF ShellTypes
  <2> QED BY <2>1, <2>2 DEF ShellTypes
<1>3. ASSUME NEW s \in Stream, Read(s)
      PROVE  ShellTypes'
  <2>1. UNCHANGED <<phase, query, confirmed, child, heir, written, polls, answer>>
    BY <1>3 DEF Read
  <2>2. pipe' \in [Stream -> 0..PipeSize]
    <3>1. UNCHANGED pipe \/ (pipe[s] > 0 /\ pipe' = [pipe EXCEPT ![s] = @ - 1])
      BY <1>3 DEF Read
    <3> QED BY <3>1, ShellBounds DEF ShellTypes
  <2> QED BY <2>1, <2>2 DEF ShellTypes
<1>4. CASE LeaveBehind \/ HeirEnds \/ Exit
  BY <1>4 DEF LeaveBehind, HeirEnds, Exit, ShellTypes
<1>5. CASE Poll
  <2>1. UNCHANGED <<query, confirmed, heir, pipe, written>>
    BY <1>5 DEF Poll
  <2>2. CASE phase' = "joining" /\ UNCHANGED <<child, polls, answer>>
    BY <2>1, <2>2 DEF ShellTypes
  <2>3. CASE polls < Deadline /\ polls' = polls + 1 /\ UNCHANGED <<phase, child, answer>>
    <3>1. polls' \in 0 .. Deadline
      BY <2>3, ShellBounds DEF ShellTypes
    <3> QED BY <2>1, <2>3, <3>1 DEF ShellTypes
  <2>4. CASE child' = "killed" /\ phase' = "idle" /\ Says("timeout") /\ UNCHANGED polls
    BY <2>1, <2>4, SaysTyped DEF ShellTypes
  <2>5. CASE phase' = "idle" /\ Says("toast") /\ UNCHANGED <<child, polls>>
    BY <2>1, <2>5, SaysTyped DEF ShellTypes
  <2> QED BY <1>5, <2>2, <2>3, <2>4, <2>5 DEF Poll
<1>6. CASE Join
  <2>1. /\ phase' = "idle" /\ answer' = [kind |-> "output", output |-> got]
        /\ UNCHANGED <<query, confirmed, child, heir, pipe, written, polls>>
    BY <1>6 DEF Join, procVars
  <2> QED BY <2>1 DEF ShellTypes
<1>7. CASE UNCHANGED shellVars
  BY <1>7 DEF shellVars, ShellTypes
<1> QED
  BY <1>1, <1>2, <1>3, <1>4, <1>5, <1>6, <1>7 DEF Next

\* What was read was written before.
LEMMA ShellTyped ==
    ASSUME ShellTypes, IInv
    PROVE  TypeOK
<1>1. ASSUME NEW s \in Stream PROVE got[s] \in 0 .. MaxOutput
  <2>1. /\ got[s] \in Nat /\ pipe[s] \in Nat /\ written[s] = got[s] + pipe[s]
        /\ written[s] \in 0 .. MaxOutput
    BY DEF IInv, Conserved, ShellTypes
  <2> QED BY <2>1, ShellBounds
<1>2. got \in [Stream -> 0..MaxOutput]
  BY <1>1 DEF IInv
<1> QED
  BY <1>2 DEF ShellTypes, IInv, TypeOK

-----------------------------------------------------------------------------
\* What is left to say of the types of the way to the indexer.
IpcTypes ==
    /\ everything \in BOOLEAN
    /\ avail \in {"unknown", "yes", "no"}
    /\ client \in {"none", "live", "gone"}
    /\ answered \in {"nothing yet", "hint", "guide", "results", "error"}

\* Every step keeps the types of the way to the indexer.
LEMMA NextIpcTypes ==
    ASSUME IpcTypes, [Ipc!Next]_ipcVars
    PROVE  IpcTypes'
<1>1. CASE Ipc!GetItems
  <2>1. everything' \in BOOLEAN /\ avail' \in {"unknown", "yes", "no"}
    BY <1>1 DEF Ipc!GetItems, Ipc!Available, IpcTypes
  <2>2. answered' \in {"nothing yet", "hint", "guide", "results", "error"}
    BY <1>1 DEF Ipc!GetItems
  <2>3. client' \in {"none", "live", "gone"}
    <3>1. CASE UNCHANGED client
      BY <3>1 DEF IpcTypes
    <3>2. ASSUME NEW ok \in BOOLEAN, Ipc!Search(ok) PROVE client' \in {"none", "live", "gone"}
      <4>1. PICK ipc \in BOOLEAN : Ipc!ByIpc(ipc)
        BY <3>2 DEF Ipc!Search
      <4> QED BY <4>1 DEF Ipc!ByIpc, Ipc!IpcFails, IpcTypes
    <3> QED BY <1>1, <3>1, <3>2 DEF Ipc!GetItems
  <2> QED BY <2>1, <2>2, <2>3 DEF IpcTypes
<1>2. CASE Ipc!AvailExpires \/ Ipc!EverythingStarts \/ Ipc!EverythingStops \/ UNCHANGED ipcVars
  BY <1>2 DEF Ipc!AvailExpires, Ipc!EverythingStarts, Ipc!EverythingStops, ipcVars, IpcTypes
<1> QED
  BY <1>1, <1>2 DEF Ipc!Next

-----------------------------------------------------------------------------
\* What is shown of the engines and where a choice went.
WebTypes == webShown.name \in Name \cup {"-"} /\ went.page \in {"-", "toast", "home", "search"}

\* What is listed is one of the engines at work.
LEMMA NextWebTypes ==
    ASSUME WebTypes, WebIInv, [Web!Next]_webVars
    PROVE  WebTypes'
<1>1. CASE Web!Inject \/ UNCHANGED webVars
  BY <1>1 DEF Web!Inject, webVars, WebTypes
<1>2. CASE Web!List
  <2>1. PICK i \in DOMAIN Web!Active : webShown' = Web!Active[i] /\ went' = went
    BY <1>2 DEF Web!List
  <2>2. Web!Active \in Seq(Engine)
    BY ActiveIsDistinct DEF Distinct
  <2>3. Web!Active[i] \in Engine
    BY <2>1, <2>2
  <2> QED BY <2>1, <2>3 DEF Engine, WebTypes
<1>3. ASSUME NEW words \in BOOLEAN, Web!Invoke(words) PROVE WebTypes'
  BY <1>3 DEF Web!Invoke, WebTypes
<1> QED
  BY <1>1, <1>2, <1>3 DEF Web!Next

-----------------------------------------------------------------------------
\* An expression is typed token by token.
LEMMA CalcTypesInit == Calc!Init => Calc!TypeOK
<1> SUFFICES ASSUME Calc!Init PROVE Calc!TypeOK
  OBVIOUS
<1>1. <<>> \in [1 .. 0 -> Token] /\ 0 \in 0 .. SumLongest
  BY ExtensionsAssumption
<1>2. <<>> \in Calc!BoundedSeq(Token, SumLongest)
  BY <1>1 DEF Calc!BoundedSeq, Calc!SeqOf
<1> QED
  BY <1>2 DEF Calc!Init, Calc!TypeOK

\* One token more, while there is room.
LEMMA CalcTypesNext ==
    ASSUME Calc!TypeOK, [Calc!Next]_calcVars
    PROVE  Calc!TypeOK'
<1>1. ASSUME NEW t \in Token, Calc!Type(t) PROVE Calc!TypeOK'
  <2>1. PICK m \in 0 .. SumLongest : input \in [1 .. m -> Token]
    BY DEF Calc!TypeOK, Calc!BoundedSeq, Calc!SeqOf
  <2>2. m \in Nat /\ input \in Seq(Token) /\ Len(input) = m /\ m < SumLongest
    BY <1>1, <2>1, ExtensionsAssumption DEF Calc!Type
  <2>3. Append(input, t) \in [1 .. m + 1 -> Token] /\ m + 1 \in 0 .. SumLongest
    <3> DEFINE more == Append(input, t)
    <3>1. more \in Seq(Token) /\ Len(more) = m + 1
      BY <2>2
    <3> HIDE DEF more
    <3>2. more \in [1 .. m + 1 -> Token]
      BY <3>1
    <3> QED BY <2>2, <3>2, ExtensionsAssumption DEF more
  <2>4. Append(input, t) \in Calc!BoundedSeq(Token, SumLongest)
    BY <2>3 DEF Calc!BoundedSeq, Calc!SeqOf
  <2> QED BY <1>1, <2>4 DEF Calc!Type, Calc!TypeOK
<1>2. CASE Calc!Invoke
  BY <1>2 DEF Calc!Invoke, Calc!TypeOK
<1>3. CASE UNCHANGED calcVars
  BY <1>3 DEF calcVars, Calc!TypeOK
<1> QED
  BY <1>1, <1>2, <1>3 DEF Calc!Next

-----------------------------------------------------------------------------
(* The types of the programs (AppCatalog).                                  *)

\* Every list of the programs is within its cap, sorted or not.
AppsTypes ==
    /\ at \in {"unset", "folder", "menu", "kept"}
    /\ left \subseteq Installed \cup Shortcuts
    /\ apps \in Seq(Apps!App) /\ Len(apps) <= MaxApps
    /\ seen \subseteq Apps!Title
    /\ seenExe \subseteq {a.target : a \in Shortcuts}
    /\ blocked \subseteq Apps!Title

\* What was listed once is of the list that is kept.
ListedTypes ==
    /\ \A e \in appsListed : e.at \in 1..MaxApps /\ e.title \in Apps!Title
    /\ appsRan.shown \in Apps!Title \cup {0}

\* No program was looked at yet.
LEMMA InitAppsTypes == Apps!Init => AppsTypes /\ ListedTypes
<1> SUFFICES ASSUME Apps!Init PROVE AppsTypes /\ ListedTypes
  OBVIOUS
<1>1. <<>> \in Seq(Apps!App) /\ Len(<<>>) = 0 /\ MaxApps \in Nat
  BY ExtensionsAssumption
<1> QED
  BY <1>1 DEF Apps!Init, AppsTypes, ListedTypes

\* One more program.
LEMMA AppendApp ==
    ASSUME AppsTypes, NEW app \in Apps!App, Len(apps) < MaxApps
    PROVE  Append(apps, app) \in Seq(Apps!App) /\ Len(Append(apps, app)) <= MaxApps
<1>1. apps \in Seq(Apps!App) /\ Len(apps) \in Nat /\ MaxApps \in Nat
  BY ExtensionsAssumption DEF AppsTypes
<1>2. Append(apps, app) \in Seq(Apps!App) /\ Len(Append(apps, app)) = Len(apps) + 1
  BY <1>1
<1> QED
  BY <1>1, <1>2

\* An item of the shell, or a shortcut.
LEMMA ItemKeepsAppsTypes ==
    /\ \A a \in Installed : AppsTypes /\ Apps!FolderItem(a) => AppsTypes'
    /\ \A a \in Shortcuts : AppsTypes /\ (Apps!LinkItem(a) \/ Apps!UrlItem(a)) => AppsTypes'
<1>1. ASSUME NEW a \in Installed, AppsTypes, Apps!FolderItem(a) PROVE AppsTypes'
  <2>1. a.title \in Apps!Title /\ [title |-> a.title, target |-> "aumid"] \in Apps!App
    BY DEF Apps!Title, Apps!App
  <2>2. left' \subseteq Installed \cup Shortcuts /\ UNCHANGED <<at, seenExe, blocked>>
    BY <1>1 DEF Apps!FolderItem, AppsTypes
  <2>3. \/ UNCHANGED <<apps, seen>>
        \/ /\ Len(apps) < MaxApps
           /\ apps' = Append(apps, [title |-> a.title, target |-> "aumid"])
           /\ seen' = seen \cup {a.title}
    BY <1>1 DEF Apps!FolderItem
  <2>4. apps' \in Seq(Apps!App) /\ Len(apps') <= MaxApps
    BY <1>1, <2>1, <2>3, AppendApp DEF AppsTypes
  <2>5. seen' \subseteq Apps!Title
    BY <1>1, <2>1, <2>3 DEF AppsTypes
  <2> QED BY <1>1, <2>2, <2>4, <2>5 DEF AppsTypes
<1>2. ASSUME NEW a \in Shortcuts, AppsTypes, Apps!LinkItem(a) \/ Apps!UrlItem(a)
      PROVE  AppsTypes'
  <2>1. a.title \in Apps!Title /\ [title |-> a.title, target |-> a.target] \in Apps!App
        /\ a.target \in {b.target : b \in Shortcuts}
    BY DEF Apps!Title, Apps!App
  <2>2. left' \subseteq Installed \cup Shortcuts /\ UNCHANGED <<at, blocked>>
    BY <1>2 DEF Apps!LinkItem, Apps!UrlItem, AppsTypes
  <2>3. Len(apps) < MaxApps
    BY <1>2 DEF Apps!LinkItem, Apps!UrlItem
  <2>4. /\ apps' = apps \/ apps' = Append(apps, [title |-> a.title, target |-> a.target])
        /\ seen' = seen \/ seen' = seen \cup {a.title}
        /\ seenExe' = seenExe \/ seenExe' = seenExe \cup {a.target}
    BY <1>2 DEF Apps!LinkItem, Apps!UrlItem
  <2>5. apps' \in Seq(Apps!App) /\ Len(apps') <= MaxApps
    BY <1>2, <2>1, <2>3, <2>4, AppendApp DEF AppsTypes
  <2>6. seen' \subseteq Apps!Title /\ seenExe' \subseteq {b.target : b \in Shortcuts}
    BY <1>2, <2>1, <2>4 DEF AppsTypes
  <2> QED BY <1>2, <2>2, <2>5, <2>6 DEF AppsTypes
<1> QED
  BY <1>1, <1>2

\* The order of the list changes nothing of its types.
LEMMA KeepKeepsAppsTypes ==
    ASSUME AppsTypes, Apps!Keep
    PROVE  AppsTypes'
<1> DEFINE n == Len(apps)
<1>1. apps \in Seq(Apps!App) /\ n \in Nat /\ DOMAIN apps = 1 .. n /\ n <= MaxApps
  BY DEF AppsTypes
<1>2. PICK order \in [DOMAIN apps -> DOMAIN apps] :
         apps' = [i \in DOMAIN apps |-> apps[order[i]]]
  BY DEF Apps!Keep
<1>3. /\ at' = "kept" /\ left' = {} /\ UNCHANGED <<seen, seenExe, blocked>>
  BY DEF Apps!Keep
<1>4. apps' \in [1 .. n -> Apps!App]
  BY <1>1, <1>2
<1>5. apps' \in Seq(Apps!App) /\ Len(apps') = n
  BY <1>1, <1>4
<1> QED
  BY <1>1, <1>3, <1>5 DEF AppsTypes

\* Every step keeps the types of the programs.
LEMMA NextAppsTypes ==
    ASSUME AppsTypes, ListedTypes, [Apps!Next]_appsVars
    PROVE  AppsTypes' /\ ListedTypes'
<1>1. AppsTypes'
  <2>1. CASE Apps!Enumerate \/ Apps!FolderDone
    BY <2>1 DEF Apps!Enumerate, Apps!FolderDone, AppsTypes
  <2>2. CASE Apps!Panic
    <3>1. <<>> \in Seq(Apps!App) /\ Len(<<>>) = 0 /\ MaxApps \in Nat
      BY ExtensionsAssumption
    <3> QED BY <2>2, <3>1 DEF Apps!Panic, AppsTypes
  <2>3. CASE Apps!Inject \/ Apps!TopLevel \/ UNCHANGED appsVars
    BY <2>3 DEF Apps!Inject, Apps!TopLevel, appsVars, AppsTypes
  <2>4. ASSUME NEW e \in appsListed, Apps!Invoke(e) PROVE AppsTypes'
    BY <2>4 DEF Apps!Invoke, AppsTypes
  <2> QED
    BY <2>1, <2>2, <2>3, <2>4, ItemKeepsAppsTypes, KeepKeepsAppsTypes DEF Apps!Next
<1>2. ListedTypes'
  <2>1. CASE UNCHANGED <<appsListed, appsRan>>
    BY <2>1 DEF ListedTypes
  <2>2. CASE Apps!TopLevel
    <3>1. appsListed' = Apps!Numbered /\ appsRan' = appsRan
      BY <2>2 DEF Apps!TopLevel
    <3>2. ASSUME NEW e \in Apps!Numbered PROVE e.at \in 1..MaxApps /\ e.title \in Apps!Title
      <4>1. PICK i \in DOMAIN apps : e = [at |-> i, title |-> apps[i].title]
        BY <3>2 DEF Apps!Numbered
      <4>2. apps[i] \in Apps!App /\ i \in 1 .. MaxApps
        BY <4>1, ExtensionsAssumption DEF AppsTypes
      <4> QED BY <4>1, <4>2 DEF Apps!App
    <3> QED BY <3>1, <3>2 DEF ListedTypes
  <2>3. ASSUME NEW e \in appsListed, Apps!Invoke(e) PROVE ListedTypes'
    BY <2>3 DEF Apps!Invoke, ListedTypes
  <2>4. \/ UNCHANGED <<appsListed, appsRan>>
        \/ Apps!TopLevel
        \/ \E e \in appsListed : Apps!Invoke(e)
    BY DEF Apps!Next, Apps!Enumerate, Apps!FolderItem, Apps!FolderDone, Apps!LinkItem,
           Apps!UrlItem, Apps!Keep, Apps!Panic, Apps!Inject, appsVars
  <2> QED BY <2>1, <2>2, <2>3, <2>4
<1> QED
  BY <1>1, <1>2

-----------------------------------------------------------------------------
(* The types of the conformance check.                                      *)

\* An answer more, while there are commands to ask about.
LEMMA AppendAnswer ==
    ASSUME NEW s \in Seq(Check!Answers), NEW n \in Nat, Len(s) < n, NEW a \in Check!Answers
    PROVE  Append(s, a) \in Seq(Check!Answers) /\ Len(Append(s, a)) <= n
<1>1. Len(s) \in Nat /\ Append(s, a) \in Seq(Check!Answers) /\ Len(Append(s, a)) = Len(s) + 1
  OBVIOUS
<1> QED
  BY <1>1

\* The two walks over the commands of an extension, and how far they are.
WalkTypes ==
    /\ commands \in Seq(Check!Item) /\ Len(commands) <= MaxItems
    /\ reheats \in Seq(Check!Answers) /\ Len(reheats) <= Len(commands)
    /\ listings \in Seq(Check!Answers) /\ Len(listings) <= Len(commands)

\* The rest: where the check is and what it found.
FoundTypes ==
    /\ tool \in {"roundtrip", "conformance"} /\ invoking \in BOOLEAN
    /\ step \in Check!Steps
    /\ backend \in {"none", "subprocess", "in_process", "closed", "dropped"}
    /\ promised \in [caps : SUBSET Capability, fallback : BOOLEAN]
    /\ templates \in {"none", "accepted", "whole"}
    /\ checkRan \in Check!Answers
    /\ used \subseteq Capability /\ missed \in BOOLEAN
    /\ failures \subseteq Check!Steps

\* Nothing was asked yet.
LEMMA InitCheckTypes == Check!Init => WalkTypes /\ FoundTypes
<1> SUFFICES ASSUME Check!Init PROVE WalkTypes /\ FoundTypes
  OBVIOUS
<1>1. /\ <<>> \in Seq(Check!Item) /\ <<>> \in Seq(Check!Answers) /\ Len(<<>>) = 0
      /\ MaxItems \in Nat
  BY ExtensionsAssumption
<1>2. WalkTypes
  BY <1>1 DEF Check!Init, WalkTypes
<1>3. FoundTypes
  BY DEF Check!Init, FoundTypes, Check!Steps, Check!Answers
<1> QED BY <1>2, <1>3

\* Every step fails or not, calls the host or not, and may give up.
LEMMA FoundParts ==
    ASSUME FoundTypes
    PROVE  /\ \A bad : Check!Fails(bad) => failures' \subseteq Check!Steps
           /\ (\E ok \in BOOLEAN : Check!Calls(ok)) =>
                used' \subseteq Capability /\ missed' \in BOOLEAN
           /\ Check!Abandon =>
                /\ step' \in Check!Steps
                /\ backend' \in {"none", "subprocess", "in_process", "closed", "dropped"}
<1>1. \A bad : Check!Fails(bad) => failures' \subseteq Check!Steps
  BY DEF FoundTypes, Check!Fails
<1>2. ASSUME NEW ok \in BOOLEAN, Check!Calls(ok)
      PROVE  used' \subseteq Capability /\ missed' \in BOOLEAN
  <2>1. PICK sent \in UNION {[1 .. n -> Capability] : n \in 0 .. MaxBurst}, b \in BOOLEAN :
            used' = used \cup {sent[i] : i \in DOMAIN sent} /\ missed' \in BOOLEAN
    BY <1>2 DEF Check!Calls
  <2>2. \A i \in DOMAIN sent : sent[i] \in Capability
    OBVIOUS
  <2> QED BY <2>1, <2>2 DEF FoundTypes
<1>3. Check!Abandon =>
                /\ step' \in Check!Steps
                /\ backend' \in {"none", "subprocess", "in_process", "closed", "dropped"}
  BY DEF FoundTypes, Check!Abandon, Check!Steps
<1> QED BY <1>1, <1>2, <1>3

\* The steps up to the commands.
LEMMA EarlyFoundTypes ==
    ASSUME FoundTypes, Check!Pick \/ Check!Spawn \/ Check!Initialize
    PROVE  FoundTypes'
<1>1. CASE Check!Pick
  <2>1. /\ step' \in {"done", "initialize", "spawn"} /\ backend' \in {backend, "in_process"}
        /\ failures' = failures \/ Check!Fails(TRUE)
        /\ UNCHANGED <<tool, invoking, promised, templates, checkRan, used, missed>>
    BY <1>1 DEF Check!Pick, Check!facts, Check!answers, Check!calls
  <2> QED BY <2>1, FoundParts DEF FoundTypes, Check!Steps
<1>2. CASE Check!Spawn
  <2>1. /\ step' \in {"initialize"} \/ Check!Abandon
        /\ backend' = "subprocess" \/ Check!Abandon
        /\ failures' = failures \/ Check!Fails(TRUE)
        /\ UNCHANGED <<tool, invoking, promised, templates, checkRan, used, missed>>
    BY <1>2 DEF Check!Spawn, Check!facts, Check!answers, Check!calls
  <2> QED BY <2>1, FoundParts DEF FoundTypes, Check!Steps
<1>3. CASE Check!Initialize
  <2>1. /\ step' = "top_level" \/ Check!Abandon
        /\ backend' = backend \/ Check!Abandon
        /\ \E bad : Check!Fails(bad)
        /\ \E ok \in BOOLEAN : Check!Calls(ok)
        /\ promised' \in [caps : SUBSET Capability, fallback : BOOLEAN] \/ promised' = promised
        /\ templates' \in {templates, "none", "accepted", "whole"}
        /\ UNCHANGED <<tool, invoking, checkRan>>
    BY <1>3 DEF Check!Initialize, Check!facts
  <2> QED BY <2>1, FoundParts DEF FoundTypes, Check!Steps
<1> QED
  BY <1>1, <1>2, <1>3

\* The steps that ask the extension.
LEMMA MiddleFoundTypes ==
    ASSUME FoundTypes, Check!TopLevel \/ Check!Fallback \/ Check!GetCommand \/ Check!GetItems
    PROVE  FoundTypes'
<1>1. /\ step' \in {step, "close", "fallback", "get_command", "get_items", "invoke"} \/ Check!Abandon
      /\ backend' = backend \/ Check!Abandon
      /\ failures' = failures \/ \E bad : Check!Fails(bad)
      /\ UNCHANGED <<used, missed>> \/ \E ok \in BOOLEAN : Check!Calls(ok)
      /\ UNCHANGED <<tool, invoking, promised, templates, checkRan>>
  <2>1. CASE Check!TopLevel
    BY <2>1 DEF Check!TopLevel, Check!facts, Check!calls
  <2>2. CASE Check!Fallback
    BY <2>2 DEF Check!Fallback, Check!facts, Check!answers, Check!calls
  <2>3. CASE Check!GetCommand
    BY <2>3 DEF Check!GetCommand, Check!facts, Check!calls
  <2>4. CASE Check!GetItems
    BY <2>4 DEF Check!GetItems, Check!facts, Check!calls
  <2> QED BY <2>1, <2>2, <2>3, <2>4
<1>2. step' \in Check!Steps /\ backend' \in {"none", "subprocess", "in_process", "closed", "dropped"}
  BY <1>1, FoundParts DEF FoundTypes, Check!Steps
<1>3. used' \subseteq Capability /\ missed' \in BOOLEAN
  BY <1>1, FoundParts DEF FoundTypes
<1>4. failures' \subseteq Check!Steps
  BY <1>1, FoundParts DEF FoundTypes
<1> QED
  BY <1>1, <1>2, <1>3, <1>4 DEF FoundTypes

\* The steps after the walks.
LEMMA LateFoundTypes ==
    ASSUME FoundTypes, Check!Invoke \/ Check!HostRequests \/ Check!Close
    PROVE  FoundTypes'
<1>1. /\ step' \in {"host", "close", "done"}
      /\ backend' \in {backend, "closed", "dropped"}
      /\ failures' = failures \/ \E bad : Check!Fails(bad)
      /\ checkRan' = checkRan \/ checkRan' \in Check!Answers
      /\ UNCHANGED <<tool, invoking, promised, templates>>
  <2>1. CASE Check!Invoke
    BY <2>1 DEF Check!Invoke, Check!facts
  <2>2. CASE Check!HostRequests
    BY <2>2 DEF Check!HostRequests, Check!facts, Check!answers
  <2>3. CASE Check!Close
    BY <2>3 DEF Check!Close, Check!facts, Check!answers
  <2> QED BY <2>1, <2>2, <2>3
<1>2. used' \subseteq Capability /\ missed' \in BOOLEAN
  <2>1. CASE Check!Invoke
    <3>1. UNCHANGED <<used, missed>> \/ \E ok \in BOOLEAN : Check!Calls(ok)
      BY <2>1 DEF Check!Invoke, Check!calls
    <3> QED BY <3>1, FoundParts DEF FoundTypes
  <2>2. CASE Check!HostRequests
    BY <2>2 DEF Check!HostRequests, FoundTypes
  <2>3. CASE Check!Close
    BY <2>3 DEF Check!Close, FoundTypes
  <2> QED BY <2>1, <2>2, <2>3
<1>3. step' \in Check!Steps
  BY <1>1 DEF Check!Steps
<1>4. failures' \subseteq Check!Steps
  BY <1>1, FoundParts DEF FoundTypes
<1> QED
  BY <1>1, <1>2, <1>3, <1>4 DEF FoundTypes

\* Neither walk goes further than the commands; the commands come before both.
LEMMA NextWalkTypes ==
    ASSUME WalkTypes, Unasked, [Check!Next]_checkVars
    PROVE  WalkTypes'
<1>1. CASE UNCHANGED <<commands, reheats, listings>>
  BY <1>1 DEF WalkTypes
<1>2. CASE Check!TopLevel
  <2>1. step = "top_level" /\ UNCHANGED <<reheats, listings>>
    BY <1>2 DEF Check!TopLevel
  <2>2. reheats = <<>> /\ listings = <<>>
    BY <2>1 DEF Unasked, FromCommand, FromItems, FromInvoke, FromHost, FromClose
  <2>3. CASE UNCHANGED commands
    BY <2>1, <2>3 DEF WalkTypes
  <2>4. ASSUME NEW n \in 0 .. MaxItems, commands' \in [1 .. n -> Check!Item]
        PROVE  WalkTypes'
    <3>1. n \in Nat /\ n <= MaxItems
      BY ExtensionsAssumption
    <3> HIDE DEF Check!Item
    <3>2. commands' \in Seq(Check!Item) /\ Len(commands') = n
      BY <2>4, <3>1
    <3>3. Len(<<>>) = 0 /\ <<>> \in Seq(Check!Answers)
      OBVIOUS
    <3> QED BY <2>1, <2>2, <3>1, <3>2, <3>3 DEF WalkTypes
  <2> QED BY <1>2, <2>3, <2>4 DEF Check!TopLevel
<1>3. CASE Check!GetCommand \/ Check!GetItems
  <2>1. Len(commands) \in Nat /\ Len(reheats) \in Nat /\ Len(listings) \in Nat
    BY DEF WalkTypes
  <2>2. /\ commands' = commands
        /\ \/ reheats' = reheats
           \/ /\ Len(reheats) # Len(commands)
              /\ \E a \in Check!Answers : reheats' = Append(reheats, a)
        /\ \/ listings' = listings
           \/ /\ Len(listings) # Len(commands)
              /\ \E a \in Check!Answers : listings' = Append(listings, a)
    BY <1>3 DEF Check!GetCommand, Check!GetItems, Check!Answers
  <2>3. reheats' \in Seq(Check!Answers) /\ Len(reheats') <= Len(commands)
    <3>1. CASE reheats' = reheats
      BY <3>1 DEF WalkTypes
    <3>2. ASSUME NEW a \in Check!Answers, Len(reheats) # Len(commands), reheats' = Append(reheats, a)
          PROVE  reheats' \in Seq(Check!Answers) /\ Len(reheats') <= Len(commands)
      <4>1. reheats \in Seq(Check!Answers) /\ Len(reheats) < Len(commands)
        BY <2>1, <3>2 DEF WalkTypes
      <4> QED BY <2>1, <3>2, <4>1, AppendAnswer
    <3> QED BY <2>2, <3>1, <3>2
  <2>4. listings' \in Seq(Check!Answers) /\ Len(listings') <= Len(commands)
    <3>1. CASE listings' = listings
      BY <3>1 DEF WalkTypes
    <3>2. ASSUME NEW a \in Check!Answers, Len(listings) # Len(commands), listings' = Append(listings, a)
          PROVE  listings' \in Seq(Check!Answers) /\ Len(listings') <= Len(commands)
      <4>1. listings \in Seq(Check!Answers) /\ Len(listings) < Len(commands)
        BY <2>1, <3>2 DEF WalkTypes
      <4> QED BY <2>1, <3>2, <4>1, AppendAnswer
    <3> QED BY <2>2, <3>1, <3>2
  <2> QED BY <2>2, <2>3, <2>4 DEF WalkTypes
<1>4. \/ UNCHANGED <<commands, reheats, listings>>
      \/ Check!TopLevel
      \/ Check!GetCommand \/ Check!GetItems
  BY DEF Check!Next, Check!Pick, Check!Spawn, Check!Initialize, Check!Fallback, Check!Invoke,
         Check!HostRequests, Check!Close, Check!answers, checkVars
<1> QED
  BY <1>1, <1>2, <1>3, <1>4

\* Every step keeps the types of what the check found.
LEMMA NextFoundTypes ==
    ASSUME FoundTypes, [Check!Next]_checkVars
    PROVE  FoundTypes'
<1>1. CASE UNCHANGED checkVars
  BY <1>1 DEF checkVars, Check!calls, FoundTypes
<1> QED
  BY <1>1, EarlyFoundTypes, MiddleFoundTypes, LateFoundTypes DEF Check!Next

-----------------------------------------------------------------------------
(* The types of the file search (SearchSidecar).                            *)

\* The instance counts as the library does.
LEMMA SidecarCounts == \A S : Sidecar!Cardinality(S) = Cardinality(S)
  BY DEF Sidecar!Cardinality, Cardinality

\* The index never holds more than Cap numbers, all of them given out.
Small(r) ==
    /\ r \in Numbers /\ r.next # 0
    /\ IsFiniteSet(DOMAIN r.index) /\ Cardinality(DOMAIN r.index) <= Cap
    /\ \A i \in DOMAIN r.index : i \in 1 .. r.next - 1

\* A full index forgets all but the window below the new number.
LEMMA RegisterStaysSmall ==
    ASSUME NEW r, NEW f \in File, Small(r)
    PROVE  Small(Sidecar!RegisterPath(r, f))
<1> DEFINE full == ~(Cardinality(DOMAIN r.index) < Cap)
           room == IF full THEN {i \in DOMAIN r.index : i + Cap - 1 >= r.next}
                   ELSE DOMAIN r.index
           v == Sidecar!RegisterPath(r, f)
<1>1. /\ r.next \in Nat /\ r.next >= 1 /\ Cap \in Nat /\ Cap >= 1
      /\ \A i \in DOMAIN r.index : i \in 1 .. r.next - 1
      /\ IsFiniteSet(DOMAIN r.index) /\ Cardinality(DOMAIN r.index) <= Cap
  BY ExtensionsAssumption DEF Small, Numbers
<1>2. v \in Numbers /\ v.next = r.next + 1
  BY RegisterIsNumbers DEF Small
<1>3. DOMAIN v.index = room \cup {r.next}
  BY SidecarCounts DEF Sidecar!RegisterPath
<1> HIDE DEF v
<1>4. \A i \in room \cup {r.next} : i \in 1 .. r.next + 1 - 1
  BY <1>1
<1>5. IsFiniteSet(room \cup {r.next}) /\ Cardinality(room \cup {r.next}) <= Cap
  <2>1. CASE full
    <3> DEFINE low == r.next - Cap + 1
    <3>1. low \in Int /\ r.next \in Int /\ low <= r.next
      BY <1>1
    <3>2. IsFiniteSet(low .. r.next) /\ Cardinality(low .. r.next) = Cap
      <4> HIDE DEF low
      <4>1. /\ IsFiniteSet(low .. r.next)
            /\ Cardinality(low .. r.next) = IF low > r.next THEN 0 ELSE r.next - low + 1
        BY <3>1, FS_Interval
      <4>2. r.next - low + 1 = Cap /\ ~(low > r.next)
        BY <1>1, <3>1 DEF low
      <4> QED BY <4>1, <4>2
    <3>3. room \cup {r.next} \subseteq low .. r.next
      <4>1. ASSUME NEW i \in room PROVE i \in low .. r.next
        <5>1. i \in 1 .. r.next - 1 /\ i + Cap - 1 >= r.next
          BY <1>1, <2>1, <4>1
        <5> QED BY <1>1, <5>1
      <4>2. r.next \in low .. r.next
        BY <3>1
      <4> QED BY <4>1, <4>2
    <3> HIDE DEF room, low
    <3> QED BY <3>2, <3>3, FS_Subset
  <2>2. CASE ~full
    <3>1. room = DOMAIN r.index /\ Cardinality(DOMAIN r.index) \in Nat
      BY <1>1, <2>2, FS_CardinalityType
    <3>2. /\ IsFiniteSet(DOMAIN r.index \cup {r.next})
          /\ Cardinality(DOMAIN r.index \cup {r.next})
               \in {Cardinality(DOMAIN r.index), Cardinality(DOMAIN r.index) + 1}
      BY <1>1, FS_AddElement
    <3> QED BY <1>1, <2>2, <3>1, <3>2
  <2> QED BY <2>1, <2>2
<1> HIDE DEF room
<1>6. v.next # 0 /\ v.next - 1 = r.next + 1 - 1
  BY <1>1, <1>2
<1> QED
  BY <1>2, <1>3, <1>4, <1>5, <1>6 DEF Small, v

\* So do all of the files in turn.
LEMMA RegisteredStaysSmall ==
    ASSUME NEW files \in Seq(File), Small([next |-> next, index |-> sidecarIndex])
    PROVE  Small(Sidecar!Registered(files))
<1> DEFINE before == [next |-> next, index |-> sidecarIndex]
           last == Len(files)
<1>1. next \in Nat /\ sidecarIndex \in Indexes /\ last \in Nat
  BY DEF Small, Numbers
<1>2. PICK all : /\ all[0] = [next |-> next, index |-> sidecarIndex]
                 /\ \A n \in 1 .. Len(files) :
                      all[n] = Sidecar!RegisterPath(all[n - 1], files[n])
                 /\ Sidecar!Registered(files) = all[Len(files)]
  BY <1>1, RegisteredRuns
<1> DEFINE T == {n \in Nat : n \in 0 .. last => Small(all[n])}
<1>3. 0 \in T
  BY <1>2
<1>4. ASSUME NEW n \in Nat, n \in T PROVE n + 1 \in T
  <2> SUFFICES ASSUME n + 1 \in 0 .. last PROVE Small(all[n + 1])
    OBVIOUS
  <2>1. n \in 0 .. last /\ n + 1 \in 1 .. Len(files) /\ (n + 1) - 1 = n
    BY <1>1
  <2>2. Small(all[n]) /\ files[n + 1] \in File
    BY <1>4, <2>1
  <2>3. all[n + 1] = Sidecar!RegisterPath(all[n], files[n + 1])
    BY <1>2, <2>1
  <2> QED BY <2>2, <2>3, RegisterStaysSmall
<1> HIDE DEF T
<1>5. last \in T /\ last \in 0 .. last
  BY <1>1, <1>3, <1>4, NatInd
<1> QED
  BY <1>2, <1>5 DEF T

\* The numbers of the running process.
NumberTypes ==
    /\ next <= MaxId + 1
    /\ Small([next |-> next, index |-> sidecarIndex])

\* The icons: no more are fetched at a time than there are threads.
IconTypes ==
    /\ cache \in [Sidecar!Key -> {"unknown", "png", "none"}]
    /\ waiting \subseteq Sidecar!Key /\ inflight \subseteq Sidecar!Key
    /\ busy \subseteq Sidecar!Key /\ IsFiniteSet(busy) /\ Cardinality(busy) <= Threads
    /\ window \in {"never", "open", "over"} /\ notified \in BOOLEAN

\* A process that has just started.
LEMMA NothingGiven == Small([next |-> 1, index |-> <<>>]) /\ 1 <= MaxId + 1
<1>1. <<>> \in Indexes /\ DOMAIN <<>> = {} /\ MaxId \in Nat /\ Cap \in Nat
  BY NoneIsIndex, ExtensionsAssumption
<1>2. IsFiniteSet({}) /\ Cardinality({}) = 0
  BY FS_EmptySet
<1> QED
  BY <1>1, <1>2 DEF Small, Numbers

\* Nobody is within every number of threads.
LEMMA NobodyBusy == IsFiniteSet({}) /\ Cardinality({}) <= Threads
  BY FS_EmptySet, ExtensionsAssumption

\* The file search has just started.
LEMMA InitNumberTypes == Sidecar!Init => NumberTypes /\ IconTypes
<1> SUFFICES ASSUME Sidecar!Init PROVE NumberTypes /\ IconTypes
  OBVIOUS
<1>1. NumberTypes
  BY NothingGiven DEF Sidecar!Init, NumberTypes
<1>2. cache \in [Sidecar!Key -> {"unknown", "png", "none"}]
  BY DEF Sidecar!Init
<1>3. IconTypes
  BY <1>2, NobodyBusy DEF Sidecar!Init, IconTypes
<1> QED BY <1>1, <1>3

\* Every step keeps the types of the numbers ...
LEMMA NextNumberTypes ==
    ASSUME NumberTypes, [Sidecar!Next]_sidecarVars
    PROVE  NumberTypes'
<1>1. CASE UNCHANGED <<next, sidecarIndex>>
  BY <1>1 DEF NumberTypes
<1>2. ASSUME NEW files \in Sidecar!Found, Sidecar!Results(files) PROVE NumberTypes'
  <2>1. files \in Seq(File)
    <3>1. PICK n \in 0 .. Limit : files \in [1 .. n -> File]
      BY DEF Sidecar!Found
    <3>2. n \in Nat
      BY ExtensionsAssumption
    <3> QED BY <3>1, <3>2
  <2> DEFINE r == Sidecar!Registered(files)
  <2>2. Small(r) /\ r.next <= MaxId + 1 /\ next' = r.next /\ sidecarIndex' = r.index
    BY <1>2, <2>1, RegisteredStaysSmall DEF NumberTypes, Sidecar!Results
  <2> HIDE DEF r
  <2>3. [next |-> r.next, index |-> r.index] \in Numbers
    BY <2>2 DEF Small, Numbers
  <2> QED BY <2>2, <2>3 DEF NumberTypes, Small
<1>3. CASE Sidecar!Restart
  <2>1. next' = 1 /\ sidecarIndex' = <<>>
    BY <1>3 DEF Sidecar!Restart
  <2> QED BY <2>1, NothingGiven DEF NumberTypes
<1>4. \/ UNCHANGED <<next, sidecarIndex>>
      \/ \E files \in Sidecar!Found : Sidecar!Results(files)
      \/ Sidecar!Restart
  BY DEF Sidecar!Next, Sidecar!GetItems, Sidecar!Land, Sidecar!TakeJob, Sidecar!JobDone,
         Sidecar!WindowEnds, Sidecar!indexVars, sidecarVars
<1> QED
  BY <1>1, <1>2, <1>3, <1>4

\* ... and those of the icons.
LEMMA NextIconTypes ==
    ASSUME IconTypes, [Sidecar!Next]_sidecarVars
    PROVE  IconTypes'
<1>1. ASSUME NEW files \in Sidecar!Found, Sidecar!Results(files), notified' = FALSE PROVE IconTypes'
  <2> DEFINE keys == {Sidecar!KeyOf(files[i]) : i \in 1 .. Len(files)}
  <2>1. keys \subseteq Sidecar!Key
    <3>1. PICK n \in 0 .. Limit : files \in [1 .. n -> File]
      BY DEF Sidecar!Found
    <3>2. n \in Nat
      BY ExtensionsAssumption
    <3>3. Len(files) = n /\ \A i \in 1 .. Len(files) : files[i] \in File
      BY <3>1, <3>2
    <3> QED BY <3>3 DEF Sidecar!Key
  <2>2. Sidecar!LookUpIcons(keys)
    BY <1>1 DEF Sidecar!Results
  <2> HIDE DEF keys
  <2>3. PICK now \in SUBSET keys :
          /\ \E got1 \in [now -> {"png", "none"}] :
                 cache' = [k \in Sidecar!Key |-> IF k \in now THEN got1[k] ELSE cache[k]]
          /\ Sidecar!Enqueue({k \in keys : cache[k] = "unknown"} \ now)
          /\ window' \in {"open", window}
          /\ busy' = busy
    BY <2>2 DEF Sidecar!LookUpIcons
  <2>4. cache' \in [Sidecar!Key -> {"unknown", "png", "none"}]
    BY <2>3 DEF IconTypes
  <2>5. waiting' \subseteq Sidecar!Key /\ inflight' \subseteq Sidecar!Key
    BY <2>1, <2>3 DEF Sidecar!Enqueue, IconTypes
  <2> QED BY <1>1, <2>3, <2>4, <2>5 DEF IconTypes
<1>2. CASE /\ notified' \in {FALSE, notified}
           /\ window' \in {window, "over"}
           /\ UNCHANGED <<cache, waiting, busy, inflight>>
  BY <1>2 DEF IconTypes
<1>3. ASSUME NEW k \in Sidecar!Key, Sidecar!TakeJob(k) PROVE IconTypes'
  <2>1. /\ Cardinality(busy) < Threads /\ IsFiniteSet(busy) /\ Threads \in Nat
        /\ Cardinality(busy) \in Nat
    BY <1>3, SidecarCounts, ExtensionsAssumption, FS_CardinalityType DEF Sidecar!TakeJob, IconTypes
  <2>2. /\ IsFiniteSet(busy \cup {k})
        /\ Cardinality(busy \cup {k}) \in {Cardinality(busy), Cardinality(busy) + 1}
    BY <2>1, FS_AddElement
  <2>3. IsFiniteSet(busy \cup {k}) /\ Cardinality(busy \cup {k}) <= Threads
    BY <2>1, <2>2
  <2>4. /\ waiting' = waiting \ {k} /\ busy' = busy \cup {k}
        /\ UNCHANGED <<cache, inflight, window, notified>>
    BY <1>3 DEF Sidecar!TakeJob
  <2> QED BY <2>3, <2>4 DEF IconTypes
<1>4. ASSUME NEW k \in Sidecar!Key, Sidecar!JobDone(k) PROVE IconTypes'
  <2>1. /\ busy' = busy \ {k} /\ inflight' = inflight \ {k} /\ waiting' = waiting
        /\ \E png \in {"png", "none"} : cache' = [cache EXCEPT ![k] = png]
        /\ window' \in {"open", window}
        /\ notified' \in BOOLEAN
    BY <1>4 DEF Sidecar!JobDone, IconTypes
  <2>2. /\ IsFiniteSet(busy) /\ Cardinality(busy) <= Threads /\ Threads \in Nat
        /\ Cardinality(busy) \in Nat
    BY ExtensionsAssumption, FS_CardinalityType DEF IconTypes
  <2>3. IsFiniteSet(busy \ {k}) /\ Cardinality(busy \ {k}) <= Cardinality(busy)
        /\ Cardinality(busy \ {k}) \in Nat
    BY <2>2, FS_Subset, FS_CardinalityType
  <2>4. Cardinality(busy \ {k}) <= Threads
    BY <2>2, <2>3
  <2>5. cache' \in [Sidecar!Key -> {"unknown", "png", "none"}]
    BY <2>1 DEF IconTypes
  <2> QED BY <2>1, <2>3, <2>4, <2>5 DEF IconTypes
<1>5. CASE Sidecar!Restart
  <2>1. /\ cache' = [k \in Sidecar!Key |-> "unknown"] /\ waiting' = {} /\ busy' = {}
        /\ inflight' = {} /\ window' = "never" /\ notified' = FALSE
    BY <1>5 DEF Sidecar!Restart
  <2>2. cache' \in [Sidecar!Key -> {"unknown", "png", "none"}]
    BY <2>1
  <2> QED BY <2>1, <2>2, NobodyBusy DEF IconTypes
<1>6. CASE Sidecar!GetItems
  BY <1>1, <1>2, <1>6 DEF Sidecar!GetItems
<1>7. CASE Sidecar!Land \/ Sidecar!WindowEnds \/ UNCHANGED sidecarVars
  BY <1>2, <1>7 DEF Sidecar!Land, Sidecar!WindowEnds, sidecarVars, Sidecar!iconVars
<1> QED
  BY <1>3, <1>4, <1>5, <1>6, <1>7 DEF Sidecar!Next

\* Together they are all of its types.
LEMMA SidecarTyped ==
    ASSUME NumberTypes, IconTypes, SidecarIInv
    PROVE  Sidecar!TypeOK
<1>1. next \in 1 .. MaxId + 1
  BY ExtensionsAssumption DEF NumberTypes, SidecarIInv
<1>2. /\ DOMAIN sidecarIndex \subseteq 1 .. next - 1
      /\ Sidecar!Cardinality(DOMAIN sidecarIndex) <= Cap
  BY SidecarCounts DEF NumberTypes, Small
<1>3. \A i \in DOMAIN sidecarIndex : sidecarIndex[i] \in File
  BY DEF SidecarIInv, Indexes
<1>4. /\ sidecarAnswer \in Seq(Sidecar!Item) \cup {Sidecar!NoAnswer}
      /\ sidecarShown \in Seq(Sidecar!Item)
  BY DEF SidecarIInv
<1>5. Sidecar!Cardinality(busy) <= Threads
  BY SidecarCounts DEF IconTypes
<1> QED
  BY <1>1, <1>2, <1>3, <1>4, <1>5 DEF IconTypes, Sidecar!TypeOK

-----------------------------------------------------------------------------
(* The types of the bookmarks (Bookmarks).                                  *)

\* The order of the profiles has each of them.
LEMMA OrderLists ==
    /\ Bookmarks!Order \in Seq(Profile)
    /\ \A f \in Profile : \E i \in 1 .. Len(Bookmarks!Order) : Bookmarks!Order[i] = f
<1> DEFINE n == Cardinality(Profile)
           Lists(o) == o \in [1 .. n -> Profile] /\ \A i, j \in DOMAIN o : o[i] = o[j] => i = j
<1>1. IsFiniteSet(Profile)
  BY ExtensionsAssumption
<1>2. n \in Nat /\ ExistsBijection(1 .. n, Profile)
  BY <1>1, FS_CardinalityType
<1>3. \E o : Lists(o)
  BY <1>2 DEF ExistsBijection, Bijection, Injection, IsInjective
<1>4. Bookmarks!Order = CHOOSE o \in [1 .. n -> Profile] : \A i, j \in DOMAIN o : o[i] = o[j] => i = j
  <2>1. Bookmarks!Cardinality(Profile) = n
    BY DEF Bookmarks!Cardinality, Cardinality
  <2> HIDE DEF n
  <2> QED BY <2>1 DEF Bookmarks!Order, Bookmarks!SetToSeq, Bookmarks!IsInjective
<1>5. Lists(Bookmarks!Order)
  <2> HIDE DEF n
  <2> QED BY <1>3, <1>4
<1> DEFINE o == Bookmarks!Order
<1>6. o \in [1 .. n -> Profile] /\ \A i, j \in 1 .. n : o[i] = o[j] => i = j
  BY <1>5
<1> HIDE DEF o
<1>7. o \in Injection(1 .. n, Profile)
  <2> HIDE DEF n
  <2> QED BY <1>6 DEF Injection, IsInjective
<1>8. IsFiniteSet(1 .. n) /\ Cardinality(1 .. n) = n
  <2>1. IsFiniteSet(1 .. n) /\ Cardinality(1 .. n) = IF 1 > n THEN 0 ELSE n - 1 + 1
    BY <1>2, FS_Interval
  <2> HIDE DEF n
  <2> QED BY <1>2, <2>1
<1>9. o \in Surjection(1 .. n, Profile)
  BY <1>1, <1>7, <1>8, FS_Injection
<1>10. \A f \in Profile : \E i \in 1 .. n : o[i] = f
  BY <1>9 DEF Surjection
<1>11. o \in Seq(Profile) /\ Len(o) = n
  <2> HIDE DEF n
  <2> QED BY <1>2, <1>6
<1> QED
  BY <1>10, <1>11 DEF o

\* The next file of those still to do is one of them.
LEMMA NextIsToDo ==
    ASSUME NEW todo \in SUBSET Profile, todo # {}
    PROVE  Bookmarks!Next1(todo) \in todo
<1> DEFINE o == Bookmarks!Order
           First(i) == /\ i \in DOMAIN o /\ o[i] \in todo
                       /\ \A j \in 1 .. (i - 1) : o[j] \notin todo
           T == {i \in 1 .. Len(o) : o[i] \in todo}
<1>1. o \in Seq(Profile) /\ (\A f \in Profile : \E i \in 1 .. Len(o) : o[i] = f)
  BY OrderLists
<1> HIDE DEF o
<1>2. T # {} /\ T \subseteq Nat /\ DOMAIN o = 1 .. Len(o) /\ Len(o) \in Nat
  BY <1>1
<1>3. PICK m \in T : \A k \in T : m <= k
  BY <1>2, LeastNat
<1>4. First(m)
  <2>1. m \in 1 .. Len(o) /\ o[m] \in todo
    BY <1>3
  <2>2. ASSUME NEW j \in 1 .. (m - 1) PROVE o[j] \notin todo
    <3>1. j \in 1 .. Len(o) /\ ~(m <= j)
      BY <1>2, <2>1
    <3> QED BY <1>3, <3>1
  <2> QED BY <1>2, <2>1, <2>2
<1>5. Bookmarks!Next1(todo) = o[CHOOSE i \in DOMAIN o : First(i)]
  BY DEF Bookmarks!Next1, o
<1> DEFINE c == CHOOSE i \in DOMAIN o : First(i)
<1>6. First(c)
  BY <1>4
<1> HIDE DEF c
<1> QED
  BY <1>5, <1>6 DEF c

\* One list of the lists, in turn.
LEMMA FlattenTyped ==
    ASSUME NEW X, NEW seqs \in Seq(Seq(X))
    PROVE  Bookmarks!FlattenSeq(seqs) \in Seq(X)
<1> DEFINE D == Seq(X)
           n == Len(seqs)
           Step(s, i) == IF i \in 1 .. n THEN (IF i = 1 THEN seqs[i] ELSE s \o seqs[i]) ELSE s
           step1 == [p \in D \X Nat |-> Step(p[1], p[2])]
           Runs(h) == h = [i \in 1 .. Len(seqs) |-> IF i = 1 THEN seqs[i] ELSE h[i - 1] \o seqs[i]]
<1>1. n \in Nat /\ \A i \in 1 .. n : seqs[i] \in D
  OBVIOUS
<1>2. CASE n = 0
  <2>1. Bookmarks!FlattenSeq(seqs) = seqs
    BY <1>2 DEF Bookmarks!FlattenSeq
  <2>2. seqs = <<>> /\ <<>> \in Seq(X)
    BY <1>2
  <2> QED BY <2>1, <2>2
<1>3. CASE n # 0
  <2>1. \A s \in D, i \in Nat : Step(s, i) \in D
    <3> SUFFICES ASSUME NEW s \in D, NEW i \in Nat PROVE Step(s, i) \in D
      OBVIOUS
    <3>1. CASE i \in 1 .. n
      <4>1. seqs[i] \in D /\ s \o seqs[i] \in D
        BY <1>1, <3>1
      <4> QED BY <4>1
    <3>2. CASE i \notin 1 .. n
      BY <3>2
    <3> QED BY <3>1, <3>2
  <2>2. step1 \in [D \X Nat -> D] /\ <<>> \in D
    BY <2>1
  <2>3. \A s \in D, i \in Nat : step1[<<s, i>>] = Step(s, i)
    OBVIOUS
  <2> HIDE DEF step1
  <2>4. PICK f \in [0 .. n -> D] : RunsBy(f, <<>>, step1, n)
    <3> HIDE DEF D, n
    <3> QED BY <1>1, <2>2, Recursion
  <2> DEFINE h == [i \in 1 .. Len(seqs) |-> f[i]]
  <2>5. ASSUME NEW i \in 1 .. Len(seqs)
        PROVE  h[i] = IF i = 1 THEN seqs[i] ELSE h[i - 1] \o seqs[i]
    <3>0. i \in 0 .. n /\ i # 0 /\ i - 1 \in 0 .. n /\ i \in Nat
      BY <1>1
    <3>1. f[i] = step1[<<f[i - 1], i>>] /\ f[i - 1] \in D /\ i \in Nat
      <4> HIDE DEF D, n
      <4> QED BY <2>4, <3>0 DEF RunsBy
    <3>2. f[i] = IF i = 1 THEN seqs[i] ELSE f[i - 1] \o seqs[i]
      BY <2>3, <3>1
    <3>3. i # 1 => h[i - 1] = f[i - 1]
      BY <1>1
    <3> QED BY <3>2, <3>3
  <2>6. Runs(h)
    <3> HIDE DEF h
    <3>1. h = [i \in 1 .. Len(seqs) |-> h[i]]
      BY DEF h
    <3> QED BY <2>5, <3>1
  <2> DEFINE flat == CHOOSE g0 : Runs(g0)
  <2>7. Runs(flat)
    <3> HIDE DEF h
    <3> QED BY <2>6
  <2>8. Bookmarks!FlattenSeq(seqs) = flat[Len(seqs)]
    BY <1>3 DEF Bookmarks!FlattenSeq
  <2> HIDE DEF flat, h
  <2>9. \A i \in 1 .. n : flat[i] = IF i = 1 THEN seqs[i] ELSE flat[i - 1] \o seqs[i]
    BY <2>7
  <2> HIDE DEF Runs, Step
  <2> DEFINE T == {i \in Nat : i \in 1 .. n => flat[i] \in D}
  <2>10. 0 \in T
    OBVIOUS
  <2>11. ASSUME NEW i \in Nat, i \in T PROVE i + 1 \in T
    <3> SUFFICES ASSUME i + 1 \in 1 .. n PROVE flat[i + 1] \in D
      OBVIOUS
    <3>1. seqs[i + 1] \in D /\ (i + 1) - 1 = i
      BY <1>1
    <3>2. CASE i = 0
      BY <2>9, <3>1, <3>2
    <3>3. CASE i # 0
      <4>1. flat[i] \in D
        BY <1>1, <2>11, <3>3
      <4>2. flat[i + 1] = flat[(i + 1) - 1] \o seqs[i + 1]
        <5>1. i + 1 \in 1 .. n /\ i + 1 # 1
          BY <3>3
        <5> QED BY <2>9, <5>1
      <4> QED BY <3>1, <4>1, <4>2
    <3> QED BY <3>2, <3>3
  <2> HIDE DEF T
  <2>12. n \in T /\ n \in 1 .. n
    <3>1. Nat \subseteq T
      BY <2>10, <2>11, NatInd
    <3> HIDE DEF n
    <3> QED BY <1>1, <1>3, <3>1
  <2>13. flat[n] \in D
    BY <2>12 DEF T
  <2> QED BY <2>8, <2>13
<1> QED
  BY <1>2, <1>3

\* The list is cut at MAX_ENTRIES.
LEMMA FlattenCuts ==
    ASSUME NEW urls \in Seq(Url)
    PROVE  /\ Bookmarks!Flatten(urls) \in Seq(Url)
           /\ Len(Bookmarks!Flatten(urls)) <= MaxEntries
           /\ Bookmarks!Flatten(urls) \in Bookmarks!SeqOf(Url, MaxEntries)
<1> DEFINE n == IF Len(urls) < MaxEntries THEN Len(urls) ELSE MaxEntries
           s == SubSeq(urls, 1, n)
<1>1. MaxEntries \in Nat /\ Len(urls) \in Nat
  BY ExtensionsAssumption
<1>2. n \in Nat /\ n <= Len(urls) /\ n <= MaxEntries
  BY <1>1
<1>3. Bookmarks!Flatten(urls) = s
  BY DEF Bookmarks!Flatten
<1> HIDE DEF n
<1>4. s \in Seq(Url) /\ Len(s) = n
  BY <1>1, <1>2
<1> HIDE DEF s
<1>5. s \in [1 .. n -> Url] /\ n \in 0 .. MaxEntries
  BY <1>1, <1>2, <1>4
<1>6. s \in Bookmarks!SeqOf(Url, MaxEntries)
  BY <1>5 DEF Bookmarks!SeqOf
<1> QED
  BY <1>2, <1>3, <1>4, <1>6

\* What a file is parsed to.
LEMMA ParseTyped ==
    ASSUME NEW text \in Bookmarks!Text
    PROVE  /\ Bookmarks!Parse(text) \in Bookmarks!SeqOf(Url, MaxEntries)
           /\ <<>> \in Bookmarks!SeqOf(Url, MaxEntries)
<1>1. <<>> \in [1 .. 0 -> Url] /\ 0 \in 0 .. MaxEntries
  BY ExtensionsAssumption
<1>2. <<>> \in Bookmarks!SeqOf(Url, MaxEntries)
  BY <1>1 DEF Bookmarks!SeqOf
<1>3. CASE text.sound
  <2>1. text.urls \in Bookmarks!SeqOf(Url, MarkedLongest)
    BY <1>3 DEF Bookmarks!Text
  <2>2. PICK m \in 0 .. MarkedLongest : text.urls \in [1 .. m -> Url]
    BY <2>1 DEF Bookmarks!SeqOf
  <2>3. m \in Nat
    BY <2>2
  <2>4. text.urls \in Seq(Url)
    BY <2>2, <2>3
  <2> QED BY <1>2, <1>3, <2>4, FlattenCuts DEF Bookmarks!Parse
<1>4. CASE ~text.sound
  BY <1>2, <1>4 DEF Bookmarks!Parse
<1> QED
  BY <1>3, <1>4

\* Copies of files, each as it was parsed.
CopiesTyped(m) ==
    /\ DOMAIN m \subseteq Profile
    /\ \A f \in DOMAIN m : m[f] \in Bookmarks!Cached

\* A caller on its way: what it has and what is left to do.
WayTyped(w) ==
    \/ w = Bookmarks!Quiet
    \/ /\ w \in [at : {"stat", "text"}, call : {w.call}, old : {w.old},
                 todo : SUBSET Profile, files : {w.files}, mtime : 0 .. Writes]
       /\ CopiesTyped(w.old) /\ CopiesTyped(w.files)
       /\ w.at = "text" => w.todo # {}

BookTypes ==
    /\ disk \in [Profile -> [mtime : 0..Writes, text : Bookmarks!Text]]
    /\ clock \in 0..Writes
    /\ CopiesTyped(bookmarksIndex.files)
    /\ Len(bookmarksIndex.entries) <= MaxEntries
    /\ caller = [c \in Caller |-> caller[c]]
    /\ \A c \in Caller : WayTyped(caller[c])

\* There is no file, no copy and no caller at first.
LEMMA InitBookTypes == Bookmarks!Init => BookTypes
<1> SUFFICES ASSUME Bookmarks!Init PROVE BookTypes
  OBVIOUS
<1>1. Writes \in Nat /\ MaxEntries \in Nat /\ Len(<<>>) = 0
  BY ExtensionsAssumption
<1>2. Bookmarks!Gone \in [mtime : 0..Writes, text : Bookmarks!Text]
  BY <1>1 DEF Bookmarks!Gone, Bookmarks!Text
<1>3. CopiesTyped(<<>>)
  BY DEF CopiesTyped
<1>4. bookmarksIndex.files = <<>> /\ bookmarksIndex.entries = <<>>
  BY DEF Bookmarks!Init, Bookmarks!NoIndex
<1>5. disk \in [Profile -> [mtime : 0..Writes, text : Bookmarks!Text]] /\ clock \in 0 .. Writes
  BY <1>1, <1>2 DEF Bookmarks!Init
<1>6. caller = [c \in Caller |-> Bookmarks!Quiet]
  BY DEF Bookmarks!Init
<1> QED
  BY <1>1, <1>3, <1>4, <1>5, <1>6 DEF BookTypes, WayTyped

\* A copy more.
LEMMA KeepWayTyped ==
    ASSUME NEW w, WayTyped(w), w # Bookmarks!Quiet,
           NEW f \in Profile, NEW entry \in Bookmarks!Cached
    PROVE  WayTyped(Bookmarks!Keep(w, f, entry))
<1> DEFINE more == [h \in DOMAIN w.files \cup {f} |-> IF h = f THEN entry ELSE w.files[h]]
           v == Bookmarks!Keep(w, f, entry)
<1>1. /\ w \in [at : {"stat", "text"}, call : {w.call}, old : {w.old},
                todo : SUBSET Profile, files : {w.files}, mtime : 0 .. Writes]
      /\ CopiesTyped(w.old) /\ CopiesTyped(w.files)
  BY DEF WayTyped
<1>2. CopiesTyped(more)
  BY <1>1 DEF CopiesTyped
<1> HIDE DEF more
<1>3. v = [w EXCEPT !.at = "stat", !.todo = @ \ {f}, !.files = more]
  BY DEF Bookmarks!Keep, more
<1> HIDE DEF v
<1>4. /\ v.at = "stat" /\ v.old = w.old /\ v.files = more
      /\ v \in [at : {"stat", "text"}, call : {v.call}, old : {v.old},
                todo : SUBSET Profile, files : {v.files}, mtime : 0 .. Writes]
  BY <1>1, <1>3
<1> QED
  BY <1>1, <1>2, <1>4 DEF WayTyped, v

\* A caller's step changes its own way only.
LEMMA WayKeepsBookTypes ==
    ASSUME BookTypes, NEW c \in Caller, NEW w, WayTyped(w),
           caller' = [caller EXCEPT ![c] = w], UNCHANGED <<disk, clock, bookmarksIndex>>
    PROVE  BookTypes'
<1>1. caller' = [d \in Caller |-> caller'[d]] /\ \A d \in Caller : WayTyped(caller'[d])
  BY DEF BookTypes
<1> QED
  BY <1>1 DEF BookTypes

\* A caller takes the time of a file, and perhaps its old copy.
LEMMA StatKeepsBookTypes ==
    ASSUME BookTypes, NEW c \in Caller, Bookmarks!Stat(c)
    PROVE  BookTypes'
<1> DEFINE w == caller[c]
           f == Bookmarks!Next1(w.todo)
           v == [w EXCEPT !.at = "text", !.mtime = disk[f].mtime]
<1>1. w.at = "stat" /\ w.todo # {} /\ UNCHANGED <<disk, clock, bookmarksIndex>>
  BY DEF Bookmarks!Stat
<1>2. WayTyped(w) /\ w # Bookmarks!Quiet
  BY <1>1 DEF BookTypes, Bookmarks!Quiet
<1>3. /\ w \in [at : {"stat", "text"}, call : {w.call}, old : {w.old},
                todo : SUBSET Profile, files : {w.files}, mtime : 0 .. Writes]
      /\ CopiesTyped(w.old) /\ CopiesTyped(w.files)
  BY <1>2 DEF WayTyped
<1>4. f \in w.todo /\ f \in Profile
  BY <1>1, <1>3, NextIsToDo
<1> HIDE DEF f
<1>5. CASE /\ f \in DOMAIN w.old
           /\ caller' = [caller EXCEPT ![c] = Bookmarks!Keep(w, f, w.old[f])]
  <2>1. w.old[f] \in Bookmarks!Cached
    BY <1>3, <1>5 DEF CopiesTyped
  <2> QED BY <1>1, <1>2, <1>4, <1>5, <2>1, KeepWayTyped, WayKeepsBookTypes
<1>6. CASE caller' = [caller EXCEPT ![c] = v]
  <2>1. disk[f].mtime \in 0 .. Writes
    BY <1>4 DEF BookTypes
  <2>2. /\ v.at = "text" /\ v.old = w.old /\ v.files = w.files /\ v.todo = w.todo
        /\ v \in [at : {"stat", "text"}, call : {v.call}, old : {v.old},
                  todo : SUBSET Profile, files : {v.files}, mtime : 0 .. Writes]
    BY <1>3, <2>1
  <2> HIDE DEF v
  <2>3. WayTyped(v)
    BY <1>1, <1>3, <2>2 DEF WayTyped
  <2> QED BY <1>1, <1>6, <2>3, WayKeepsBookTypes
<1> QED
  BY <1>5, <1>6 DEF Bookmarks!Stat, f

\* A caller reads the text of a file.
LEMMA ReadKeepsBookTypes ==
    ASSUME BookTypes, NEW c \in Caller, Bookmarks!Read(c)
    PROVE  BookTypes'
<1> DEFINE w == caller[c]
           f == Bookmarks!Next1(w.todo)
<1>1. w.at = "text" /\ UNCHANGED <<disk, clock, bookmarksIndex>>
  BY DEF Bookmarks!Read
<1>2. WayTyped(w) /\ w # Bookmarks!Quiet
  BY <1>1 DEF BookTypes, Bookmarks!Quiet
<1>3. w.todo # {} /\ w.todo \in SUBSET Profile /\ w.mtime \in 0 .. Writes
  BY <1>1, <1>2 DEF WayTyped
<1>4. f \in Profile
  BY <1>3, NextIsToDo
<1> HIDE DEF f
<1>5. PICK ok \in {FALSE, disk[f] # Bookmarks!Gone} :
         caller' = [caller EXCEPT ![c] = Bookmarks!Keep(w, f,
           [mtime |-> w.mtime, read |-> ok,
            entries |-> IF ok THEN Bookmarks!Parse(disk[f].text) ELSE <<>>])]
  BY DEF Bookmarks!Read, f
<1> DEFINE found == IF ok THEN Bookmarks!Parse(disk[f].text) ELSE <<>>
<1>6. found \in Bookmarks!SeqOf(Url, MaxEntries)
  <2>1. disk[f].text \in Bookmarks!Text
    BY <1>4 DEF BookTypes
  <2> QED BY <2>1, ParseTyped
<1>7. ok \in BOOLEAN
  BY <1>5
<1> HIDE DEF found
<1>8. [mtime |-> w.mtime, read |-> ok, entries |-> found] \in Bookmarks!Cached
  BY <1>3, <1>6, <1>7 DEF Bookmarks!Cached
<1> QED
  BY <1>1, <1>2, <1>4, <1>5, <1>8, KeepWayTyped, WayKeepsBookTypes DEF found

\* What is published is cut once more.
LEMMA MergeTyped ==
    ASSUME NEW m, CopiesTyped(m)
    PROVE  /\ Bookmarks!Merge(m).files = m
           /\ Len(Bookmarks!Merge(m).entries) <= MaxEntries
<1> DEFINE o == Bookmarks!Order
           lists == [i \in DOMAIN o |-> IF o[i] \in DOMAIN m THEN m[o[i]].entries ELSE <<>>]
<1>1. o \in Seq(Profile)
  BY OrderLists
<1>2. \A f \in DOMAIN m : m[f].entries \in Seq(Url)
  <2> SUFFICES ASSUME NEW f \in DOMAIN m PROVE m[f].entries \in Seq(Url)
    OBVIOUS
  <2>1. m[f].entries \in Bookmarks!SeqOf(Url, MaxEntries)
    BY DEF CopiesTyped, Bookmarks!Cached
  <2>2. PICK k \in 0 .. MaxEntries : m[f].entries \in [1 .. k -> Url]
    BY <2>1 DEF Bookmarks!SeqOf
  <2>3. k \in Nat
    BY <2>2
  <2> QED BY <2>2, <2>3
<1>3. <<>> \in Seq(Url)
  OBVIOUS
<1> HIDE DEF o
<1>4. lists \in [1 .. Len(o) -> Seq(Url)] /\ Len(o) \in Nat
  BY <1>1, <1>2, <1>3
<1> HIDE DEF lists
<1>5. lists \in Seq(Seq(Url))
  BY <1>4
<1>6. Bookmarks!FlattenSeq(lists) \in Seq(Url)
  BY <1>5, FlattenTyped
<1> DEFINE all == Bookmarks!FlattenSeq(lists)
<1>7. Len(Bookmarks!Flatten(all)) <= MaxEntries
  BY <1>6, FlattenCuts
<1>8. Bookmarks!Merge(m) = [built |-> TRUE, files |-> m, entries |-> Bookmarks!Flatten(all),
                            truncated |-> Len(all) > MaxEntries]
  BY DEF Bookmarks!Merge, lists, o
<1> HIDE DEF all
<1> QED
  BY <1>7, <1>8

\* Every step keeps the types of the bookmarks.
LEMMA NextBookTypes ==
    ASSUME BookTypes, [Bookmarks!Next]_bookmarksVars
    PROVE  BookTypes'
<1>1. CASE UNCHANGED <<disk, clock, bookmarksIndex, caller>>
  BY <1>1 DEF BookTypes
<1>2. ASSUME NEW c \in Caller, Bookmarks!Rebuild(c)
      PROVE  BookTypes'
  <2>1. PICK call : caller' = [caller EXCEPT ![c] = [at |-> "stat", call |-> call,
                       old |-> bookmarksIndex.files, todo |-> Bookmarks!Sources,
                       files |-> <<>>, mtime |-> 0]]
    BY <1>2 DEF Bookmarks!Rebuild
  <2> DEFINE w == [at |-> "stat", call |-> call, old |-> bookmarksIndex.files,
                   todo |-> Bookmarks!Sources, files |-> <<>>, mtime |-> 0]
  <2>2. CopiesTyped(<<>>) /\ CopiesTyped(bookmarksIndex.files)
    BY DEF CopiesTyped, BookTypes
  <2>3. Bookmarks!Sources \in SUBSET Profile /\ 0 \in 0 .. Writes
    BY ExtensionsAssumption DEF Bookmarks!Sources
  <2>4. WayTyped(w)
    BY <2>2, <2>3 DEF WayTyped
  <2>5. UNCHANGED <<disk, clock, bookmarksIndex>>
    BY <1>2 DEF Bookmarks!Rebuild
  <2> HIDE DEF w
  <2> QED BY <2>1, <2>4, <2>5, WayKeepsBookTypes DEF w
<1>3. ASSUME NEW c \in Caller, Bookmarks!Publish(c)
      PROVE  BookTypes'
  <2>1. /\ caller[c].at = "stat" /\ UNCHANGED <<disk, clock>>
        /\ bookmarksIndex' = Bookmarks!Merge(caller[c].files)
        /\ caller' = [caller EXCEPT ![c] = Bookmarks!Quiet]
    BY <1>3 DEF Bookmarks!Publish
  <2>2. CopiesTyped(caller[c].files)
    BY <2>1 DEF BookTypes, WayTyped, Bookmarks!Quiet
  <2>3. CopiesTyped(bookmarksIndex'.files) /\ Len(bookmarksIndex'.entries) <= MaxEntries
    BY <2>1, <2>2, MergeTyped
  <2>4. caller' = [d \in Caller |-> caller'[d]] /\ \A d \in Caller : WayTyped(caller'[d])
    BY <2>1 DEF BookTypes, WayTyped
  <2> QED BY <2>1, <2>3, <2>4 DEF BookTypes
<1>4. ASSUME NEW f \in Profile, Bookmarks!BrowserWrites(f)
      PROVE  BookTypes'
  <2>1. PICK new : /\ new \in {Bookmarks!Gone} \cup [mtime : {clock + 1}, text : Bookmarks!Text]
                   /\ disk' = [disk EXCEPT ![f] = new] /\ clock' = clock + 1 /\ clock < Writes
                   /\ UNCHANGED <<bookmarksIndex, caller>>
    BY <1>4 DEF Bookmarks!BrowserWrites
  <2>2. clock' \in 0 .. Writes /\ 0 \in 0 .. Writes
    BY <2>1, ExtensionsAssumption DEF BookTypes
  <2>3. new \in [mtime : 0..Writes, text : Bookmarks!Text]
    <3>1. Bookmarks!Gone \in [mtime : 0..Writes, text : Bookmarks!Text]
      BY <2>2 DEF Bookmarks!Gone, Bookmarks!Text
    <3>2. clock + 1 \in 0 .. Writes
      BY <2>1, <2>2
    <3> HIDE DEF Bookmarks!Text
    <3> QED BY <2>1, <3>1, <3>2
  <2>4. disk' \in [Profile -> [mtime : 0..Writes, text : Bookmarks!Text]]
    BY <2>1, <2>3 DEF BookTypes
  <2> QED BY <2>1, <2>2, <2>4 DEF BookTypes
<1>5. \/ UNCHANGED <<disk, clock, bookmarksIndex, caller>>
      \/ \E c \in Caller : \/ Bookmarks!Rebuild(c) \/ Bookmarks!Stat(c)
                           \/ Bookmarks!Read(c) \/ Bookmarks!Publish(c)
      \/ \E f \in Profile : Bookmarks!BrowserWrites(f)
  BY DEF Bookmarks!Next, Bookmarks!Hit, bookmarksVars
<1> QED
  BY <1>1, <1>2, <1>3, <1>4, <1>5, StatKeepsBookTypes, ReadKeepsBookTypes

\* These are more than TypeOK asks.
LEMMA BooksTyped ==
    ASSUME BookTypes
    PROVE  Bookmarks!TypeOK
<1>1. \A c \in Caller : caller[c].at \in {"out", "stat", "text"}
  BY DEF BookTypes, WayTyped, Bookmarks!Quiet
<1> QED
  BY <1>1 DEF BookTypes, CopiesTyped, Bookmarks!TypeOK

-----------------------------------------------------------------------------
(* All of the types.                                                        *)

\* Beside the invariant of each part, what is left of its types.
ExtensionTypesIInv ==
    /\ part \in {"command", "bookmarks", "web", "apps", "calc", "ipc", "sidecar", "check"}
    /\ part = "command" => ShellTypes /\ IInv
    /\ part = "bookmarks" => BookTypes
    /\ part = "web" => WebTypes /\ WebIInv
    /\ part = "apps" => AppsTypes /\ ListedTypes
    /\ part = "calc" => Calc!TypeOK
    /\ part = "ipc" => IpcTypes /\ IpcIInv
    /\ part = "sidecar" => NumberTypes /\ IconTypes /\ SidecarIInv
    /\ part = "check" => WalkTypes /\ FoundTypes /\ CheckIInv

\* Each part starts within its types ...
LEMMA InitExtensionTypes == ExtensionsInit => ExtensionTypesIInv
<1> SUFFICES ASSUME ExtensionsInit PROVE ExtensionTypesIInv
  OBVIOUS
<1>1. part \in {"command", "bookmarks", "web", "apps", "calc", "ipc", "sidecar", "check"}
  BY DEF ExtensionsInit
<1>2. Init
  BY DEF ExtensionsInit
<1>3. /\ part = "bookmarks" => Bookmarks!Init
      /\ part = "web" => Web!Init
      /\ part = "apps" => Apps!Init
      /\ part = "calc" => Calc!Init
      /\ part = "ipc" => Ipc!Init
      /\ part = "sidecar" => Sidecar!Init
      /\ part = "check" => Check!Init
  BY DEF ExtensionsInit, BookmarksStart, WebStart, AppsStart, CalcStart, IpcStart,
         SidecarStart, CheckStart
<1>4. part = "command" => ShellTypes /\ IInv
  BY <1>2, InitShellTypes, InitIInv
<1>5. part = "bookmarks" => BookTypes
  BY <1>3, InitBookTypes
<1>6. part = "web" => WebTypes /\ WebIInv
  BY <1>3 DEF Web!Init, WebTypes, WebIInv, Web!Config, Web!NoEntry
<1>7. part = "apps" => AppsTypes /\ ListedTypes
  BY <1>3, InitAppsTypes
<1>8. part = "calc" => Calc!TypeOK
  BY <1>3, CalcTypesInit
<1>9. part = "ipc" => IpcTypes /\ IpcIInv
  BY <1>3, InitIpcIInv DEF Ipc!Init, IpcTypes
<1>10. part = "sidecar" => NumberTypes /\ IconTypes /\ SidecarIInv
  BY <1>3, InitNumberTypes, InitSidecarIInv
<1>11. part = "check" => WalkTypes /\ FoundTypes /\ CheckIInv
  BY <1>3, InitCheckTypes, InitCheckIInv
<1> QED
  BY <1>1, <1>4, <1>5, <1>6, <1>7, <1>8, <1>9, <1>10, <1>11 DEF ExtensionTypesIInv

\* ... and stays there.
LEMMA NextExtensionTypes ==
    ASSUME ExtensionTypesIInv, [ExtensionsNext]_extensionsVars
    PROVE  ExtensionTypesIInv'
<1>1. /\ part' = part
      /\ part \in {"command", "bookmarks", "web", "apps", "calc", "ipc", "sidecar", "check"}
  BY DEF ExtensionsNext, extensionsVars, ExtensionTypesIInv
<1>2. /\ part = "command" => [Next]_shellVars
      /\ part = "bookmarks" => [Bookmarks!Next]_bookmarksVars
      /\ part = "web" => [Web!Next]_webVars
      /\ part = "apps" => [Apps!Next]_appsVars
      /\ part = "calc" => [Calc!Next]_calcVars
      /\ part = "ipc" => [Ipc!Next]_ipcVars
      /\ part = "sidecar" => [Sidecar!Next]_sidecarVars
      /\ part = "check" => [Check!Next]_checkVars
  BY DEF ExtensionsNext, extensionsVars, commandVars, shellVars
<1>3. part = "command" => (ShellTypes /\ IInv)'
  BY <1>2, NextShellTypes, NextIInv DEF ExtensionTypesIInv
<1>4. part = "bookmarks" => BookTypes'
  BY <1>2, NextBookTypes DEF ExtensionTypesIInv
<1>5. part = "web" => (WebTypes /\ WebIInv)'
  <2>1. ASSUME WebIInv, [Web!Next]_webVars PROVE WebIInv'
    BY <2>1 DEF Web!Next, Web!Inject, Web!List, Web!Invoke, webVars, WebIInv
  <2> QED BY <1>2, <2>1, NextWebTypes DEF ExtensionTypesIInv
<1>6. part = "apps" => (AppsTypes /\ ListedTypes)'
  BY <1>2, NextAppsTypes DEF ExtensionTypesIInv
<1>7. part = "calc" => Calc!TypeOK'
  BY <1>2, CalcTypesNext DEF ExtensionTypesIInv
<1>8. part = "ipc" => (IpcTypes /\ IpcIInv)'
  BY <1>2, NextIpcTypes, NextIpcIInv DEF ExtensionTypesIInv
<1>9. part = "sidecar" => (NumberTypes /\ IconTypes /\ SidecarIInv)'
  BY <1>2, NextNumberTypes, NextIconTypes, NextSidecarIInv DEF ExtensionTypesIInv
<1>10. part = "check" => (WalkTypes /\ FoundTypes /\ CheckIInv)'
  BY <1>2, NextWalkTypes, NextFoundTypes, NextCheckIInv DEF ExtensionTypesIInv, CheckIInv
<1> QED
  BY <1>1, <1>3, <1>4, <1>5, <1>6, <1>7, <1>8, <1>9, <1>10 DEF ExtensionTypesIInv

\* What the extensions keep, number, list, answer and hand to threads is of the
\* kind its reader takes it for, and within the limits of the code, for all
\* values of these limits, any profiles, programs, engines and files.
THEOREM TypesStayOK == ExtensionsSpec => []ExtensionTypesOK
<1>1. ExtensionTypesIInv => ExtensionTypesOK
  <2> SUFFICES ASSUME ExtensionTypesIInv PROVE ExtensionTypesOK
    OBVIOUS
  <2>1. part = "command" => TypeOK
    BY ShellTyped DEF ExtensionTypesIInv
  <2>2. part = "bookmarks" => Bookmarks!TypeOK
    BY BooksTyped DEF ExtensionTypesIInv
  <2>3. part = "web" => Web!TypeOK
    BY DEF ExtensionTypesIInv, WebTypes, WebIInv, Web!TypeOK
  <2>4. part = "apps" => Apps!TypeOK
    BY DEF ExtensionTypesIInv, AppsTypes, ListedTypes, Apps!TypeOK
  <2>5. part = "ipc" => Ipc!TypeOK
    <3>1. IpcIInv => lame \in Nat
      BY DEF IpcIInv
    <3> QED BY <3>1 DEF ExtensionTypesIInv, IpcTypes, IpcIInv, Ipc!TypeOK
  <2>6. part = "sidecar" => Sidecar!TypeOK
    BY SidecarTyped DEF ExtensionTypesIInv
  <2>7. part = "check" => Check!TypeOK
    BY DEF ExtensionTypesIInv, WalkTypes, FoundTypes, CheckIInv, OnRecord, Check!TypeOK
  <2>8. part \in {"command", "bookmarks", "web", "apps", "calc", "ipc", "sidecar", "check"}
        /\ (part = "calc" => Calc!TypeOK)
    BY DEF ExtensionTypesIInv
  <2> QED
    BY <2>1, <2>2, <2>3, <2>4, <2>5, <2>6, <2>7, <2>8 DEF ExtensionTypesOK
<1> QED
  BY <1>1, InitExtensionTypes, NextExtensionTypes, PTL DEF ExtensionsSpec

-----------------------------------------------------------------------------
(* The calculator (Calc).  Its parser and the meanings are recursive        *)
(* functions: that there is a solution of each is shown first, by counting  *)
(* what is left to do; then the descent is compared with the grammar, cut   *)
(* at the operators outside parentheses.                                    *)

\* What a call of the parser returns, by the calls it makes.
Body(s, h, p) ==
    CASE p.rule = "expr" -> Calc!Expr(s, p, h)
      [] p.rule = "term" -> Calc!Term(s, p, h)
      [] p.rule = "unary" -> Calc!Unary(s, p, h)

\* The calls of the parser, all at once: a solution of the recursive definition.
Parses(s, h) == h = [p \in Calc!Call |-> Body(s, h, p)]

\* Parse is such a solution, if there is one.
LEMMA ParseRuns ==
    ASSUME NEW s, NEW h0, Parses(s, h0)
    PROVE  Parses(s, Calc!Parse(s))
<1> DEFINE Runs(h) == h = [p \in Calc!Call |->
         CASE p.rule = "expr" -> Calc!Expr(s, p, h)
           [] p.rule = "term" -> Calc!Term(s, p, h)
           [] p.rule = "unary" -> Calc!Unary(s, p, h)]
      chosen == CHOOSE h : Runs(h)
<1>1. Runs(h0)
  BY DEF Parses, Body
<1>2. Runs(chosen)
  <2> HIDE DEF Runs
  <2> QED BY <1>1
<1>3. Calc!Parse(s) = chosen
  BY DEF Calc!Parse
<1> HIDE DEF chosen
<1> QED BY <1>2, <1>3 DEF Parses, Body

\* Then each call returns what its body does.
LEMMA ParseAt ==
    ASSUME NEW s, NEW h, Parses(s, h), NEW p \in Calc!Call
    PROVE  h[p] = Body(s, h, p)
<1> HIDE DEF Body
<1> QED BY DEF Parses

-----------------------------------------------------------------------------
(* What the calculator answers (Calc): the grammar, by where it is cut.     *)

\* The instance counts as the library does.
LEMMA CalcCounts == \A S : Calc!Cardinality(S) = Cardinality(S)
  BY DEF Calc!Cardinality, Cardinality

\* How many of the first i tokens are t.
Count(s, t, i) == Cardinality({j \in 1 .. i : s[j] = t})

\* One token more is counted, or is not.
LEMMA CountStep ==
    ASSUME NEW s, NEW t, NEW i \in Nat
    PROVE  /\ Count(s, t, i) \in Nat
           /\ Count(s, t, i + 1) = Count(s, t, i) + IF s[i + 1] = t THEN 1 ELSE 0
<1> DEFINE S == {j \in 1 .. i : s[j] = t}
<1>1. IsFiniteSet(1 .. i) /\ S \in SUBSET (1 .. i)
  BY FS_Interval
<1>2. IsFiniteSet(S) /\ Cardinality(S) \in Nat
  <2> HIDE DEF S
  <2> QED BY <1>1, FS_Subset, FS_CardinalityType
<1>3. CASE s[i + 1] = t
  <2>1. {j \in 1 .. i + 1 : s[j] = t} = S \cup {i + 1} /\ i + 1 \notin S
    BY <1>3
  <2>2. Count(s, t, i) = Cardinality(S) /\ Count(s, t, i + 1) = Cardinality(S \cup {i + 1})
    BY <2>1 DEF Count
  <2> HIDE DEF S
  <2> QED BY <1>2, <1>3, <2>1, <2>2, FS_AddElement
<1>4. CASE s[i + 1] # t
  <2>1. {j \in 1 .. i + 1 : s[j] = t} = S
    <3>1. ASSUME NEW j \in 1 .. i + 1, s[j] = t PROVE j \in 1 .. i
      <4>1. j # i + 1
        BY <1>4, <3>1
      <4> QED BY <4>1
    <3> QED BY <3>1
  <2>2. Count(s, t, i) = Cardinality(S) /\ Count(s, t, i + 1) = Cardinality(S)
    BY <2>1 DEF Count
  <2> HIDE DEF S
  <2> QED BY <1>2, <1>4, <2>2
<1> QED BY <1>3, <1>4

\* A parenthesis opens a level behind it, or closes one.
Opens(t) == IF t = "(" THEN 1 ELSE IF t = ")" THEN -1 ELSE 0

\* The level changes at a parenthesis, by one.
LEMMA LevelStep ==
    ASSUME NEW s, NEW i \in Nat, i >= 1
    PROVE  /\ Calc!Level(s, i) \in Int
           /\ Calc!Level(s, i + 1) = Calc!Level(s, i) + Opens(s[i])
<1>1. PICK k \in Nat : k = i - 1 /\ k + 1 = i /\ (i + 1) - 1 = i
  <2>1. i - 1 \in Nat /\ (i - 1) + 1 = i
    OBVIOUS
  <2> QED BY <2>1
<1>2. Count(s, "(", k) \in Nat /\ Count(s, "(", k + 1) = Count(s, "(", k) + IF s[k + 1] = "(" THEN 1 ELSE 0
  BY CountStep
<1>3. Count(s, ")", k) \in Nat /\ Count(s, ")", k + 1) = Count(s, ")", k) + IF s[k + 1] = ")" THEN 1 ELSE 0
  BY CountStep
<1>4. /\ Calc!Level(s, i) = Count(s, "(", k) - Count(s, ")", k)
      /\ Calc!Level(s, i + 1) = Count(s, "(", i) - Count(s, ")", i)
  BY <1>1, CalcCounts DEF Calc!Level, Count
<1> QED BY <1>1, <1>2, <1>3, <1>4 DEF Opens

\* The tokens from lo on, up to hi, which is no longer one of them.
Span(s, lo, hi) == SubSeq(s, lo, hi - 1)
\* Where a part of the expression can begin and end.
Ends(s, lo, hi) == lo \in Nat /\ hi \in Nat /\ 1 <= lo /\ lo <= hi /\ hi <= Len(s) + 1

\* A part is an expression, with the tokens of the whole.
LEMMA SpanIs ==
    ASSUME NEW s \in Seq(Token), NEW lo, NEW hi, Ends(s, lo, hi)
    PROVE  /\ Span(s, lo, hi) \in Seq(Token)
           /\ Len(Span(s, lo, hi)) = hi - lo
           /\ \A k \in 1 .. hi - lo : Span(s, lo, hi)[k] = s[lo + k - 1]
  BY DEF Ends, Span

\* A part of it.
LEMMA SpanOfSpan ==
    ASSUME NEW s \in Seq(Token), NEW lo, NEW hi, Ends(s, lo, hi),
           NEW i \in Nat, NEW j \in Nat, 1 <= i, i <= j, j <= hi - lo + 1
    PROVE  SubSeq(Span(s, lo, hi), i, j - 1) = Span(s, lo + i - 1, lo + j - 1)
<1> DEFINE w == Span(s, lo, hi)
<1>0. lo \in Nat /\ hi \in Nat /\ 1 <= lo /\ lo <= hi /\ hi <= Len(s) + 1 /\ Len(s) \in Nat
  BY DEF Ends
<1>1. w \in Seq(Token) /\ Len(w) = hi - lo /\ \A k \in 1 .. hi - lo : w[k] = s[lo + k - 1]
  BY SpanIs
<1> HIDE DEF w
<1>2. Ends(s, lo + i - 1, lo + j - 1)
  BY <1>0 DEF Ends
<1>3. /\ Span(s, lo + i - 1, lo + j - 1) \in Seq(Token)
      /\ Len(Span(s, lo + i - 1, lo + j - 1)) = j - i
      /\ \A k \in 1 .. j - i : Span(s, lo + i - 1, lo + j - 1)[k] = s[lo + i + k - 2]
  <2> DEFINE a == lo + i - 1
             b == lo + j - 1
  <2>1. a \in Nat /\ b \in Nat /\ b - a = j - i /\ \A k \in Int : a + k - 1 = lo + i + k - 2
    BY <1>0
  <2> HIDE DEF a, b
  <2>2. Ends(s, a, b)
    BY <1>2 DEF a, b
  <2>3. /\ Span(s, a, b) \in Seq(Token) /\ Len(Span(s, a, b)) = b - a
        /\ \A k \in 1 .. b - a : Span(s, a, b)[k] = s[a + k - 1]
    BY <2>2, SpanIs
  <2>4. \A k \in 1 .. j - i : Span(s, a, b)[k] = s[lo + i + k - 2]
    BY <2>1, <2>3
  <2> QED BY <2>1, <2>3, <2>4 DEF a, b
<1>4. /\ SubSeq(w, i, j - 1) \in Seq(Token) /\ Len(SubSeq(w, i, j - 1)) = j - i
      /\ \A k \in 1 .. j - i : SubSeq(w, i, j - 1)[k] = w[i + k - 1]
  BY <1>1
<1>5. \A k \in 1 .. j - i : w[i + k - 1] = s[lo + i + k - 2]
  <2> SUFFICES ASSUME NEW k \in 1 .. j - i PROVE w[i + k - 1] = s[lo + i + k - 2]
    OBVIOUS
  <2>1. i + k - 1 \in 1 .. hi - lo /\ lo + (i + k - 1) - 1 = lo + i + k - 2
    BY <1>0
  <2> QED BY <1>1, <2>1
<1> DEFINE u == SubSeq(w, i, j - 1)
           v == Span(s, lo + i - 1, lo + j - 1)
<1> HIDE DEF u, v
<1>6. u \in Seq(Token) /\ v \in Seq(Token) /\ Len(u) = Len(v) /\ \A k \in 1 .. Len(u) : u[k] = v[k]
  <2>1. Len(u) = j - i /\ Len(v) = j - i /\ u \in Seq(Token) /\ v \in Seq(Token)
    BY <1>3, <1>4 DEF u, v
  <2>2. \A k \in 1 .. j - i : u[k] = v[k]
    BY <1>3, <1>4, <1>5 DEF u, v
  <2> QED BY <2>1, <2>2
<1>7. u = v
  BY <1>6
<1> QED BY <1>7 DEF u, v, w

\* The levels start at 0.
LEMMA LevelStarts == \A s : Calc!Level(s, 1) = 0
<1> SUFFICES ASSUME NEW s PROVE Calc!Level(s, 1) = 0
  OBVIOUS
<1>1. \A t : {j \in 1 .. 1 - 1 : s[j] = t} = {}
  OBVIOUS
<1>2. Cardinality({}) = 0
  BY FS_EmptySet
<1> QED BY <1>1, <1>2, CalcCounts DEF Calc!Level

\* In a part, the levels count from where it starts.
LEMMA SpanLevel ==
    ASSUME NEW s \in Seq(Token), NEW lo, NEW hi, Ends(s, lo, hi), NEW k \in 1 .. hi - lo + 1
    PROVE  Calc!Level(Span(s, lo, hi), k) = Calc!Level(s, lo + k - 1) - Calc!Level(s, lo)
<1> DEFINE w == Span(s, lo, hi)
           T == {n \in Nat : n + 1 \in 1 .. hi - lo + 1 =>
                    Calc!Level(w, n + 1) = Calc!Level(s, lo + n) - Calc!Level(s, lo)}
<1>0. lo \in Nat /\ hi \in Nat /\ 1 <= lo /\ lo <= hi
  BY DEF Ends
<1>1. \A n \in 1 .. hi - lo : w[n] = s[lo + n - 1]
  BY SpanIs
<1> HIDE DEF w
<1>2. 0 \in T
  <2>1. Calc!Level(w, 1) = 0 /\ Calc!Level(s, lo) \in Int
    BY <1>0, LevelStarts, LevelStep
  <2>2. Calc!Level(w, 0 + 1) = Calc!Level(s, lo + 0) - Calc!Level(s, lo)
    BY <2>1, <1>0
  <2> QED BY <2>2
<1>3. ASSUME NEW n \in Nat, n \in T PROVE n + 1 \in T
  <2> SUFFICES ASSUME (n + 1) + 1 \in 1 .. hi - lo + 1
               PROVE  Calc!Level(w, (n + 1) + 1) = Calc!Level(s, lo + (n + 1)) - Calc!Level(s, lo)
    OBVIOUS
  <2>1. Calc!Level(w, n + 1) = Calc!Level(s, lo + n) - Calc!Level(s, lo)
    BY <1>0, <1>3
  <2>2. w[n + 1] = s[lo + n]
    <3>1. n + 1 \in 1 .. hi - lo /\ lo + (n + 1) - 1 = lo + n
      BY <1>0
    <3> QED BY <1>1, <3>1
  <2>3. Calc!Level(w, (n + 1) + 1) = Calc!Level(w, n + 1) + Opens(w[n + 1])
    BY LevelStep
  <2>4. PICK i \in Nat : i = lo + n /\ i >= 1 /\ i + 1 = lo + (n + 1)
    BY <1>0
  <2>5. /\ Calc!Level(s, i) \in Int /\ Calc!Level(s, lo) \in Int
        /\ Calc!Level(s, i + 1) = Calc!Level(s, i) + Opens(s[i])
    BY <1>0, <2>4, LevelStep
  <2>6. Opens(s[i]) \in Int
    BY DEF Opens
  <2> QED BY <2>1, <2>2, <2>3, <2>4, <2>5, <2>6
<1> HIDE DEF T
<1>4. PICK n \in Nat : n + 1 = k /\ lo + n = lo + k - 1
  <2>1. k - 1 \in Nat /\ (k - 1) + 1 = k /\ lo + (k - 1) = lo + k - 1
    BY <1>0
  <2> QED BY <2>1
<1>5. n \in T
  BY <1>2, <1>3, NatInd
<1> QED BY <1>4, <1>5 DEF T, w

\* The operators, from the loosest to the tightest.
Sums == {"+", "-"}
Products == {"*", "/"}
Powers == {"^"}

\* Where a part can be cut.
Within(s, lo, hi, ops) ==
    {i \in lo + 1 .. hi - 1 : /\ s[i] \in ops /\ s[i - 1] \in {"n", ")"}
                              /\ Calc!Level(s, i) = Calc!Level(s, lo)}

\* A part can be cut where the whole can, at the level of its start.
LEMMA SpanCuts ==
    ASSUME NEW s \in Seq(Token), NEW lo, NEW hi, Ends(s, lo, hi), NEW ops
    PROVE  /\ \A k \in Calc!Cuts(Span(s, lo, hi), ops) :
                 k \in 2 .. hi - lo /\ lo + k - 1 \in Within(s, lo, hi, ops)
           /\ \A i \in Within(s, lo, hi, ops) :
                 i - lo + 1 \in Calc!Cuts(Span(s, lo, hi), ops)
<1> DEFINE w == Span(s, lo, hi)
<1>0. lo \in Nat /\ hi \in Nat /\ 1 <= lo /\ lo <= hi /\ Calc!Level(s, lo) \in Int
  BY LevelStep DEF Ends
<1>1. Len(w) = hi - lo /\ \A n \in 1 .. hi - lo : w[n] = s[lo + n - 1]
  BY SpanIs
<1>2. \A k \in 1 .. hi - lo + 1 : Calc!Level(w, k) = Calc!Level(s, lo + k - 1) - Calc!Level(s, lo)
  BY SpanLevel
<1> HIDE DEF w
<1>3. ASSUME NEW k \in 2 .. hi - lo
      PROVE  /\ lo + k - 1 \in lo + 1 .. hi - 1
             /\ w[k] = s[lo + k - 1] /\ w[k - 1] = s[lo + k - 1 - 1]
             /\ (Calc!Level(w, k) = 0 <=> Calc!Level(s, lo + k - 1) = Calc!Level(s, lo))
  <2>1. lo + k - 1 \in lo + 1 .. hi - 1 /\ lo + k - 1 \in Nat /\ lo + k - 1 >= 1
        /\ k \in 1 .. hi - lo /\ k - 1 \in 1 .. hi - lo /\ lo + (k - 1) - 1 = lo + k - 1 - 1
        /\ k \in 1 .. hi - lo + 1
    BY <1>0
  <2>2. Calc!Level(s, lo + k - 1) \in Int
    BY <2>1, LevelStep
  <2>3. Calc!Level(w, k) = Calc!Level(s, lo + k - 1) - Calc!Level(s, lo)
    BY <1>2, <2>1
  <2>4. w[k] = s[lo + k - 1] /\ w[k - 1] = s[lo + k - 1 - 1]
    BY <1>1, <2>1
  <2> QED BY <1>0, <2>1, <2>2, <2>3, <2>4
<1>4. ASSUME NEW k \in Calc!Cuts(w, ops)
      PROVE  k \in 2 .. hi - lo /\ lo + k - 1 \in Within(s, lo, hi, ops)
  <2>1. k \in 2 .. hi - lo /\ w[k] \in ops /\ w[k - 1] \in {"n", ")"} /\ Calc!Level(w, k) = 0
    BY <1>1, <1>4 DEF Calc!Cuts
  <2>2. PICK i \in lo + 1 .. hi - 1 : i = lo + k - 1
    BY <1>3, <2>1
  <2>3. w[k] = s[i] /\ w[k - 1] = s[i - 1] /\ Calc!Level(s, i) = Calc!Level(s, lo)
    <3>1. lo + k - 1 - 1 = i - 1
      BY <1>0, <2>1, <2>2
    <3>2. w[k] = s[lo + k - 1] /\ w[k - 1] = s[lo + k - 1 - 1]
          /\ (Calc!Level(w, k) = 0 <=> Calc!Level(s, lo + k - 1) = Calc!Level(s, lo))
      BY <1>3, <2>1
    <3> QED BY <2>1, <2>2, <3>1, <3>2
  <2>4. i \in Within(s, lo, hi, ops)
    BY <2>1, <2>3 DEF Within
  <2> QED BY <2>1, <2>2, <2>4
<1>5. ASSUME NEW i \in Within(s, lo, hi, ops)
      PROVE  i - lo + 1 \in Calc!Cuts(w, ops)
  <2>1. /\ i \in lo + 1 .. hi - 1 /\ s[i] \in ops /\ s[i - 1] \in {"n", ")"}
        /\ Calc!Level(s, i) = Calc!Level(s, lo)
    BY <1>5 DEF Within
  <2>2. PICK k \in 2 .. hi - lo : k = i - lo + 1 /\ lo + k - 1 = i
    <3>1. i - lo + 1 \in 2 .. hi - lo /\ lo + (i - lo + 1) - 1 = i
      BY <1>0, <2>1
    <3> QED BY <3>1
  <2>3. w[k] = s[i] /\ w[k - 1] = s[i - 1] /\ Calc!Level(w, k) = 0
    <3>1. w[k] = s[lo + k - 1] /\ w[k - 1] = s[lo + k - 1 - 1]
          /\ (Calc!Level(w, k) = 0 <=> Calc!Level(s, lo + k - 1) = Calc!Level(s, lo))
      BY <1>3
    <3>2. k \in Int /\ i \in Int /\ lo + k - 1 - 1 = i - 1
      BY <1>0, <2>1, <2>2
    <3> QED BY <2>1, <2>2, <3>1, <3>2
  <2>4. k \in 2 .. Len(w)
    BY <1>1, <2>2
  <2> QED BY <2>1, <2>2, <2>3, <2>4 DEF Calc!Cuts
<1> QED BY <1>4, <1>5 DEF w

\* The last cut and the first are cuts.
LEMMA LastIs ==
    ASSUME NEW S, S \subseteq Int, NEW i \in S
    PROVE  /\ (\A j \in S : j <= i) => Calc!LastOf(S) = i
           /\ (\A j \in S : i <= j) => Calc!FirstOf(S) = i
<1>1. ASSUME \A j \in S : j <= i PROVE Calc!LastOf(S) = i
  <2>1. \A k \in S : (\A j \in S : j <= k) => k = i
    BY <1>1
  <2> DEFINE last == CHOOSE k \in S : \A j \in S : j <= k
  <2>2. last \in S /\ \A j \in S : j <= last
    BY <1>1
  <2>3. Calc!LastOf(S) = last
    BY DEF Calc!LastOf
  <2> HIDE DEF last
  <2> QED BY <2>1, <2>2, <2>3
<1>2. ASSUME \A j \in S : i <= j PROVE Calc!FirstOf(S) = i
  <2>1. \A k \in S : (\A j \in S : k <= j) => k = i
    BY <1>2
  <2> DEFINE first == CHOOSE k \in S : \A j \in S : k <= j
  <2>2. first \in S /\ \A j \in S : first <= j
    BY <1>2
  <2>3. Calc!FirstOf(S) = first
    BY DEF Calc!FirstOf
  <2> HIDE DEF first
  <2> QED BY <2>1, <2>2, <2>3
<1> QED BY <1>1, <1>2

\* A bounded set that is not empty has a last member and a first.
LEMMA LastExists ==
    ASSUME NEW S, NEW m \in Nat, NEW n \in Nat, S \subseteq m .. n, S # {}
    PROVE  /\ \E i \in S : \A j \in S : j <= i
           /\ \E i \in S : \A j \in S : i <= j
<1>1. S \subseteq Nat
  OBVIOUS
<1>2. \E i \in S : \A j \in S : i <= j
  BY <1>1, LeastNat
<1>3. \E i \in S : \A j \in S : j <= i
  <2> DEFINE T == {n - i : i \in S}
  <2>1. T \subseteq Nat /\ T # {}
    OBVIOUS
  <2>2. PICK k \in T : \A j \in T : k <= j
    BY <2>1, LeastNat
  <2>3. PICK i \in S : k = n - i
    BY <2>2
  <2>4. ASSUME NEW j \in S PROVE j <= i
    <3>1. n - j \in T
      OBVIOUS
    <3>2. n - i <= n - j /\ i \in Nat /\ j \in Nat
      BY <1>1, <2>2, <2>3, <3>1
    <3> QED BY <3>2
  <2> QED BY <2>4
<1> QED BY <1>2, <1>3

\* What an expression means, by what its parts mean.
Meant(h, s) ==
    LET lhs(i) == h[SubSeq(s, 1, i - 1)]
        rhs(i) == h[SubSeq(s, i + 1, Len(s))]
        sums == Calc!Cuts(s, {"+", "-"})
        products == Calc!Cuts(s, {"*", "/"})
        powers == Calc!Cuts(s, {"^"})
    IN CASE s = <<>> -> Calc!Wrong
         [] sums # {} ->
              Calc!Node(s[Calc!LastOf(sums)], lhs(Calc!LastOf(sums)), rhs(Calc!LastOf(sums)))
         [] sums = {} /\ products # {} ->
              Calc!Node(s[Calc!LastOf(products)], lhs(Calc!LastOf(products)),
                        rhs(Calc!LastOf(products)))
         [] sums = {} /\ products = {} /\ s # <<>> /\ s[1] \in {"+", "-"} ->
              LET m == rhs(1)
              IN IF m = Calc!Wrong THEN Calc!Wrong ELSE IF s[1] = "-" THEN <<"neg", m>> ELSE m
         [] sums = {} /\ products = {} /\ s # <<>> /\ s[1] \notin {"+", "-"} /\ powers # {} ->
              Calc!Node("^", lhs(Calc!FirstOf(powers)), rhs(Calc!FirstOf(powers)))
         [] sums \cup products \cup powers = {} /\ s # <<>> /\ s[1] \notin {"+", "-"} ->
              IF s = <<"n">> THEN <<"n">>
              ELSE IF s[1] = "(" /\ s[Len(s)] = ")" THEN h[SubSeq(s, 2, Len(s) - 1)]
              ELSE Calc!Wrong

\* The meanings, all at once: a solution of the recursive definition.
Means(h) == h = [s \in Seq(Token) |-> Meant(h, s)]

\* Meaning is such a solution, if there is one.
LEMMA MeaningRuns ==
    ASSUME NEW h0, Means(h0)
    PROVE  Means(Calc!Meaning)
<1> DEFINE chosen == CHOOSE h : Means(h)
<1>1. Means(chosen)
  <2> HIDE DEF Means
  <2> QED OBVIOUS
<1>2. Calc!Meaning = chosen
  BY DEF Calc!Meaning, Means, Meant
<1> QED BY <1>1, <1>2

\* Then each meaning follows from those of the parts.
LEMMA MeansAt ==
    ASSUME NEW h, Means(h), NEW s \in Seq(Token)
    PROVE  h[s] = Meant(h, s)
<1> HIDE DEF Meant
<1> QED BY DEF Means

\* Parts are shorter.
LEMMA PartsAreShorter ==
    ASSUME NEW s \in Seq(Token), NEW i \in 1 .. Len(s)
    PROVE  /\ SubSeq(s, 1, i - 1) \in Seq(Token) /\ Len(SubSeq(s, 1, i - 1)) < Len(s)
           /\ SubSeq(s, i + 1, Len(s)) \in Seq(Token) /\ Len(SubSeq(s, i + 1, Len(s))) < Len(s)
           /\ SubSeq(s, 2, Len(s) - 1) \in Seq(Token) /\ Len(SubSeq(s, 2, Len(s) - 1)) < Len(s)
<1>1. i \in Nat /\ Len(s) \in Nat /\ 1 <= i /\ i <= Len(s)
  OBVIOUS
<1>2. SubSeq(s, 1, i - 1) \in Seq(Token) /\ Len(SubSeq(s, 1, i - 1)) < Len(s)
  BY <1>1
<1>3. SubSeq(s, i + 1, Len(s)) \in Seq(Token) /\ Len(SubSeq(s, i + 1, Len(s))) < Len(s)
  BY <1>1
<1>4. SubSeq(s, 2, Len(s) - 1) \in Seq(Token) /\ Len(SubSeq(s, 2, Len(s) - 1)) < Len(s)
  BY <1>1
<1> QED BY <1>2, <1>3, <1>4

\* A cut is in the expression, and so are the last and the first.
LEMMA CutsAreIn ==
    ASSUME NEW s \in Seq(Token), NEW ops
    PROVE  /\ Calc!Cuts(s, ops) \subseteq 2 .. Len(s)
           /\ Calc!Cuts(s, ops) # {} => /\ Calc!LastOf(Calc!Cuts(s, ops)) \in 2 .. Len(s)
                                        /\ Calc!FirstOf(Calc!Cuts(s, ops)) \in 2 .. Len(s)
<1> DEFINE S == Calc!Cuts(s, ops)
<1>1. S \subseteq 2 .. Len(s) /\ Len(s) \in Nat
  BY DEF Calc!Cuts
<1> HIDE DEF S
<1>2. ASSUME S # {} PROVE Calc!LastOf(S) \in S /\ Calc!FirstOf(S) \in S
  <2>1. PICK i \in S : \A j \in S : j <= i
    BY <1>1, <1>2, LastExists
  <2>2. PICK k \in S : \A j \in S : k <= j
    BY <1>1, <1>2, LastExists
  <2>3. S \subseteq Int
    BY <1>1
  <2>4. Calc!LastOf(S) = i
    BY <2>1, <2>3, LastIs
  <2>5. Calc!FirstOf(S) = k
    BY <2>2, <2>3, LastIs
  <2> QED BY <2>4, <2>5
<1> QED BY <1>1, <1>2 DEF S

\* A meaning depends on those of shorter expressions alone.
LEMMA MeantAgrees ==
    ASSUME NEW s \in Seq(Token), NEW h, NEW h2,
           \A w \in Seq(Token) : Len(w) < Len(s) => h[w] = h2[w]
    PROVE  Meant(h, s) = Meant(h2, s)
<1> DEFINE Lhs(f, i) == f[SubSeq(s, 1, i - 1)]
           Rhs(f, i) == f[SubSeq(s, i + 1, Len(s))]
           sums == Calc!Cuts(s, {"+", "-"})
           products == Calc!Cuts(s, {"*", "/"})
           powers == Calc!Cuts(s, {"^"})
<1>1. \A i \in 1 .. Len(s) : Lhs(h, i) = Lhs(h2, i) /\ Rhs(h, i) = Rhs(h2, i)
  BY PartsAreShorter
<1>2. s # <<>> => h[SubSeq(s, 2, Len(s) - 1)] = h2[SubSeq(s, 2, Len(s) - 1)]
  <2>1. s # <<>> => 1 \in 1 .. Len(s)
    OBVIOUS
  <2> QED BY <2>1, PartsAreShorter
<1>3. /\ sums # {} => Calc!LastOf(sums) \in 1 .. Len(s)
      /\ products # {} => Calc!LastOf(products) \in 1 .. Len(s)
      /\ powers # {} => Calc!FirstOf(powers) \in 1 .. Len(s)
      /\ s # <<>> => 1 \in 1 .. Len(s)
  BY CutsAreIn
<1> DEFINE M(f) ==
      CASE s = <<>> -> Calc!Wrong
         [] sums # {} ->
              Calc!Node(s[Calc!LastOf(sums)], Lhs(f, Calc!LastOf(sums)), Rhs(f, Calc!LastOf(sums)))
         [] sums = {} /\ products # {} ->
              Calc!Node(s[Calc!LastOf(products)], Lhs(f, Calc!LastOf(products)),
                        Rhs(f, Calc!LastOf(products)))
         [] sums = {} /\ products = {} /\ s # <<>> /\ s[1] \in {"+", "-"} ->
              LET m == Rhs(f, 1)
              IN IF m = Calc!Wrong THEN Calc!Wrong ELSE IF s[1] = "-" THEN <<"neg", m>> ELSE m
         [] sums = {} /\ products = {} /\ s # <<>> /\ s[1] \notin {"+", "-"} /\ powers # {} ->
              Calc!Node("^", Lhs(f, Calc!FirstOf(powers)), Rhs(f, Calc!FirstOf(powers)))
         [] sums \cup products \cup powers = {} /\ s # <<>> /\ s[1] \notin {"+", "-"} ->
              IF s = <<"n">> THEN <<"n">>
              ELSE IF s[1] = "(" /\ s[Len(s)] = ")" THEN f[SubSeq(s, 2, Len(s) - 1)]
              ELSE Calc!Wrong
<1>4. Meant(h, s) = M(h) /\ Meant(h2, s) = M(h2)
  BY DEF Meant
<1> HIDE DEF Lhs, Rhs, sums, products, powers
<1>5. M(h) = M(h2)
  BY <1>1, <1>2, <1>3
<1> QED BY <1>4, <1>5

\* The meanings of expressions of fewer than n tokens.
MeansBelow(h, n) == \A s \in Seq(Token) : Len(s) < n => h[s] = Meant(h, s)

\* There are meanings for the expressions up to any length.
LEMMA MeaningBelow == \A n \in Nat : \E h : MeansBelow(h, n)
<1> DEFINE T == {n \in Nat : \E h : MeansBelow(h, n)}
<1>1. 0 \in T
  <2> DEFINE h0 == [s \in Seq(Token) |-> <<>>]
  <2>1. MeansBelow(h0, 0)
    BY DEF MeansBelow
  <2> HIDE DEF h0
  <2> QED BY <2>1
<1>2. ASSUME NEW n \in Nat, n \in T PROVE n + 1 \in T
  <2>1. PICK h : MeansBelow(h, n)
    BY <1>2
  <2> DEFINE h2 == [s \in Seq(Token) |-> Meant(h, s)]
  <2>2. \A s \in Seq(Token) : h2[s] = Meant(h, s)
    <3> HIDE DEF Meant
    <3> QED OBVIOUS
  <2> HIDE DEF h2
  <2>3. \A w \in Seq(Token) : Len(w) < n => h[w] = h2[w]
    BY <2>1, <2>2 DEF MeansBelow
  <2>4. MeansBelow(h2, n + 1)
    <3> SUFFICES ASSUME NEW s \in Seq(Token), Len(s) < n + 1 PROVE h2[s] = Meant(h2, s)
      BY DEF MeansBelow
    <3>1. \A w \in Seq(Token) : Len(w) < Len(s) => h[w] = h2[w]
      BY <2>3
    <3>2. Meant(h, s) = Meant(h2, s)
      BY <3>1, MeantAgrees
    <3> QED BY <2>2, <3>2
  <2> QED BY <2>4
<1> HIDE DEF T
<1>3. Nat \subseteq T
  BY <1>1, <1>2, NatInd
<1> QED BY <1>3 DEF T

\* And there is only one choice of them.
LEMMA MeaningsAgree ==
    ASSUME NEW n \in Nat, NEW h, MeansBelow(h, n), NEW h2, MeansBelow(h2, n)
    PROVE  \A s \in Seq(Token) : Len(s) < n => h[s] = h2[s]
<1> DEFINE T == {m \in Nat : \A s \in Seq(Token) : Len(s) < m /\ Len(s) < n => h[s] = h2[s]}
<1>1. 0 \in T
  OBVIOUS
<1>2. ASSUME NEW m \in Nat, m \in T PROVE m + 1 \in T
  <2> SUFFICES ASSUME NEW s \in Seq(Token), Len(s) < m + 1, Len(s) < n PROVE h[s] = h2[s]
    OBVIOUS
  <2>1. \A w \in Seq(Token) : Len(w) < Len(s) => h[w] = h2[w]
    BY <1>2
  <2>2. Meant(h, s) = Meant(h2, s)
    BY <2>1, MeantAgrees
  <2>3. h[s] = Meant(h, s) /\ h2[s] = Meant(h2, s)
    BY DEF MeansBelow
  <2> QED BY <2>2, <2>3
<1> HIDE DEF T
<1>3. n \in T
  BY <1>1, <1>2, NatInd
<1> QED BY <1>3 DEF T

\* Every expression has its meaning.
LEMMA MeaningIs == \A s \in Seq(Token) : Calc!Meaning[s] = Meant(Calc!Meaning, s)
<1> DEFINE below(n) == CHOOSE h : MeansBelow(h, n)
           h0 == [s \in Seq(Token) |-> below(Len(s) + 1)[s]]
<1>1. \A n \in Nat : MeansBelow(below(n), n)
  BY MeaningBelow
<1> HIDE DEF below
<1>2. \A s \in Seq(Token) : h0[s] = below(Len(s) + 1)[s]
  OBVIOUS
<1>3. h0 = [s \in Seq(Token) |-> h0[s]]
  OBVIOUS
<1> HIDE DEF h0
<1>4. ASSUME NEW s \in Seq(Token) PROVE h0[s] = Meant(h0, s)
  <2> DEFINE n == Len(s) + 1
             hn == below(n)
  <2>1. n \in Nat /\ MeansBelow(hn, n) /\ h0[s] = hn[s] /\ Len(s) < n
    BY <1>1, <1>2
  <2>2. ASSUME NEW w \in Seq(Token), Len(w) < Len(s) PROVE hn[w] = h0[w]
    <3> DEFINE m == Len(w) + 1
               hm == below(m)
    <3>1. m \in Nat /\ MeansBelow(hm, m) /\ h0[w] = hm[w] /\ m <= n /\ Len(w) < m
      BY <1>1, <1>2, <2>2
    <3> HIDE DEF hn, hm, m, n
    <3>2. MeansBelow(hn, m)
      BY <2>1, <3>1 DEF MeansBelow
    <3>3. hn[w] = hm[w]
      BY <3>1, <3>2, MeaningsAgree
    <3> QED BY <3>1, <3>3
  <2> HIDE DEF hn, n
  <2>3. Meant(hn, s) = Meant(h0, s)
    BY <2>2, MeantAgrees
  <2>4. hn[s] = Meant(hn, s)
    BY <2>1 DEF MeansBelow
  <2> QED BY <2>1, <2>3, <2>4
<1>5. Means(h0)
  <2> HIDE DEF Meant
  <2>1. [s \in Seq(Token) |-> h0[s]] = [s \in Seq(Token) |-> Meant(h0, s)]
    BY <1>4
  <2> QED BY <1>3, <2>1 DEF Means
<1>6. Means(Calc!Meaning)
  BY <1>5, MeaningRuns
<1> QED BY <1>6, MeansAt

\* The meaning of a part.
Mean(s, lo, hi) == Calc!Meaning[Span(s, lo, hi)]

\* A cut leaves a part on each side.
LEMMA CutSpan ==
    ASSUME NEW s \in Seq(Token), NEW lo, NEW hi, Ends(s, lo, hi), NEW i \in lo .. hi - 1,
           NEW k \in 1 .. hi - lo, k = i - lo + 1
    PROVE  /\ Span(s, lo, hi)[k] = s[i]
           /\ Calc!Meaning[SubSeq(Span(s, lo, hi), 1, k - 1)] = Mean(s, lo, i)
           /\ Calc!Meaning[SubSeq(Span(s, lo, hi), k + 1, Len(Span(s, lo, hi)))]
                = Mean(s, i + 1, hi)
<1> DEFINE w == Span(s, lo, hi)
<1>0. lo \in Nat /\ hi \in Nat /\ 1 <= lo /\ lo <= hi
  BY DEF Ends
<1>1. Len(w) = hi - lo /\ \A n \in 1 .. hi - lo : w[n] = s[lo + n - 1]
  BY SpanIs
<1>2. SubSeq(w, 1, k - 1) = Span(s, lo, i)
  <2> DEFINE m == 1
  <2>1. m \in Nat /\ k \in Nat /\ 1 <= m /\ m <= k /\ k <= hi - lo + 1
    BY <1>0
  <2>2. lo + m - 1 = lo /\ lo + k - 1 = i
    BY <1>0
  <2> HIDE DEF m, w
  <2>3. SubSeq(w, m, k - 1) = Span(s, lo + m - 1, lo + k - 1)
    BY <2>1, SpanOfSpan DEF w
  <2>4. SubSeq(w, m, k - 1) = Span(s, lo, i)
    BY <2>2, <2>3
  <2> QED BY <2>4 DEF m
<1>3. SubSeq(w, k + 1, Len(w)) = Span(s, i + 1, hi)
  <2> DEFINE m == k + 1
             n == hi - lo + 1
  <2>1. m \in Nat /\ n \in Nat /\ 1 <= m /\ m <= n /\ n <= hi - lo + 1
    BY <1>0
  <2>2. lo + m - 1 = i + 1 /\ lo + n - 1 = hi /\ n - 1 = hi - lo
    BY <1>0
  <2> HIDE DEF m, n, w
  <2>3. SubSeq(w, m, n - 1) = Span(s, lo + m - 1, lo + n - 1)
    BY <2>1, SpanOfSpan DEF w
  <2>4. SubSeq(w, m, Len(w)) = Span(s, i + 1, hi)
    BY <1>1, <2>2, <2>3
  <2> QED BY <2>4 DEF m
<1>4. w[k] = s[i]
  <2>1. lo + k - 1 = i
    BY <1>0
  <2> QED BY <1>1, <2>1
<1> QED BY <1>2, <1>3, <1>4 DEF Mean, w

\* The cuts of a part, and its last and its first.
LEMMA CutsOfSpan ==
    ASSUME NEW s \in Seq(Token), NEW lo, NEW hi, Ends(s, lo, hi), NEW ops
    PROVE  /\ Calc!Cuts(Span(s, lo, hi), ops) = {} <=> Within(s, lo, hi, ops) = {}
           /\ \A i \in Within(s, lo, hi, ops) :
                /\ i \in lo .. hi - 1 /\ i - lo + 1 \in 1 .. hi - lo
                /\ (\A j \in Within(s, lo, hi, ops) : j <= i) =>
                     Calc!LastOf(Calc!Cuts(Span(s, lo, hi), ops)) = i - lo + 1
                /\ (\A j \in Within(s, lo, hi, ops) : i <= j) =>
                     Calc!FirstOf(Calc!Cuts(Span(s, lo, hi), ops)) = i - lo + 1
<1> DEFINE C == Calc!Cuts(Span(s, lo, hi), ops)
           W == Within(s, lo, hi, ops)
<1>0. lo \in Nat /\ hi \in Nat /\ 1 <= lo /\ lo <= hi
  BY DEF Ends
<1>1. /\ \A k \in C : k \in 2 .. hi - lo /\ lo + k - 1 \in W
      /\ \A i \in W : i - lo + 1 \in C
  BY SpanCuts
<1>2. \A i \in W : i \in lo + 1 .. hi - 1
  BY DEF Within
<1> HIDE DEF C, W
<1>3. ASSUME NEW i \in W
      PROVE  /\ (\A j \in W : j <= i) => Calc!LastOf(C) = i - lo + 1
             /\ (\A j \in W : i <= j) => Calc!FirstOf(C) = i - lo + 1
  <2> DEFINE n == i - lo + 1
  <2>1. C \subseteq Int /\ n \in C
    BY <1>1
  <2>2. ASSUME \A j \in W : j <= i PROVE \A k \in C : k <= n
    <3> SUFFICES ASSUME NEW k \in C PROVE k <= n
      OBVIOUS
    <3>1. lo + k - 1 <= i /\ k \in Int /\ i \in Int
      BY <1>1, <1>2, <2>2
    <3> QED BY <1>0, <3>1
  <2>3. ASSUME \A j \in W : i <= j PROVE \A k \in C : n <= k
    <3> SUFFICES ASSUME NEW k \in C PROVE n <= k
      OBVIOUS
    <3>1. i <= lo + k - 1 /\ k \in Int /\ i \in Int
      BY <1>1, <1>2, <2>3
    <3> QED BY <1>0, <3>1
  <2> HIDE DEF n
  <2>4. /\ (\A j \in W : j <= i) => Calc!LastOf(C) = n
        /\ (\A j \in W : i <= j) => Calc!FirstOf(C) = n
    BY <2>1, <2>2, <2>3, LastIs
  <2> QED BY <2>4 DEF n
<1>4. C = {} <=> W = {}
  BY <1>1
<1>5. \A i \in W : i \in lo .. hi - 1 /\ i - lo + 1 \in 1 .. hi - lo
  BY <1>0, <1>2
<1> QED BY <1>3, <1>4, <1>5 DEF C, W

\* What a part means, rule by rule.  An empty one means nothing.
LEMMA MeanEmpty ==
    ASSUME NEW s \in Seq(Token), NEW lo, Ends(s, lo, lo)
    PROVE  Mean(s, lo, lo) = Calc!Wrong
<1> DEFINE w == Span(s, lo, lo)
<1>0. lo - lo = 0
  BY DEF Ends
<1>1. w \in Seq(Token) /\ Len(w) = 0
  BY <1>0, SpanIs
<1> HIDE DEF w
<1>2. w = <<>> /\ Calc!Meaning[w] = Meant(Calc!Meaning, w)
  <2>1. w = <<>>
    BY <1>1
  <2>2. Calc!Meaning[w] = Meant(Calc!Meaning, w)
    BY <1>1, MeaningIs
  <2> QED BY <2>1, <2>2
<1>3. Calc!Cuts(w, Sums) = {} /\ Calc!Cuts(w, Products) = {}
  <2>1. \A ops : Calc!Cuts(w, ops) \subseteq 2 .. 0
    BY <1>1, CutsAreIn
  <2> QED BY <2>1
<1> QED BY <1>2, <1>3 DEF Meant, Mean, w, Sums, Products

\* At the last + or - outside parentheses.
LEMMA MeanSum ==
    ASSUME NEW s \in Seq(Token), NEW lo, NEW hi, Ends(s, lo, hi),
           NEW i \in Within(s, lo, hi, Sums), \A j \in Within(s, lo, hi, Sums) : j <= i
    PROVE  Mean(s, lo, hi) = Calc!Node(s[i], Mean(s, lo, i), Mean(s, i + 1, hi))
<1> DEFINE w == Span(s, lo, hi)
           k == i - lo + 1
           h == Calc!Meaning
<1>1. w \in Seq(Token) /\ Len(w) = hi - lo /\ h[w] = Meant(h, w)
  BY SpanIs, MeaningIs
<1>2. Calc!Cuts(w, Sums) # {} /\ Calc!LastOf(Calc!Cuts(w, Sums)) = k /\ i \in lo .. hi - 1
      /\ k \in 1 .. hi - lo
  BY CutsOfSpan
<1>3. w # <<>>
  BY <1>1, <1>2, CutsAreIn
<1>4. /\ w[k] = s[i] /\ h[SubSeq(w, 1, k - 1)] = Mean(s, lo, i)
      /\ h[SubSeq(w, k + 1, Len(w))] = Mean(s, i + 1, hi)
  BY <1>2, CutSpan
<1> HIDE DEF w, k, h
<1>5. Meant(h, w) = Calc!Node(w[k], h[SubSeq(w, 1, k - 1)], h[SubSeq(w, k + 1, Len(w))])
  BY <1>2, <1>3 DEF Meant, Sums
<1> QED BY <1>1, <1>4, <1>5 DEF Mean, w, h

\* Else at the last * or /.
LEMMA MeanProduct ==
    ASSUME NEW s \in Seq(Token), NEW lo, NEW hi, Ends(s, lo, hi), Within(s, lo, hi, Sums) = {},
           NEW i \in Within(s, lo, hi, Products), \A j \in Within(s, lo, hi, Products) : j <= i
    PROVE  Mean(s, lo, hi) = Calc!Node(s[i], Mean(s, lo, i), Mean(s, i + 1, hi))
<1> DEFINE w == Span(s, lo, hi)
           k == i - lo + 1
           h == Calc!Meaning
<1>1. w \in Seq(Token) /\ Len(w) = hi - lo /\ h[w] = Meant(h, w)
  BY SpanIs, MeaningIs
<1>2. /\ Calc!Cuts(w, Products) # {} /\ Calc!LastOf(Calc!Cuts(w, Products)) = k
      /\ i \in lo .. hi - 1 /\ k \in 1 .. hi - lo /\ Calc!Cuts(w, Sums) = {}
  BY CutsOfSpan
<1>3. w # <<>>
  BY <1>1, <1>2, CutsAreIn
<1>4. /\ w[k] = s[i] /\ h[SubSeq(w, 1, k - 1)] = Mean(s, lo, i)
      /\ h[SubSeq(w, k + 1, Len(w))] = Mean(s, i + 1, hi)
  BY <1>2, CutSpan
<1> HIDE DEF w, k, h
<1>5. Meant(h, w) = Calc!Node(w[k], h[SubSeq(w, 1, k - 1)], h[SubSeq(w, k + 1, Len(w))])
  BY <1>2, <1>3 DEF Meant, Sums, Products
<1> QED BY <1>1, <1>4, <1>5 DEF Mean, w, h

\* Else behind a sign.
LEMMA MeanSign ==
    ASSUME NEW s \in Seq(Token), NEW lo, NEW hi, Ends(s, lo, hi), lo < hi,
           Within(s, lo, hi, Sums) = {}, Within(s, lo, hi, Products) = {}, s[lo] \in Sums
    PROVE  Mean(s, lo, hi) = IF Mean(s, lo + 1, hi) = Calc!Wrong THEN Calc!Wrong
                             ELSE IF s[lo] = "-" THEN <<"neg", Mean(s, lo + 1, hi)>>
                             ELSE Mean(s, lo + 1, hi)
<1> DEFINE w == Span(s, lo, hi)
           h == Calc!Meaning
<1>0. lo \in Nat /\ hi \in Nat /\ 1 <= lo /\ lo < hi
  BY DEF Ends
<1>1. w \in Seq(Token) /\ Len(w) = hi - lo /\ h[w] = Meant(h, w)
  BY SpanIs, MeaningIs
<1>2. Calc!Cuts(w, Sums) = {} /\ Calc!Cuts(w, Products) = {}
  BY CutsOfSpan
<1>3. w # <<>>
  BY <1>0, <1>1
<1>4. w[1] = s[lo] /\ h[SubSeq(w, 1 + 1, Len(w))] = Mean(s, lo + 1, hi)
  <2>1. lo \in lo .. hi - 1 /\ 1 \in 1 .. hi - lo /\ 1 = lo - lo + 1
    BY <1>0
  <2> QED BY <2>1, CutSpan
<1> HIDE DEF w, h
<1>5. Meant(h, w) = LET m == h[SubSeq(w, 1 + 1, Len(w))]
                    IN IF m = Calc!Wrong THEN Calc!Wrong ELSE IF w[1] = "-" THEN <<"neg", m>> ELSE m
  BY <1>2, <1>3, <1>4 DEF Meant, Sums, Products
<1> QED BY <1>1, <1>4, <1>5 DEF Mean, w, h

\* Else at the first ^.
LEMMA MeanPower ==
    ASSUME NEW s \in Seq(Token), NEW lo, NEW hi, Ends(s, lo, hi), lo < hi,
           Within(s, lo, hi, Sums) = {}, Within(s, lo, hi, Products) = {}, s[lo] \notin Sums,
           NEW i \in Within(s, lo, hi, Powers), \A j \in Within(s, lo, hi, Powers) : i <= j
    PROVE  Mean(s, lo, hi) = Calc!Node("^", Mean(s, lo, i), Mean(s, i + 1, hi))
<1> DEFINE w == Span(s, lo, hi)
           k == i - lo + 1
           h == Calc!Meaning
<1>0. lo \in Nat /\ hi \in Nat /\ 1 <= lo /\ lo < hi
  BY DEF Ends
<1>1. w \in Seq(Token) /\ Len(w) = hi - lo /\ h[w] = Meant(h, w)
  BY SpanIs, MeaningIs
<1>2. /\ Calc!Cuts(w, Powers) # {} /\ Calc!FirstOf(Calc!Cuts(w, Powers)) = k
      /\ i \in lo .. hi - 1 /\ k \in 1 .. hi - lo
      /\ Calc!Cuts(w, Sums) = {} /\ Calc!Cuts(w, Products) = {}
  BY CutsOfSpan
<1>3. w # <<>>
  BY <1>0, <1>1
<1>4. /\ h[SubSeq(w, 1, k - 1)] = Mean(s, lo, i)
      /\ h[SubSeq(w, k + 1, Len(w))] = Mean(s, i + 1, hi)
  BY <1>2, CutSpan
<1>5. w[1] = s[lo]
  <2>1. lo \in lo .. hi - 1 /\ 1 \in 1 .. hi - lo /\ 1 = lo - lo + 1
    BY <1>0
  <2> QED BY <2>1, CutSpan
<1> HIDE DEF w, k, h
<1>6. Meant(h, w) = Calc!Node("^", h[SubSeq(w, 1, k - 1)], h[SubSeq(w, k + 1, Len(w))])
  BY <1>2, <1>3, <1>5 DEF Meant, Sums, Products, Powers
<1> QED BY <1>1, <1>4, <1>6 DEF Mean, w, h

\* Else it is a number, or what is between parentheses.
LEMMA MeanAtom ==
    ASSUME NEW s \in Seq(Token), NEW lo, NEW hi, Ends(s, lo, hi), lo < hi,
           Within(s, lo, hi, Sums) = {}, Within(s, lo, hi, Products) = {},
           Within(s, lo, hi, Powers) = {}, s[lo] \notin Sums
    PROVE  Mean(s, lo, hi) = IF hi = lo + 1 /\ s[lo] = "n" THEN <<"n">>
                             ELSE IF lo + 1 < hi /\ s[lo] = "(" /\ s[hi - 1] = ")"
                                  THEN Mean(s, lo + 1, hi - 1)
                             ELSE Calc!Wrong
<1> DEFINE w == Span(s, lo, hi)
           h == Calc!Meaning
<1>0. lo \in Nat /\ hi \in Nat /\ 1 <= lo /\ lo < hi
  BY DEF Ends
<1>1. w \in Seq(Token) /\ Len(w) = hi - lo /\ h[w] = Meant(h, w)
      /\ \A n \in 1 .. hi - lo : w[n] = s[lo + n - 1]
  BY SpanIs, MeaningIs
<1>2. Calc!Cuts(w, Sums) = {} /\ Calc!Cuts(w, Products) = {} /\ Calc!Cuts(w, Powers) = {}
  BY CutsOfSpan
<1>3. w # <<>> /\ w[1] = s[lo] /\ w[Len(w)] = s[hi - 1]
  <2>1. 1 \in 1 .. hi - lo /\ lo + 1 - 1 = lo /\ hi - lo \in 1 .. hi - lo
        /\ lo + (hi - lo) - 1 = hi - 1
    BY <1>0
  <2>2. w # <<>>
    BY <1>0, <1>1
  <2> QED BY <1>1, <2>1, <2>2
<1>4. ASSUME lo + 1 < hi PROVE h[SubSeq(w, 2, Len(w) - 1)] = Mean(s, lo + 1, hi - 1)
  <2> DEFINE m == 2
             n == hi - lo
  <2>1. /\ m \in Nat /\ n \in Nat /\ 1 <= m /\ m <= n /\ n <= hi - lo + 1
        /\ lo + m - 1 = lo + 1 /\ lo + n - 1 = hi - 1
    BY <1>0, <1>4
  <2> HIDE DEF m, n, w
  <2>2. SubSeq(w, m, n - 1) = Span(s, lo + m - 1, lo + n - 1)
    BY <2>1, SpanOfSpan DEF w
  <2>3. SubSeq(w, m, n - 1) = Span(s, lo + 1, hi - 1)
    BY <2>1, <2>2
  <2> QED BY <1>1, <2>3 DEF Mean, m, n
<1> HIDE DEF w, h
<1>5. w = <<"n">> <=> hi = lo + 1 /\ s[lo] = "n"
  <2>1. ASSUME hi = lo + 1, s[lo] = "n" PROVE w = <<"n">>
    <3>1. Len(w) = 1 /\ w[1] = "n"
      BY <1>0, <1>1, <1>3, <2>1
    <3>2. "n" \in Token
      <4>1. 1 \in 1 .. Len(w)
        BY <3>1
      <4>2. w[1] \in Token
        BY <1>1, <4>1
      <4> QED BY <3>1, <4>2
    <3> DEFINE v == <<"n">>
    <3>3. v \in Seq(Token) /\ Len(v) = 1 /\ v[1] = "n"
      BY <3>2
    <3> HIDE DEF v
    <3>4. w = v
      BY <1>1, <3>1, <3>3
    <3> QED BY <3>4 DEF v
  <2>2. ASSUME w = <<"n">> PROVE hi = lo + 1 /\ s[lo] = "n"
    BY <1>0, <1>1, <1>3, <2>2
  <2> QED BY <2>1, <2>2
<1>6. Meant(h, w) = IF w = <<"n">> THEN <<"n">>
                    ELSE IF w[1] = "(" /\ w[Len(w)] = ")" THEN h[SubSeq(w, 2, Len(w) - 1)]
                    ELSE Calc!Wrong
  BY <1>2, <1>3 DEF Meant, Sums, Products, Powers
<1>7. w[1] = "(" /\ w[Len(w)] = ")" <=> lo + 1 < hi /\ s[lo] = "(" /\ s[hi - 1] = ")"
  <2>1. hi = lo + 1 => hi - 1 = lo
    BY <1>0
  <2>2. s[lo] = "(" /\ s[hi - 1] = ")" => hi # lo + 1
    BY <2>1
  <2> QED BY <1>0, <1>3, <2>2
<1>8. h[w] = Mean(s, lo, hi)
  BY DEF Mean, w, h
<1> QED BY <1>1, <1>4, <1>5, <1>6, <1>7, <1>8

-----------------------------------------------------------------------------
(* The calls of the parser: each returns what its body says of those it     *)
(* makes, which are about fewer tokens or a tighter rule.                   *)

\* The first call of a loop.
First(p, rule) == [p EXCEPT !.rule = rule]

\* The loop over the operators runs.
LEMMA LoopRuns ==
    ASSUME NEW s \in Seq(Token), NEW p, NEW h, NEW rule, NEW ops
    PROVE  \E f : /\ f[0] = h[First(p, rule)]
                  /\ \A k \in 1 .. Len(s) : f[k] = Calc!Turn(s, p, h, rule, ops, f[k - 1])
                  /\ Calc!Operands(s, p, h, rule, ops) = f[Len(s)]
<1> DEFINE first == h[[p EXCEPT !.rule = rule]]
           Turned(l) == Calc!Turn(s, p, h, rule, ops, l)
           Runs(f, n) == f = [k \in 0 .. n |-> IF k = 0 THEN first ELSE Turned(f[k - 1])]
           T == {n \in Nat : \E f : Runs(f, n)}
           Loop(f) == f = [k \in 0 .. Len(s) |-> IF k = 0 THEN h[[p EXCEPT !.rule = rule]]
                                   ELSE Calc!Turn(s, p, h, rule, ops, f[k - 1])]
           chosen == CHOOSE f : Loop(f)
<1>1. 0 \in T
  <2> DEFINE f0 == [k \in 0 .. 0 |-> first]
  <2> HIDE DEF first, Turned
  <2>1. Runs(f0, 0)
    OBVIOUS
  <2> HIDE DEF f0, Runs
  <2> QED BY <2>1
<1>2. ASSUME NEW n \in Nat, n \in T PROVE n + 1 \in T
  <2> HIDE DEF first, Turned
  <2>1. PICK f : Runs(f, n)
    BY <1>2
  <2> DEFINE f2 == [k \in 0 .. n + 1 |-> IF k \in 0 .. n THEN f[k] ELSE Turned(f[n])]
  <2>2. ASSUME NEW k \in 0 .. n + 1
        PROVE  f2[k] = IF k = 0 THEN first ELSE Turned(f2[k - 1])
    <3>1. CASE k \in 0 .. n
      <4>1. f2[k] = f[k] /\ (k # 0 => f2[k - 1] = f[k - 1])
        BY <3>1
      <4>2. f[k] = IF k = 0 THEN first ELSE Turned(f[k - 1])
        BY <2>1, <3>1
      <4> HIDE DEF f2
      <4> QED BY <4>1, <4>2
    <3>2. CASE k = n + 1
      <4>1. k # 0 /\ f2[k - 1] = f[n] /\ f2[k] = Turned(f[n])
        BY <3>2
      <4> HIDE DEF f2
      <4> QED BY <4>1
    <3> QED BY <3>1, <3>2
  <2>3. f2 = [k \in 0 .. n + 1 |-> f2[k]]
    OBVIOUS
  <2> HIDE DEF f2
  <2>4. Runs(f2, n + 1)
    BY <2>2, <2>3
  <2> HIDE DEF Runs
  <2> QED BY <2>4
<1> HIDE DEF T
<1>3. PICK f : Loop(f)
  <2>1. Len(s) \in T
    BY <1>1, <1>2, NatInd
  <2> QED BY <2>1 DEF T
<1>4. Loop(chosen)
  <2> HIDE DEF Loop
  <2> QED BY <1>3
<1>5. Calc!Operands(s, p, h, rule, ops) = chosen[Len(s)]
  BY DEF Calc!Operands
<1> HIDE DEF chosen
<1>6. \A k \in 0 .. Len(s) : chosen[k] = IF k = 0 THEN first ELSE Turned(chosen[k - 1])
  <2> HIDE DEF Turned
  <2>1. chosen = [k \in 0 .. Len(s) |-> IF k = 0 THEN first ELSE Turned(chosen[k - 1])]
    BY <1>4 DEF Turned
  <2> QED BY <2>1
<1>7. chosen[0] = first /\ \A k \in 1 .. Len(s) : chosen[k] = Turned(chosen[k - 1])
  <2> HIDE DEF first, Turned
  <2> QED BY <1>6
<1> HIDE DEF Turned
<1> QED BY <1>5, <1>7 DEF Turned, First

\* What is returned has its fields, and stands no earlier than the call.
Result(r, from) ==
    /\ r = [ok |-> r.ok, tree |-> r.tree, pos |-> r.pos, deep |-> r.deep]
    /\ r.ok \in BOOLEAN /\ r.pos \in Nat /\ r.pos >= from

\* A result with another tree and depth.
Retreed(r, t, d) == [r EXCEPT !.tree = t, !.deep = d]
\* A result that became a refusal.
Refused(r, t) == [r EXCEPT !.ok = FALSE, !.tree = t]
\* A result that stands elsewhere.
Moved(r, n) == [r EXCEPT !.pos = n]
\* A result with another tree.
Negated(r, t) == [r EXCEPT !.tree = t]

\* What these make of a result, field by field.
LEMMA Changed ==
    ASSUME NEW r, NEW from, Result(r, from), NEW t, NEW d, NEW n
    PROVE  /\ Retreed(r, t, d) = [ok |-> r.ok, tree |-> t, pos |-> r.pos, deep |-> d]
           /\ Refused(r, t) = [ok |-> FALSE, tree |-> t, pos |-> r.pos, deep |-> r.deep]
           /\ Moved(r, n) = [ok |-> r.ok, tree |-> r.tree, pos |-> n, deep |-> r.deep]
           /\ Negated(r, t) = [ok |-> r.ok, tree |-> t, pos |-> r.pos, deep |-> r.deep]
<1> DEFINE Field == {"ok", "tree", "pos", "deep"}
           v1 == [r EXCEPT !.tree = t, !.deep = d]
           u1 == [ok |-> r.ok, tree |-> t, pos |-> r.pos, deep |-> d]
           v2 == [r EXCEPT !.ok = FALSE, !.tree = t]
           u2 == [ok |-> FALSE, tree |-> t, pos |-> r.pos, deep |-> r.deep]
           v3 == [r EXCEPT !.pos = n]
           u3 == [ok |-> r.ok, tree |-> r.tree, pos |-> n, deep |-> r.deep]
           v4 == [r EXCEPT !.tree = t]
           u4 == [ok |-> r.ok, tree |-> t, pos |-> r.pos, deep |-> r.deep]
<1>1. r = [ok |-> r.ok, tree |-> r.tree, pos |-> r.pos, deep |-> r.deep]
  BY DEF Result
<1>2. DOMAIN r = Field
  BY <1>1
<1>3. /\ v1 = [i \in Field |-> v1[i]] /\ v2 = [i \in Field |-> v2[i]]
      /\ v3 = [i \in Field |-> v3[i]] /\ v4 = [i \in Field |-> v4[i]]
  BY <1>1
<1>4. /\ u1 = [i \in Field |-> u1[i]] /\ u2 = [i \in Field |-> u2[i]]
      /\ u3 = [i \in Field |-> u3[i]] /\ u4 = [i \in Field |-> u4[i]]
  OBVIOUS
<1>5. /\ v1["ok"] = u1["ok"] /\ v1["tree"] = u1["tree"]
      /\ v1["pos"] = u1["pos"] /\ v1["deep"] = u1["deep"]
  BY <1>1
<1>6. /\ v2["ok"] = u2["ok"] /\ v2["tree"] = u2["tree"]
      /\ v2["pos"] = u2["pos"] /\ v2["deep"] = u2["deep"]
  BY <1>1
<1>7. /\ v3["ok"] = u3["ok"] /\ v3["tree"] = u3["tree"]
      /\ v3["pos"] = u3["pos"] /\ v3["deep"] = u3["deep"]
  BY <1>1
<1>8. /\ v4["ok"] = u4["ok"] /\ v4["tree"] = u4["tree"]
      /\ v4["pos"] = u4["pos"] /\ v4["deep"] = u4["deep"]
  BY <1>1
<1> HIDE DEF v1, v2, v3, v4, u1, u2, u3, u4
<1>9. v1 = u1 /\ v2 = u2 /\ v3 = u3 /\ v4 = u4
  BY <1>3, <1>4, <1>5, <1>6, <1>7, <1>8
<1> QED BY <1>9 DEF v1, v2, v3, v4, u1, u2, u3, u4, Retreed, Refused, Moved, Negated

\* What is left for a call to do.
Todo(s, p) ==
    (IF p.pos <= Len(s) THEN 3 * (Len(s) + 1 - p.pos) ELSE 0)
      + (IF p.rule = "expr" THEN 2 ELSE IF p.rule = "term" THEN 1 ELSE 0)

\* The calls a call makes.  The next operand's, of a tighter rule.
Then(p, rule, n) == [p EXCEPT !.rule = rule, !.pos = n]
\* The call inside a parenthesis.
Inside(p) == [p EXCEPT !.rule = "expr", !.pos = @ + 1, !.depth = @ + 1]
\* The call behind a sign.
Signed(p) == [p EXCEPT !.pos = @ + 1, !.depth = @ + 1]
\* A call of parse_unary is counted.
Counting(p) == [p EXCEPT !.calls = @ + 1]

\* A call of another rule further on is a call.
LEMMA Calling ==
    ASSUME NEW p \in Calc!Call, NEW rule \in {"expr", "term", "unary"}, NEW n \in Nat
    PROVE  /\ Then(p, rule, n) \in Calc!Call
           /\ Then(p, rule, n).rule = rule /\ Then(p, rule, n).pos = n
  BY DEF Calc!Call, Then

\* So is that for the operand of a sign or of a power.
LEMMA CallingUnary ==
    \A p \in Calc!Call, n \in Nat :
        LET q == Then(p, "unary", n)
        IN q \in Calc!Call /\ q.rule = "unary" /\ q.pos = n
  BY Calling

\* So are the others, each where it should stand.
LEMMA Deeper ==
    ASSUME NEW p \in Calc!Call, NEW rule \in {"expr", "term", "unary"}
    PROVE  /\ First(p, rule) \in Calc!Call /\ First(p, rule).rule = rule /\ First(p, rule).pos = p.pos
           /\ Inside(p) \in Calc!Call /\ Inside(p).rule = "expr" /\ Inside(p).pos = p.pos + 1
           /\ Signed(p) \in Calc!Call /\ Signed(p).rule = p.rule /\ Signed(p).pos = p.pos + 1
           /\ Counting(p) \in Calc!Call /\ Counting(p).rule = p.rule /\ Counting(p).pos = p.pos
           /\ Counting(p).depth = p.depth
<1>1. /\ p \in [rule : {"expr", "term", "unary"}, pos : Nat, depth : Nat, calls : Nat]
      /\ p.pos \in Nat /\ p.pos + 1 \in Nat /\ p.depth \in Nat /\ p.depth + 1 \in Nat
      /\ p.calls \in Nat /\ p.calls + 1 \in Nat /\ p.rule \in {"expr", "term", "unary"}
  BY DEF Calc!Call
<1>3. First(p, rule) \in Calc!Call /\ First(p, rule).rule = rule /\ First(p, rule).pos = p.pos
  BY <1>1 DEF First, Calc!Call
<1> DEFINE up == p.pos + 1
           deeper == p.depth + 1
           more == p.calls + 1
<1>4. /\ Inside(p) = [p EXCEPT !.rule = "expr", !.pos = up, !.depth = deeper]
      /\ Signed(p) = [p EXCEPT !.pos = up, !.depth = deeper]
      /\ Counting(p) = [p EXCEPT !.calls = more]
  BY <1>1 DEF Inside, Signed, Counting
<1> HIDE DEF up, deeper, more
<1>5. up \in Nat /\ deeper \in Nat /\ more \in Nat
  BY <1>1 DEF up, deeper, more
<1>6. Inside(p) \in Calc!Call /\ Inside(p).rule = "expr" /\ Inside(p).pos = up
  BY <1>1, <1>4, <1>5 DEF Calc!Call
<1>7. Signed(p) \in Calc!Call /\ Signed(p).rule = p.rule /\ Signed(p).pos = up
  BY <1>1, <1>4, <1>5 DEF Calc!Call
<1>8. /\ Counting(p) \in Calc!Call /\ Counting(p).rule = p.rule /\ Counting(p).pos = p.pos
      /\ Counting(p).depth = p.depth
  BY <1>1, <1>4, <1>5 DEF Calc!Call
<1> QED BY <1>3, <1>6, <1>7, <1>8 DEF up

\* What was called returned what it returns, and stands no earlier.
Below(s, p, h, h2) ==
    \A q \in Calc!Call : Todo(s, q) < Todo(s, p) => h[q] = h2[q] /\ Result(h[q], q.pos)

\* A later call has less to do.
LEMMA LaterIsLess ==
    ASSUME NEW s \in Seq(Token), NEW p \in Calc!Call, NEW q \in Calc!Call
    PROVE  /\ p.pos < q.pos /\ p.pos <= Len(s) => Todo(s, q) < Todo(s, p)
           /\ /\ p.pos = q.pos
              /\ <<p.rule, q.rule>> \in {<<"expr", "term">>, <<"term", "unary">>}
              => Todo(s, q) < Todo(s, p)
           /\ Todo(s, p) \in Nat /\ Todo(s, p) <= 3 * (Len(s) + 1) + 2
<1> DEFINE Rank(c) == IF c.rule = "expr" THEN 2 ELSE IF c.rule = "term" THEN 1 ELSE 0
           Rest(c) == IF c.pos <= Len(s) THEN Len(s) + 1 - c.pos ELSE 0
<1>1. Len(s) \in Nat /\ p.pos \in Nat /\ q.pos \in Nat
  BY DEF Calc!Call
<1>2. Rank(p) \in 0 .. 2 /\ Rank(q) \in 0 .. 2
  OBVIOUS
<1>3. Todo(s, p) = 3 * Rest(p) + Rank(p) /\ Todo(s, q) = 3 * Rest(q) + Rank(q)
  <2>1. \A c : Todo(s, c) = 3 * Rest(c) + Rank(c)
    <3> SUFFICES ASSUME NEW c PROVE Todo(s, c) = 3 * Rest(c) + Rank(c)
      OBVIOUS
    <3>1. 3 * 0 = 0
      OBVIOUS
    <3> QED BY <3>1 DEF Todo
  <2> HIDE DEF Rank, Rest
  <2> QED BY <2>1
<1>4. Rest(p) \in 0 .. Len(s) + 1 /\ Rest(q) \in 0 .. Len(s) + 1
  BY <1>1
<1>5. ASSUME p.pos < q.pos, p.pos <= Len(s) PROVE Todo(s, q) < Todo(s, p)
  <2>1. Rest(q) + 1 <= Rest(p)
    BY <1>1, <1>5
  <2> HIDE DEF Rank, Rest
  <2> QED BY <1>2, <1>3, <1>4, <2>1
<1>6. ASSUME p.pos = q.pos, <<p.rule, q.rule>> \in {<<"expr", "term">>, <<"term", "unary">>}
      PROVE  Todo(s, q) < Todo(s, p)
  <2>1. Rest(q) = Rest(p) /\ Rank(q) < Rank(p)
    BY <1>6
  <2> HIDE DEF Rank, Rest
  <2> QED BY <1>2, <1>3, <1>4, <2>1
<1>7. Todo(s, p) \in Nat /\ Todo(s, p) <= 3 * (Len(s) + 1) + 2
  <2> HIDE DEF Rank, Rest
  <2> QED BY <1>1, <1>2, <1>3, <1>4
<1> QED BY <1>5, <1>6, <1>7

\* Behind the last token there is none to see.
LEMMA PeekEnds ==
    ASSUME NEW s \in Seq(Token), NEW n \in Nat, Calc!Peek(s, n) # "."
    PROVE  n <= Len(s) /\ Calc!Peek(s, n) = s[n]
  BY DEF Calc!Peek

\* What each rule makes of the results of its calls.
LEMMA TurnIs ==
    ASSUME NEW s, NEW p, NEW h, NEW rule, NEW ops, NEW l
    PROVE  /\ ~l.ok \/ Calc!Peek(s, l.pos) \notin ops => Calc!Turn(s, p, h, rule, ops, l) = l
           /\ l.ok /\ Calc!Peek(s, l.pos) \in ops =>
                LET r == h[Then(p, rule, l.pos + 1)]
                IN Calc!Turn(s, p, h, rule, ops, l)
                     = Retreed(r, IF r.ok THEN <<s[l.pos], l.tree, r.tree>> ELSE r.tree,
                               Calc!Larger(r.deep, l.deep))
<1> DEFINE r == h[Then(p, rule, l.pos + 1)]
           tree == IF r.ok THEN <<s[l.pos], l.tree, r.tree>> ELSE r.tree
           deep == Calc!Larger(r.deep, l.deep)
           v == Calc!Turn(s, p, h, rule, ops, l)
<1>1. ASSUME ~l.ok \/ Calc!Peek(s, l.pos) \notin ops PROVE v = l
  BY <1>1 DEF Calc!Turn
<1>2. ASSUME l.ok, Calc!Peek(s, l.pos) \in ops PROVE v = Retreed(r, tree, deep)
  BY <1>2 DEF Calc!Turn, Retreed, Then
<1> QED BY <1>1, <1>2

\* A number, a parenthesis that may be too deep or stay open, or a refusal.
LEMMA AtomIs ==
    ASSUME NEW s, NEW p \in Calc!Call, NEW h
    PROVE  /\ Calc!Peek(s, p.pos) = "(" /\ p.depth + 1 > MaxDepth => Calc!Atom(s, p, h) = Calc!TooDeep(p)
           /\ Calc!Peek(s, p.pos) = "(" /\ ~(p.depth + 1 > MaxDepth) =>
                LET r == h[Inside(p)]
                IN /\ ~r.ok => Calc!Atom(s, p, h) = r
                   /\ r.ok /\ Calc!Peek(s, r.pos) # ")" => Calc!Atom(s, p, h) = Refused(r, <<"error">>)
                   /\ r.ok /\ Calc!Peek(s, r.pos) = ")" => Calc!Atom(s, p, h) = Moved(r, r.pos + 1)
           /\ Calc!Peek(s, p.pos) = "n" =>
                Calc!Atom(s, p, h) = [ok |-> TRUE, tree |-> <<"n">>, pos |-> p.pos + 1, deep |-> p.calls]
           /\ Calc!Peek(s, p.pos) \notin {"(", "n"} => Calc!Atom(s, p, h) = Calc!Fail(p)
<1> DEFINE r == h[Inside(p)]
           v == Calc!Atom(s, p, h)
<1>1. ASSUME Calc!Peek(s, p.pos) = "(", p.depth + 1 > MaxDepth PROVE v = Calc!TooDeep(p)
  BY <1>1 DEF Calc!Atom
<1>2. ASSUME Calc!Peek(s, p.pos) = "(", ~(p.depth + 1 > MaxDepth)
      PROVE  /\ ~r.ok => v = r
             /\ r.ok /\ Calc!Peek(s, r.pos) # ")" => v = Refused(r, <<"error">>)
             /\ r.ok /\ Calc!Peek(s, r.pos) = ")" => v = Moved(r, r.pos + 1)
  <2>1. v = IF ~r.ok THEN r
            ELSE IF Calc!Peek(s, r.pos) # ")" THEN Refused(r, <<"error">>)
            ELSE Moved(r, r.pos + 1)
    BY <1>2 DEF Calc!Atom, Inside, Refused, Moved
  <2> HIDE DEF v, r
  <2> QED BY <2>1
<1>3. ASSUME Calc!Peek(s, p.pos) = "n"
      PROVE  v = [ok |-> TRUE, tree |-> <<"n">>, pos |-> p.pos + 1, deep |-> p.calls]
  <2> DEFINE q == [p EXCEPT !.pos = @ + 1]
  <2>1. v = Calc!Done(<<"n">>, q)
    BY <1>3 DEF Calc!Atom
  <2>2. q.pos = p.pos + 1 /\ q.calls = p.calls
    BY DEF Calc!Call
  <2> HIDE DEF q, v
  <2> QED BY <2>1, <2>2 DEF Calc!Done
<1>4. ASSUME Calc!Peek(s, p.pos) \notin {"(", "n"} PROVE v = Calc!Fail(p)
  BY <1>4 DEF Calc!Atom
<1> QED BY <1>1, <1>2, <1>3, <1>4

\* An atom, and behind a ^ an operand.
LEMMA PowerIs ==
    ASSUME NEW s, NEW p, NEW h
    PROVE  LET b == Calc!Atom(s, p, h)
           IN /\ ~b.ok \/ Calc!Peek(s, b.pos) # "^" => Calc!Power(s, p, h) = b
              /\ b.ok /\ Calc!Peek(s, b.pos) = "^" =>
                   LET e == h[Then(p, "unary", b.pos + 1)]
                   IN Calc!Power(s, p, h)
                        = Retreed(e, IF e.ok THEN <<"^", b.tree, e.tree>> ELSE e.tree,
                                  Calc!Larger(e.deep, b.deep))
<1> DEFINE b == Calc!Atom(s, p, h)
           e == h[Then(p, "unary", b.pos + 1)]
           v == Calc!Power(s, p, h)
<1>1. ASSUME ~b.ok \/ Calc!Peek(s, b.pos) # "^" PROVE v = b
  BY <1>1 DEF Calc!Power
<1>2. ASSUME b.ok, Calc!Peek(s, b.pos) = "^"
      PROVE  v = Retreed(e, IF e.ok THEN <<"^", b.tree, e.tree>> ELSE e.tree,
                         Calc!Larger(e.deep, b.deep))
  BY <1>2 DEF Calc!Power, Retreed, Then
<1> QED BY <1>1, <1>2

\* A sign, that may be too deep, and an operand; or a power.
LEMMA UnaryIs ==
    ASSUME NEW s, NEW from, NEW h
    PROVE  LET p == Counting(from)
               r == h[Signed(p)]
           IN /\ Calc!Peek(s, p.pos) \notin Sums => Calc!Unary(s, from, h) = Calc!Power(s, p, h)
              /\ Calc!Peek(s, p.pos) \in Sums /\ p.depth + 1 > MaxDepth =>
                   Calc!Unary(s, from, h) = Calc!TooDeep(p)
              /\ Calc!Peek(s, p.pos) \in Sums /\ ~(p.depth + 1 > MaxDepth) =>
                   Calc!Unary(s, from, h)
                     = IF r.ok /\ s[p.pos] = "-" THEN Negated(r, <<"neg", r.tree>>) ELSE r
<1> DEFINE p == Counting(from)
           r == h[Signed(p)]
           v == Calc!Unary(s, from, h)
<1>1. ASSUME Calc!Peek(s, p.pos) \notin Sums PROVE v = Calc!Power(s, p, h)
  BY <1>1 DEF Calc!Unary, Counting, Sums
<1>2. ASSUME Calc!Peek(s, p.pos) \in Sums, p.depth + 1 > MaxDepth PROVE v = Calc!TooDeep(p)
  BY <1>2 DEF Calc!Unary, Counting, Sums
<1>3. ASSUME Calc!Peek(s, p.pos) \in Sums, ~(p.depth + 1 > MaxDepth)
      PROVE  v = IF r.ok /\ s[p.pos] = "-" THEN Negated(r, <<"neg", r.tree>>) ELSE r
  BY <1>3 DEF Calc!Unary, Counting, Signed, Negated, Sums
<1> QED BY <1>1, <1>2, <1>3

\* A refusal on the spot.
LEMMA Refusals ==
    ASSUME NEW p \in Calc!Call
    PROVE  Result(Calc!TooDeep(p), p.pos) /\ Result(Calc!Fail(p), p.pos)
<1>1. p.pos \in Nat
  BY DEF Calc!Call
<1> QED BY <1>1 DEF Result, Calc!TooDeep, Calc!Fail

\* A changed result is one.
LEMMA ChangedIs ==
    ASSUME NEW r, NEW from \in Nat, Result(r, from), NEW t, NEW d, NEW n \in Nat, n >= from
    PROVE  /\ Result(Retreed(r, t, d), from) /\ Result(Refused(r, t), from)
           /\ Result(Moved(r, n), from) /\ Result(Negated(r, t), from)
<1>1. r.ok \in BOOLEAN /\ r.pos \in Nat /\ r.pos >= from
  BY DEF Result
<1>2. Result(Retreed(r, t, d), from)
  <2>1. Retreed(r, t, d) = [ok |-> r.ok, tree |-> t, pos |-> r.pos, deep |-> d]
    BY Changed
  <2> QED BY <1>1, <2>1 DEF Result
<1>3. Result(Refused(r, t), from)
  <2>1. Refused(r, t) = [ok |-> FALSE, tree |-> t, pos |-> r.pos, deep |-> r.deep]
    BY Changed
  <2> QED BY <1>1, <2>1 DEF Result
<1>4. Result(Moved(r, n), from)
  <2>1. Moved(r, n) = [ok |-> r.ok, tree |-> r.tree, pos |-> n, deep |-> r.deep]
    BY Changed
  <2> QED BY <1>1, <2>1 DEF Result
<1>5. Result(Negated(r, t), from)
  <2>1. Negated(r, t) = [ok |-> r.ok, tree |-> t, pos |-> r.pos, deep |-> r.deep]
    BY Changed
  <2> QED BY <1>1, <2>1 DEF Result
<1> QED BY <1>2, <1>3, <1>4, <1>5

\* A result stands no earlier than anything before where it stands.
LEMMA ResultWeaken ==
    ASSUME NEW r, NEW from \in Nat, NEW to \in Nat, to <= from, Result(r, from)
    PROVE  Result(r, to)
  BY DEF Result

\* What a call returns depends on the calls with less to do alone.
LEMMA TurnAgrees ==
    ASSUME NEW s \in Seq(Token), NEW p \in Calc!Call, NEW h, NEW h2, Below(s, p, h, h2),
           NEW rule \in {"term", "unary"}, NEW ops, "." \notin ops,
           NEW l, Result(l, p.pos)
    PROVE  /\ Calc!Turn(s, p, h, rule, ops, l) = Calc!Turn(s, p, h2, rule, ops, l)
           /\ Result(Calc!Turn(s, p, h, rule, ops, l), p.pos)
<1>1. CASE ~l.ok \/ Calc!Peek(s, l.pos) \notin ops
  <2>1. \A f : Calc!Turn(s, p, f, rule, ops, l) = l
    BY <1>1 DEF Calc!Turn
  <2> QED BY <2>1
<1>2. CASE l.ok /\ Calc!Peek(s, l.pos) \in ops
  <2>1. p.pos \in Nat /\ l.pos \in Nat /\ p.pos <= l.pos /\ l.pos <= Len(s) /\ l.pos + 1 \in Nat
    BY <1>2, PeekEnds DEF Result, Calc!Call
  <2> DEFINE n == l.pos + 1
             q == Then(p, rule, n)
             r == h[q]
  <2>2. n \in Nat /\ p.pos < n /\ p.pos <= Len(s) /\ p.pos <= n
    BY <2>1
  <2> HIDE DEF n
  <2>3. q \in Calc!Call /\ q.pos = n
    <3>1. rule \in {"expr", "term", "unary"}
      OBVIOUS
    <3> QED BY <2>2, <3>1, Calling
  <2> HIDE DEF q
  <2>4. Todo(s, q) < Todo(s, p)
    BY <2>2, <2>3, LaterIsLess
  <2>5. h[q] = h2[q] /\ Result(r, n)
    BY <2>3, <2>4 DEF Below
  <2> DEFINE tree == IF r.ok THEN <<s[l.pos], l.tree, r.tree>> ELSE r.tree
             deep == Calc!Larger(r.deep, l.deep)
  <2>6. /\ Calc!Turn(s, p, h, rule, ops, l) = Retreed(r, tree, deep)
        /\ Calc!Turn(s, p, h2, rule, ops, l) = Retreed(r, tree, deep)
    BY <1>2, <2>5, TurnIs DEF q, n
  <2> HIDE DEF r, tree, deep
  <2>7. Result(r, p.pos)
    BY <2>1, <2>2, <2>5, ResultWeaken
  <2>8. Result(Retreed(r, tree, deep), p.pos)
    BY <2>1, <2>7, ChangedIs
  <2> QED BY <2>6, <2>8
<1>3. l.ok \in BOOLEAN
  BY DEF Result
<1> QED BY <1>1, <1>2, <1>3

\* So does what the loop over the operators makes of them,
LEMMA LoopAgrees ==
    ASSUME NEW s \in Seq(Token), NEW p \in Calc!Call, NEW h, NEW h2, Below(s, p, h, h2),
           NEW rule, NEW ops, "." \notin ops,
           <<p.rule, rule>> \in {<<"expr", "term">>, <<"term", "unary">>}
    PROVE  /\ Calc!Operands(s, p, h, rule, ops) = Calc!Operands(s, p, h2, rule, ops)
           /\ Result(Calc!Operands(s, p, h, rule, ops), p.pos)
<1> DEFINE q == First(p, rule)
<1>1. rule \in {"term", "unary"} /\ rule \in {"expr", "term", "unary"} /\ p.pos \in Nat
  BY DEF Calc!Call
<1>2. q \in Calc!Call /\ q.rule = rule /\ q.pos = p.pos
  BY <1>1, Deeper
<1> HIDE DEF q
<1>3. Todo(s, q) < Todo(s, p)
  BY <1>2, LaterIsLess
<1>4. h[q] = h2[q] /\ Result(h[q], p.pos)
  BY <1>2, <1>3 DEF Below
<1>5. PICK f : /\ f[0] = h[q]
               /\ \A k \in 1 .. Len(s) : f[k] = Calc!Turn(s, p, h, rule, ops, f[k - 1])
               /\ Calc!Operands(s, p, h, rule, ops) = f[Len(s)]
  BY LoopRuns DEF q
<1>6. PICK f2 : /\ f2[0] = h2[q]
                /\ \A k \in 1 .. Len(s) : f2[k] = Calc!Turn(s, p, h2, rule, ops, f2[k - 1])
                /\ Calc!Operands(s, p, h2, rule, ops) = f2[Len(s)]
  BY LoopRuns DEF q
<1> DEFINE T == {n \in Nat : n \in 0 .. Len(s) => f[n] = f2[n] /\ Result(f[n], p.pos)}
<1>7. 0 \in T
  BY <1>4, <1>5, <1>6
<1>8. ASSUME NEW n \in Nat, n \in T PROVE n + 1 \in T
  <2> SUFFICES ASSUME n + 1 \in 0 .. Len(s) PROVE f[n + 1] = f2[n + 1] /\ Result(f[n + 1], p.pos)
    OBVIOUS
  <2>1. n \in 0 .. Len(s) /\ n + 1 \in 1 .. Len(s) /\ (n + 1) - 1 = n
    OBVIOUS
  <2>2. f[n] = f2[n] /\ Result(f[n], p.pos)
    BY <1>8, <2>1
  <2>3. /\ f[n + 1] = Calc!Turn(s, p, h, rule, ops, f[n])
        /\ f2[n + 1] = Calc!Turn(s, p, h2, rule, ops, f[n])
    BY <1>5, <1>6, <2>1, <2>2
  <2> QED BY <1>1, <2>2, <2>3, TurnAgrees
<1> HIDE DEF T
<1>9. Len(s) \in T
  BY <1>7, <1>8, NatInd
<1> QED BY <1>5, <1>6, <1>9 DEF T

\* an atom,
LEMMA AtomAgrees ==
    ASSUME NEW s \in Seq(Token), NEW p \in Calc!Call, NEW h, NEW h2, Below(s, p, h, h2)
    PROVE  /\ Calc!Atom(s, p, h) = Calc!Atom(s, p, h2)
           /\ Result(Calc!Atom(s, p, h), p.pos)
<1>0. p.pos \in Nat /\ p.pos + 1 \in Nat /\ p.pos <= p.pos + 1
  BY DEF Calc!Call
<1>1. CASE Calc!Peek(s, p.pos) = "(" /\ p.depth + 1 > MaxDepth
  BY <1>1, AtomIs, Refusals
<1>2. CASE Calc!Peek(s, p.pos) = "(" /\ ~(p.depth + 1 > MaxDepth)
  <2> DEFINE q == Inside(p)
             r == h[q]
  <2>1. q \in Calc!Call /\ q.pos = p.pos + 1
    BY Deeper
  <2>2. p.pos <= Len(s)
    BY <1>0, <1>2, PeekEnds
  <2> HIDE DEF q
  <2>3. Todo(s, q) < Todo(s, p)
    BY <1>0, <2>1, <2>2, LaterIsLess
  <2>4. h[q] = h2[q] /\ Result(r, p.pos + 1)
    BY <2>1, <2>3 DEF Below
  <2>5. Calc!Atom(s, p, h) \in {r, Refused(r, <<"error">>), Moved(r, r.pos + 1)}
        /\ Calc!Atom(s, p, h) = Calc!Atom(s, p, h2)
    <3>1. r.ok \in BOOLEAN /\ r = h2[q]
      BY <2>4 DEF Result
    <3>2. /\ ~r.ok => Calc!Atom(s, p, h) = r
          /\ r.ok /\ Calc!Peek(s, r.pos) # ")" => Calc!Atom(s, p, h) = Refused(r, <<"error">>)
          /\ r.ok /\ Calc!Peek(s, r.pos) = ")" => Calc!Atom(s, p, h) = Moved(r, r.pos + 1)
      BY <1>2, AtomIs DEF q
    <3>3. /\ ~r.ok => Calc!Atom(s, p, h2) = r
          /\ r.ok /\ Calc!Peek(s, r.pos) # ")" => Calc!Atom(s, p, h2) = Refused(r, <<"error">>)
          /\ r.ok /\ Calc!Peek(s, r.pos) = ")" => Calc!Atom(s, p, h2) = Moved(r, r.pos + 1)
      <4> DEFINE r2 == h2[q]
      <4>1. /\ ~r2.ok => Calc!Atom(s, p, h2) = r2
            /\ r2.ok /\ Calc!Peek(s, r2.pos) # ")" => Calc!Atom(s, p, h2) = Refused(r2, <<"error">>)
            /\ r2.ok /\ Calc!Peek(s, r2.pos) = ")" => Calc!Atom(s, p, h2) = Moved(r2, r2.pos + 1)
        BY <1>2, AtomIs DEF q
      <4>2. r2 = r
        BY <3>1
      <4> HIDE DEF r, r2
      <4> QED BY <4>1, <4>2
    <3> HIDE DEF r
    <3> QED BY <3>1, <3>2, <3>3
  <2> HIDE DEF r
  <2>6. Result(r, p.pos) /\ r.pos + 1 \in Nat /\ r.pos + 1 >= p.pos
    <3>1. r.pos \in Nat /\ r.pos >= p.pos + 1
      BY <2>4 DEF Result
    <3> QED BY <1>0, <2>4, <3>1, ResultWeaken
  <2>7. Result(Refused(r, <<"error">>), p.pos) /\ Result(Moved(r, r.pos + 1), p.pos)
    BY <1>0, <2>6, ChangedIs
  <2> QED BY <2>5, <2>6, <2>7
<1>3. CASE Calc!Peek(s, p.pos) = "n"
  <2>1. /\ Calc!Atom(s, p, h) = [ok |-> TRUE, tree |-> <<"n">>, pos |-> p.pos + 1, deep |-> p.calls]
        /\ Calc!Atom(s, p, h2) = [ok |-> TRUE, tree |-> <<"n">>, pos |-> p.pos + 1, deep |-> p.calls]
    BY <1>3, AtomIs
  <2> QED BY <1>0, <2>1 DEF Result
<1>4. CASE Calc!Peek(s, p.pos) \notin {"(", "n"}
  BY <1>4, AtomIs, Refusals
<1> QED BY <1>1, <1>2, <1>3, <1>4

\* a power,
LEMMA PowerAgrees ==
    ASSUME NEW s \in Seq(Token), NEW p \in Calc!Call, NEW h, NEW h2, Below(s, p, h, h2)
    PROVE  /\ Calc!Power(s, p, h) = Calc!Power(s, p, h2)
           /\ Result(Calc!Power(s, p, h), p.pos)
<1> DEFINE b == Calc!Atom(s, p, h)
<1>1. b = Calc!Atom(s, p, h2) /\ Result(b, p.pos)
  BY AtomAgrees
<1>2. b.ok \in BOOLEAN /\ b.pos \in Nat /\ p.pos \in Nat /\ p.pos <= b.pos
  BY <1>1 DEF Result, Calc!Call
<1>3. CASE ~b.ok \/ Calc!Peek(s, b.pos) # "^"
  BY <1>1, <1>3, PowerIs
<1>4. CASE b.ok /\ Calc!Peek(s, b.pos) = "^"
  <2> DEFINE n == b.pos + 1
             q == Then(p, "unary", n)
             e == h[q]
             tree == IF e.ok THEN <<"^", b.tree, e.tree>> ELSE e.tree
             deep == Calc!Larger(e.deep, b.deep)
  <2> HIDE DEF b
  <2>1. b.pos <= Len(s)
    BY <1>2, <1>4, PeekEnds
  <2>2. n \in Nat /\ p.pos < n /\ p.pos <= Len(s) /\ p.pos <= n
    BY <1>2, <2>1
  <2> HIDE DEF n
  <2>3. q \in Calc!Call /\ q.pos = n
    BY <2>2, Calling
  <2> HIDE DEF q
  <2>4. Todo(s, q) < Todo(s, p)
    BY <2>2, <2>3, LaterIsLess
  <2>5. h[q] = h2[q] /\ Result(e, n)
    BY <2>3, <2>4 DEF Below
  <2>6. /\ Calc!Power(s, p, h) = Retreed(e, tree, deep)
        /\ Calc!Power(s, p, h2) = Retreed(e, tree, deep)
    BY <1>1, <1>4, <2>5, PowerIs DEF q, n, b
  <2> HIDE DEF e, tree, deep
  <2>7. Result(e, p.pos)
    BY <1>2, <2>2, <2>5, ResultWeaken
  <2>8. Result(Retreed(e, tree, deep), p.pos)
    BY <1>2, <2>7, ChangedIs
  <2> QED BY <2>6, <2>8
<1> QED BY <1>2, <1>3, <1>4

\* an operand with its signs,
LEMMA UnaryAgrees ==
    ASSUME NEW s \in Seq(Token), NEW from \in Calc!Call, NEW h, NEW h2, Below(s, from, h, h2)
    PROVE  /\ Calc!Unary(s, from, h) = Calc!Unary(s, from, h2)
           /\ Result(Calc!Unary(s, from, h), from.pos)
<1> DEFINE p == Counting(from)
<1>1. p \in Calc!Call /\ p.pos = from.pos /\ p.rule = from.rule /\ p.pos \in Nat
  <2>1. from.rule \in {"expr", "term", "unary"} /\ from.pos \in Nat
    BY DEF Calc!Call
  <2> QED BY <2>1, Deeper
<1>2. Below(s, p, h, h2)
  <2>1. Todo(s, p) = Todo(s, from)
    BY <1>1 DEF Todo
  <2> QED BY <2>1 DEF Below
<1>3. CASE Calc!Peek(s, p.pos) \notin Sums
  <2>1. Calc!Unary(s, from, h) = Calc!Power(s, p, h) /\ Calc!Unary(s, from, h2) = Calc!Power(s, p, h2)
    BY <1>3, UnaryIs
  <2> HIDE DEF p
  <2> QED BY <1>1, <1>2, <2>1, PowerAgrees
<1>4. CASE Calc!Peek(s, p.pos) \in Sums /\ p.depth + 1 > MaxDepth
  <2>1. Calc!Unary(s, from, h) = Calc!TooDeep(p) /\ Calc!Unary(s, from, h2) = Calc!TooDeep(p)
    BY <1>4, UnaryIs
  <2> HIDE DEF p
  <2> QED BY <1>1, <2>1, Refusals
<1>5. CASE Calc!Peek(s, p.pos) \in Sums /\ ~(p.depth + 1 > MaxDepth)
  <2> DEFINE q == Signed(p)
             r == h[q]
             v == IF r.ok /\ s[p.pos] = "-" THEN Negated(r, <<"neg", r.tree>>) ELSE r
  <2> HIDE DEF p
  <2>1. q \in Calc!Call /\ q.pos = p.pos + 1
    BY <1>1, Deeper
  <2>2. p.pos <= Len(s)
    BY <1>1, <1>5, PeekEnds DEF Sums
  <2> HIDE DEF q
  <2>3. Todo(s, q) < Todo(s, p)
    BY <1>1, <2>1, <2>2, LaterIsLess
  <2>4. h[q] = h2[q] /\ Result(r, p.pos + 1)
    BY <1>2, <2>1, <2>3 DEF Below
  <2>5. Calc!Unary(s, from, h) = v /\ Calc!Unary(s, from, h2) = v
    BY <1>5, <2>4, UnaryIs DEF q, p
  <2> HIDE DEF r
  <2>6. Result(r, p.pos)
    <3>1. p.pos + 1 \in Nat /\ p.pos <= p.pos + 1
      BY <1>1
    <3> QED BY <1>1, <2>4, <3>1, ResultWeaken
  <2>7. Result(Negated(r, <<"neg", r.tree>>), p.pos)
    <3>1. p.pos >= p.pos
      BY <1>1
    <3> QED BY <1>1, <2>6, <3>1, ChangedIs
  <2> QED BY <1>1, <2>5, <2>6, <2>7
<1> QED BY <1>3, <1>4, <1>5

\* and so whatever was called.
LEMMA BodyAgrees ==
    ASSUME NEW s \in Seq(Token), NEW p \in Calc!Call, NEW h, NEW h2, Below(s, p, h, h2)
    PROVE  Body(s, h, p) = Body(s, h2, p) /\ Result(Body(s, h, p), p.pos)
<1>1. CASE p.rule = "expr"
  <2>1. Body(s, h, p) = Calc!Operands(s, p, h, "term", Sums)
        /\ Body(s, h2, p) = Calc!Operands(s, p, h2, "term", Sums)
    BY <1>1 DEF Body, Calc!Expr, Sums
  <2>2. "." \notin Sums /\ <<p.rule, "term">> \in {<<"expr", "term">>, <<"term", "unary">>}
    BY <1>1 DEF Sums
  <2> QED BY <2>1, <2>2, LoopAgrees
<1>2. CASE p.rule = "term"
  <2>1. Body(s, h, p) = Calc!Operands(s, p, h, "unary", Products)
        /\ Body(s, h2, p) = Calc!Operands(s, p, h2, "unary", Products)
    BY <1>2 DEF Body, Calc!Term, Products
  <2>2. "." \notin Products /\ <<p.rule, "unary">> \in {<<"expr", "term">>, <<"term", "unary">>}
    BY <1>2 DEF Products
  <2> QED BY <2>1, <2>2, LoopAgrees
<1>3. CASE p.rule = "unary"
  BY <1>3, UnaryAgrees DEF Body
<1> QED BY <1>1, <1>2, <1>3 DEF Calc!Call

\* The calls with less than n to do return what their bodies say.
ParsesBelow(s, h, n) ==
    \A p \in Calc!Call : Todo(s, p) < n => h[p] = Body(s, h, p) /\ Result(h[p], p.pos)

\* There are results for these calls, for every n.
LEMMA ParseBelow == \A s \in Seq(Token), n \in Nat : \E h : ParsesBelow(s, h, n)
<1> SUFFICES ASSUME NEW s \in Seq(Token) PROVE \A n \in Nat : \E h : ParsesBelow(s, h, n)
  OBVIOUS
<1> DEFINE T == {n \in Nat : \E h : ParsesBelow(s, h, n)}
<1>1. 0 \in T
  <2>1. \A p \in Calc!Call : ~(Todo(s, p) < 0)
    BY LaterIsLess
  <2> QED BY <2>1 DEF ParsesBelow
<1>2. ASSUME NEW n \in Nat, n \in T PROVE n + 1 \in T
  <2>1. PICK h : ParsesBelow(s, h, n)
    BY <1>2
  <2> DEFINE h2 == [p \in Calc!Call |-> Body(s, h, p)]
  <2>2. \A p \in Calc!Call : h2[p] = Body(s, h, p)
    <3> HIDE DEF Body
    <3> QED OBVIOUS
  <2> HIDE DEF h2
  <2>3. \A p \in Calc!Call : Todo(s, p) < n => h[p] = h2[p] /\ Result(h[p], p.pos)
    BY <2>1, <2>2 DEF ParsesBelow
  <2>4. ASSUME NEW p \in Calc!Call, Todo(s, p) < n + 1
        PROVE  h2[p] = Body(s, h2, p) /\ Result(h2[p], p.pos)
    <3>1. Below(s, p, h, h2)
      <4>1. ASSUME NEW q \in Calc!Call, Todo(s, q) < Todo(s, p) PROVE Todo(s, q) < n
        <5>1. Todo(s, q) \in Nat /\ Todo(s, p) \in Nat
          BY LaterIsLess
        <5> QED BY <2>4, <4>1, <5>1
      <4> QED BY <2>3, <4>1 DEF Below
    <3>2. Body(s, h, p) = Body(s, h2, p) /\ Result(Body(s, h, p), p.pos)
      BY <3>1, BodyAgrees
    <3> QED BY <2>2, <3>2
  <2>5. ParsesBelow(s, h2, n + 1)
    BY <2>4 DEF ParsesBelow
  <2> QED BY <2>5
<1> HIDE DEF T
<1>3. Nat \subseteq T
  BY <1>1, <1>2, NatInd
<1> QED BY <1>3 DEF T

\* Every call of the parser returns: its body says what.
LEMMA ParseIs ==
    ASSUME NEW s \in Seq(Token), NEW p \in Calc!Call
    PROVE  /\ Calc!Parse(s)[p] = Body(s, Calc!Parse(s), p)
           /\ Result(Calc!Parse(s)[p], p.pos)
<1> DEFINE n == 3 * (Len(s) + 1) + 3
<1>1. n \in Nat /\ \A q \in Calc!Call : Todo(s, q) < n
  <2>1. Len(s) \in Nat
    OBVIOUS
  <2>2. \A q \in Calc!Call : Todo(s, q) \in Nat /\ Todo(s, q) <= 3 * (Len(s) + 1) + 2
    BY LaterIsLess
  <2> QED BY <2>1, <2>2
<1> HIDE DEF n
<1>2. PICK h : ParsesBelow(s, h, n)
  BY <1>1, ParseBelow
<1>3. \A q \in Calc!Call : h[q] = Body(s, h, q) /\ Result(h[q], q.pos)
  BY <1>1, <1>2 DEF ParsesBelow
<1> DEFINE h2 == [q \in Calc!Call |-> h[q]]
<1>4. \A q \in Calc!Call : h2[q] = h[q]
  OBVIOUS
<1>5. h2 = [q \in Calc!Call |-> h2[q]]
  OBVIOUS
<1> HIDE DEF h2
<1>6. \A q \in Calc!Call : h2[q] = Body(s, h2, q)
  <2> SUFFICES ASSUME NEW q \in Calc!Call PROVE h2[q] = Body(s, h2, q)
    OBVIOUS
  <2>1. Below(s, q, h, h2)
    BY <1>3, <1>4 DEF Below
  <2> QED BY <1>3, <1>4, <2>1, BodyAgrees
<1>7. Parses(s, h2)
  <2> HIDE DEF Body
  <2>1. [q \in Calc!Call |-> h2[q]] = [q \in Calc!Call |-> Body(s, h2, q)]
    BY <1>6
  <2> QED BY <1>5, <2>1 DEF Parses
<1>8. Parses(s, Calc!Parse(s))
  BY <1>7, ParseRuns
<1> DEFINE h3 == Calc!Parse(s)
<1>9. \A q \in Calc!Call : h3[q] = Body(s, h3, q)
  BY <1>8, ParseAt
<1> HIDE DEF h3
<1>10. ParsesBelow(s, h3, n)
  <2> DEFINE T == {m \in Nat : ParsesBelow(s, h3, m)}
  <2>1. 0 \in T
    <3>1. \A q \in Calc!Call : ~(Todo(s, q) < 0)
      BY LaterIsLess
    <3> QED BY <3>1 DEF ParsesBelow
  <2>2. ASSUME NEW m \in Nat, m \in T PROVE m + 1 \in T
    <3>1. ASSUME NEW q \in Calc!Call, Todo(s, q) < m + 1 PROVE Result(h3[q], q.pos)
      <4>1. Below(s, q, h3, h3)
        <5>1. ASSUME NEW q2 \in Calc!Call, Todo(s, q2) < Todo(s, q) PROVE Todo(s, q2) < m
          <6>1. Todo(s, q2) \in Nat /\ Todo(s, q) \in Nat
            BY LaterIsLess
          <6> QED BY <3>1, <5>1, <6>1
        <5> QED BY <2>2, <5>1 DEF Below, ParsesBelow
      <4>2. Result(Body(s, h3, q), q.pos)
        BY <4>1, BodyAgrees
      <4> QED BY <1>9, <4>2
    <3>2. ParsesBelow(s, h3, m + 1)
      BY <1>9, <3>1 DEF ParsesBelow
    <3> QED BY <3>2
  <2> HIDE DEF T
  <2>3. n \in T
    BY <1>1, <2>1, <2>2, NatInd
  <2> QED BY <2>3 DEF T
<1> QED BY <1>1, <1>10 DEF ParsesBelow, h3

-----------------------------------------------------------------------------
(* What is parsed is what the expression means.                             *)

\* From lo to hi every parenthesis is closed.
Whole(s, lo, hi) ==
    /\ Calc!Level(s, hi) = Calc!Level(s, lo)
    /\ \A j \in lo .. hi : Calc!Level(s, j) >= Calc!Level(s, lo)

\* A part that was parsed.
Parsed(s, lo, hi, tree) ==
    /\ lo < hi /\ hi \in Nat /\ hi <= Len(s) + 1
    /\ s[hi - 1] \in {"n", ")"}
    /\ Whole(s, lo, hi)
    /\ Mean(s, lo, hi) = tree /\ tree # Calc!Wrong

\* Which operators are not left in it.
Tight(s, rule, lo, hi) ==
    /\ rule # "expr" => Within(s, lo, hi, Sums) = {}
    /\ rule = "unary" => Within(s, lo, hi, Products) = {}

\* A result is right: what was read means the tree, and no looser operator
\* was read over; a refusal is one.
Sound(s, rule, lo, r) ==
    /\ r.ok => Parsed(s, lo, r.pos, r.tree) /\ Tight(s, rule, lo, r.pos)
    /\ ~r.ok => r.tree \in {Calc!Wrong, <<"domain">>}

\* A tree is no error.
LEMMA TreesAreNoErrors ==
    /\ \A a, b, c : <<a, b, c>> # Calc!Wrong
    /\ \A a, b : <<a, b>> # Calc!Wrong
    /\ <<"n">> # Calc!Wrong /\ <<"domain">> # Calc!Wrong
    /\ Calc!Wrong = <<"error">>
<1>1. \A a, b, c : <<a, b, c>> # <<"error">>
  <2> SUFFICES ASSUME NEW a, NEW b, NEW c, <<a, b, c>> = <<"error">> PROVE FALSE
    OBVIOUS
  <2>1. Len(<<a, b, c>>) = 3 /\ Len(<<"error">>) = 1
    OBVIOUS
  <2> QED BY <2>1
<1>2. \A a, b : <<a, b>> # <<"error">>
  <2> SUFFICES ASSUME NEW a, NEW b, <<a, b>> = <<"error">> PROVE FALSE
    OBVIOUS
  <2>1. Len(<<a, b>>) = 2 /\ Len(<<"error">>) = 1
    OBVIOUS
  <2> QED BY <2>1
<1>3. <<"n">> # <<"error">> /\ <<"domain">> # <<"error">>
  <2>1. <<"n">>[1] = "n" /\ <<"domain">>[1] = "domain" /\ <<"error">>[1] = "error"
    OBVIOUS
  <2> QED BY <2>1
<1> QED BY <1>1, <1>2, <1>3 DEF Calc!Wrong

\* All the operators.
Operators == Sums \cup Products \cup Powers

\* Two parts with an operator between them.
LEMMA Joined ==
    ASSUME NEW s \in Seq(Token), NEW lo \in Nat, NEW i \in Nat, NEW hi \in Nat,
           1 <= lo, lo < i, i < hi, hi <= Len(s) + 1,
           Whole(s, lo, i), Whole(s, i + 1, hi), s[i - 1] \in {"n", ")"}, s[i] \in Operators
    PROVE  /\ Whole(s, lo, hi)
           /\ \A ops : /\ Within(s, lo, hi, ops) \subseteq Within(s, lo, i, ops) \cup {i} \cup Within(s, i + 1, hi, ops)
                       /\ i \in Within(s, lo, hi, ops) <=> s[i] \in ops
<1>0. \A j \in Nat : j >= 1 => Calc!Level(s, j) \in Int
  BY LevelStep
<1>1. Calc!Level(s, i + 1) = Calc!Level(s, i) /\ Calc!Level(s, i) = Calc!Level(s, lo)
  <2>1. s[i] # "(" /\ s[i] # ")"
    BY DEF Operators, Sums, Products, Powers
  <2>2. Opens(s[i]) = 0 /\ i >= 1
    BY <2>1 DEF Opens
  <2>3. Calc!Level(s, i + 1) = Calc!Level(s, i) + 0
    BY <2>2, LevelStep
  <2> QED BY <1>0, <2>2, <2>3 DEF Whole
<1>2. Whole(s, lo, hi)
  <2>1. Calc!Level(s, hi) = Calc!Level(s, lo)
    BY <1>1 DEF Whole
  <2>2. ASSUME NEW j \in lo .. hi PROVE Calc!Level(s, j) >= Calc!Level(s, lo)
    <3>1. CASE j \in lo .. i
      BY <3>1 DEF Whole
    <3>2. CASE j \in i + 1 .. hi
      BY <1>1, <3>2 DEF Whole
    <3> QED BY <3>1, <3>2
  <2> QED BY <2>1, <2>2 DEF Whole
<1>3. ASSUME NEW ops, NEW j \in Within(s, lo, hi, ops), j # i, j \notin Within(s, i + 1, hi, ops)
      PROVE  j \in Within(s, lo, i, ops)
  <2>1. /\ j \in lo + 1 .. hi - 1 /\ s[j] \in ops /\ s[j - 1] \in {"n", ")"}
        /\ Calc!Level(s, j) = Calc!Level(s, lo)
    BY <1>3 DEF Within
  <2>2. j # i + 1
    <3>1. s[i] \notin {"n", ")"} /\ (i + 1) - 1 = i
      BY DEF Operators, Sums, Products, Powers
    <3> QED BY <2>1, <3>1
  <2>3. ~(j \in i + 2 .. hi - 1)
    <3>1. i + 2 = (i + 1) + 1
      OBVIOUS
    <3> QED BY <1>1, <1>3, <2>1, <3>1 DEF Within
  <2>4. j \in lo + 1 .. i - 1
    BY <1>3, <2>1, <2>2, <2>3
  <2> QED BY <2>1, <2>4 DEF Within
<1>4. ASSUME NEW ops PROVE i \in Within(s, lo, hi, ops) <=> s[i] \in ops
  <2>1. i \in lo + 1 .. hi - 1
    OBVIOUS
  <2> QED BY <1>1, <2>1 DEF Within
<1>5. ASSUME NEW ops
      PROVE  Within(s, lo, hi, ops) \subseteq Within(s, lo, i, ops) \cup {i} \cup Within(s, i + 1, hi, ops)
  BY <1>3
<1> QED BY <1>2, <1>4, <1>5

\* A number in a rule's operand is a number in a looser one's.
LEMMA Looser ==
    ASSUME NEW s, NEW lo, NEW r, NEW rule, Sound(s, rule, lo, r), NEW rule2,
           <<rule2, rule>> \in {<<"expr", "term">>, <<"term", "unary">>}
    PROVE  Sound(s, rule2, lo, r)
<1>1. rule \in {"term", "unary"} /\ rule2 \in {"expr", "term"} /\ (rule2 = "term" => rule = "unary")
  OBVIOUS
<1> QED BY <1>1 DEF Sound, Tight

\* A node of two trees.
LEMMA NodeIs ==
    ASSUME NEW op, NEW a, NEW b, a # Calc!Wrong, b # Calc!Wrong
    PROVE  Calc!Node(op, a, b) = <<op, a, b>> /\ <<op, a, b>> # Calc!Wrong
  BY TreesAreNoErrors DEF Calc!Node

\* The loop joins what it has and what it reads.
LEMMA SumParsed ==
    ASSUME NEW s \in Seq(Token), NEW lo \in Nat, NEW i \in Nat, NEW hi, NEW a, NEW b,
           1 <= lo, Parsed(s, lo, i, a), Parsed(s, i + 1, hi, b), s[i] \in Sums,
           Tight(s, "term", i + 1, hi)
    PROVE  Parsed(s, lo, hi, <<s[i], a, b>>) /\ Tight(s, "expr", lo, hi)
<1>1. /\ lo < i /\ i <= Len(s) + 1 /\ s[i - 1] \in {"n", ")"} /\ Whole(s, lo, i)
      /\ Mean(s, lo, i) = a /\ a # Calc!Wrong
  BY DEF Parsed
<1>2. /\ i + 1 < hi /\ hi \in Nat /\ hi <= Len(s) + 1 /\ s[hi - 1] \in {"n", ")"}
      /\ Whole(s, i + 1, hi) /\ Mean(s, i + 1, hi) = b /\ b # Calc!Wrong
  BY DEF Parsed
<1>3. Within(s, i + 1, hi, Sums) = {}
  BY DEF Tight
<1>4. /\ Whole(s, lo, hi) /\ i \in Within(s, lo, hi, Sums)
      /\ Within(s, lo, hi, Sums) \subseteq Within(s, lo, i, Sums) \cup {i}
  <2>1. s[i] \in Operators /\ i < hi
    BY <1>2 DEF Operators
  <2> QED BY <1>1, <1>2, <1>3, <2>1, Joined
<1>5. \A j \in Within(s, lo, hi, Sums) : j <= i
  <2>1. \A j \in Within(s, lo, i, Sums) : j <= i
    BY DEF Within
  <2> QED BY <1>4, <2>1
<1>6. Ends(s, lo, hi) /\ lo < hi
  BY <1>1, <1>2 DEF Ends
<1>7. Mean(s, lo, hi) = Calc!Node(s[i], a, b)
  BY <1>1, <1>2, <1>4, <1>5, <1>6, MeanSum
<1> QED BY <1>1, <1>2, <1>4, <1>6, <1>7, NodeIs DEF Parsed, Tight

\* The same, for a product.
LEMMA ProductParsed ==
    ASSUME NEW s \in Seq(Token), NEW lo \in Nat, NEW i \in Nat, NEW hi, NEW a, NEW b,
           1 <= lo, Parsed(s, lo, i, a), Parsed(s, i + 1, hi, b), s[i] \in Products,
           Tight(s, "term", lo, i), Tight(s, "unary", i + 1, hi)
    PROVE  Parsed(s, lo, hi, <<s[i], a, b>>) /\ Tight(s, "term", lo, hi)
<1>1. /\ lo < i /\ i <= Len(s) + 1 /\ s[i - 1] \in {"n", ")"} /\ Whole(s, lo, i)
      /\ Mean(s, lo, i) = a /\ a # Calc!Wrong
  BY DEF Parsed
<1>2. /\ i + 1 < hi /\ hi \in Nat /\ hi <= Len(s) + 1 /\ s[hi - 1] \in {"n", ")"}
      /\ Whole(s, i + 1, hi) /\ Mean(s, i + 1, hi) = b /\ b # Calc!Wrong
  BY DEF Parsed
<1>3. /\ Within(s, i + 1, hi, Sums) = {} /\ Within(s, i + 1, hi, Products) = {}
      /\ Within(s, lo, i, Sums) = {}
  BY DEF Tight
<1>4. /\ Whole(s, lo, hi) /\ i \in Within(s, lo, hi, Products) /\ i \notin Within(s, lo, hi, Sums)
      /\ Within(s, lo, hi, Products) \subseteq Within(s, lo, i, Products) \cup {i}
      /\ Within(s, lo, hi, Sums) \subseteq {i}
  <2>1. s[i] \in Operators /\ i < hi /\ s[i] \notin Sums
    BY <1>2 DEF Operators, Products, Sums
  <2> QED BY <1>1, <1>2, <1>3, <2>1, Joined
<1>5. \A j \in Within(s, lo, hi, Products) : j <= i
  <2>1. \A j \in Within(s, lo, i, Products) : j <= i
    BY DEF Within
  <2> QED BY <1>4, <2>1
<1>6. Ends(s, lo, hi) /\ lo < hi /\ Within(s, lo, hi, Sums) = {}
  BY <1>1, <1>2, <1>4 DEF Ends
<1>7. Mean(s, lo, hi) = Calc!Node(s[i], a, b)
  BY <1>1, <1>2, <1>4, <1>5, <1>6, MeanProduct
<1> QED BY <1>1, <1>2, <1>4, <1>6, <1>7, NodeIs DEF Parsed, Tight

\* A power: what is before the first ^ has none.
LEMMA PowerParsed ==
    ASSUME NEW s \in Seq(Token), NEW lo \in Nat, NEW i \in Nat, NEW hi, NEW a, NEW b,
           1 <= lo, Parsed(s, lo, i, a), Parsed(s, i + 1, hi, b), s[i] = "^",
           Tight(s, "unary", lo, i), Tight(s, "unary", i + 1, hi),
           Within(s, lo, i, Powers) = {}, s[lo] \notin Sums
    PROVE  Parsed(s, lo, hi, <<"^", a, b>>) /\ Tight(s, "unary", lo, hi)
<1>1. /\ lo < i /\ i <= Len(s) + 1 /\ s[i - 1] \in {"n", ")"} /\ Whole(s, lo, i)
      /\ Mean(s, lo, i) = a /\ a # Calc!Wrong
  BY DEF Parsed
<1>2. /\ i + 1 < hi /\ hi \in Nat /\ hi <= Len(s) + 1 /\ s[hi - 1] \in {"n", ")"}
      /\ Whole(s, i + 1, hi) /\ Mean(s, i + 1, hi) = b /\ b # Calc!Wrong
  BY DEF Parsed
<1>3. /\ Within(s, i + 1, hi, Sums) = {} /\ Within(s, i + 1, hi, Products) = {}
      /\ Within(s, lo, i, Sums) = {} /\ Within(s, lo, i, Products) = {}
  BY DEF Tight
<1>4. /\ Whole(s, lo, hi) /\ i \in Within(s, lo, hi, Powers)
      /\ Within(s, lo, hi, Products) = {} /\ Within(s, lo, hi, Sums) = {}
      /\ Within(s, lo, hi, Powers) \subseteq {i} \cup Within(s, i + 1, hi, Powers)
  <2>1. s[i] \in Operators /\ i < hi /\ s[i] \notin Sums /\ s[i] \notin Products /\ s[i] \in Powers
    BY <1>2 DEF Operators, Products, Sums, Powers
  <2>2. /\ Whole(s, lo, hi)
        /\ \A ops : /\ Within(s, lo, hi, ops) \subseteq Within(s, lo, i, ops) \cup {i} \cup Within(s, i + 1, hi, ops)
                    /\ i \in Within(s, lo, hi, ops) <=> s[i] \in ops
    BY <1>1, <1>2, <2>1, Joined
  <2>3. Within(s, lo, hi, Products) = {}
    BY <1>3, <2>1, <2>2
  <2>4. Within(s, lo, hi, Sums) = {}
    BY <1>3, <2>1, <2>2
  <2> QED BY <2>1, <2>2, <2>3, <2>4
<1>5. \A j \in Within(s, lo, hi, Powers) : i <= j
  <2>1. \A j \in Within(s, i + 1, hi, Powers) : i <= j
    BY DEF Within
  <2> QED BY <1>4, <2>1
<1>6. Ends(s, lo, hi) /\ lo < hi
  BY <1>1, <1>2 DEF Ends
<1>7. Mean(s, lo, hi) = Calc!Node("^", a, b)
  BY <1>1, <1>2, <1>4, <1>5, <1>6, MeanPower
<1> QED BY <1>1, <1>2, <1>4, <1>6, <1>7, NodeIs DEF Parsed, Tight

\* A sign in front.
LEMMA SignedParsed ==
    ASSUME NEW s \in Seq(Token), NEW lo \in Nat, NEW hi, NEW a,
           1 <= lo, Parsed(s, lo + 1, hi, a), s[lo] \in Sums, Tight(s, "unary", lo + 1, hi)
    PROVE  /\ Parsed(s, lo, hi, IF s[lo] = "-" THEN <<"neg", a>> ELSE a)
           /\ Tight(s, "unary", lo, hi)
<1>0. \A j \in Nat : j >= 1 => Calc!Level(s, j) \in Int
  BY LevelStep
<1>1. /\ lo + 1 < hi /\ hi \in Nat /\ hi <= Len(s) + 1 /\ s[hi - 1] \in {"n", ")"}
      /\ Whole(s, lo + 1, hi) /\ Mean(s, lo + 1, hi) = a /\ a # Calc!Wrong
  BY DEF Parsed
<1>2. Calc!Level(s, lo + 1) = Calc!Level(s, lo)
  <2>1. Opens(s[lo]) = 0
    BY DEF Opens, Sums
  <2>2. Calc!Level(s, lo + 1) = Calc!Level(s, lo) + 0
    BY <2>1, LevelStep
  <2> QED BY <1>0, <2>2
<1>3. Whole(s, lo, hi)
  <2>1. \A j \in lo .. hi : j = lo \/ j \in lo + 1 .. hi
    OBVIOUS
  <2> QED BY <1>0, <1>2, <1>1, <2>1 DEF Whole
<1>4. \A ops : Within(s, lo, hi, ops) \subseteq Within(s, lo + 1, hi, ops)
  <2> SUFFICES ASSUME NEW ops, NEW j \in Within(s, lo, hi, ops)
               PROVE  j \in Within(s, lo + 1, hi, ops)
    OBVIOUS
  <2>1. /\ j \in lo + 1 .. hi - 1 /\ s[j] \in ops /\ s[j - 1] \in {"n", ")"}
        /\ Calc!Level(s, j) = Calc!Level(s, lo)
    BY DEF Within
  <2>2. j # lo + 1
    <3>1. s[lo] \notin {"n", ")"} /\ (lo + 1) - 1 = lo
      BY DEF Sums
    <3> QED BY <2>1, <3>1
  <2>3. j \in (lo + 1) + 1 .. hi - 1
    BY <2>1, <2>2
  <2> QED BY <1>2, <2>1, <2>3 DEF Within
<1>5. Within(s, lo, hi, Sums) = {} /\ Within(s, lo, hi, Products) = {}
  BY <1>4 DEF Tight
<1>6. Ends(s, lo, hi) /\ lo < hi
  BY <1>1 DEF Ends
<1>7. Mean(s, lo, hi) = IF s[lo] = "-" THEN <<"neg", a>> ELSE a
  BY <1>1, <1>5, <1>6, MeanSign
<1>8. (IF s[lo] = "-" THEN <<"neg", a>> ELSE a) # Calc!Wrong
  BY <1>1, TreesAreNoErrors
<1> QED BY <1>1, <1>3, <1>5, <1>6, <1>7, <1>8 DEF Parsed, Tight

\* An atom: nothing cuts it, and no sign is in front.
Single(s, lo, hi, a) ==
    /\ Parsed(s, lo, hi, a) /\ Tight(s, "unary", lo, hi)
    /\ Within(s, lo, hi, Powers) = {} /\ s[lo] \notin Sums

\* A number is an atom.
LEMMA NumberParsed ==
    ASSUME NEW s \in Seq(Token), NEW lo \in Nat, 1 <= lo, lo <= Len(s), s[lo] = "n"
    PROVE  Single(s, lo, lo + 1, <<"n">>)
<1>0. \A j \in Nat : j >= 1 => Calc!Level(s, j) \in Int
  BY LevelStep
<1>1. Calc!Level(s, lo + 1) = Calc!Level(s, lo)
  <2>1. Opens(s[lo]) = 0
    BY DEF Opens
  <2>2. Calc!Level(s, lo + 1) = Calc!Level(s, lo) + 0
    BY <2>1, LevelStep
  <2> QED BY <1>0, <2>2
<1>2. Whole(s, lo, lo + 1)
  <2>1. \A j \in lo .. lo + 1 : j = lo \/ j = lo + 1
    OBVIOUS
  <2> QED BY <1>0, <1>1, <2>1 DEF Whole
<1>3. \A ops : Within(s, lo, lo + 1, ops) = {}
  BY DEF Within
<1>4. Ends(s, lo, lo + 1) /\ lo < lo + 1 /\ s[lo] \notin Sums /\ (lo + 1) - 1 = lo
  BY DEF Ends, Sums
<1>5. Mean(s, lo, lo + 1) = <<"n">>
  BY <1>3, <1>4, MeanAtom
<1> QED BY <1>2, <1>3, <1>4, <1>5, TreesAreNoErrors DEF Single, Parsed, Tight, Ends

\* So is what was read between parentheses, with the parentheses.
LEMMA ParensParsed ==
    ASSUME NEW s \in Seq(Token), NEW lo \in Nat, NEW j \in Nat, 1 <= lo, j <= Len(s), NEW a,
           s[lo] = "(", s[j] = ")", Parsed(s, lo + 1, j, a)
    PROVE  Single(s, lo, j + 1, a)
<1>0. \A k \in Nat : k >= 1 => Calc!Level(s, k) \in Int
  BY LevelStep
<1>1. lo + 1 < j /\ Whole(s, lo + 1, j) /\ Mean(s, lo + 1, j) = a /\ a # Calc!Wrong
  BY DEF Parsed
<1>2. Calc!Level(s, lo + 1) = Calc!Level(s, lo) + 1
  <2>1. Opens(s[lo]) = 1
    BY DEF Opens
  <2> QED BY <2>1, LevelStep
<1>3. Calc!Level(s, j + 1) = Calc!Level(s, lo) /\ Calc!Level(s, j) = Calc!Level(s, lo) + 1
  <2>1. Opens(s[j]) = -1 /\ j >= 1
    BY <1>1 DEF Opens
  <2>2. Calc!Level(s, j + 1) = Calc!Level(s, j) + -1
    BY <2>1, LevelStep
  <2>3. Calc!Level(s, j) = Calc!Level(s, lo) + 1
    BY <1>1, <1>2 DEF Whole
  <2> QED BY <1>0, <2>1, <2>2, <2>3
<1>4. \A k \in lo + 1 .. j : Calc!Level(s, k) >= Calc!Level(s, lo) + 1
  BY <1>1, <1>2 DEF Whole
<1>5. Whole(s, lo, j + 1)
  <2> SUFFICES ASSUME NEW k \in lo .. j + 1 PROVE Calc!Level(s, k) >= Calc!Level(s, lo)
    BY <1>3 DEF Whole
  <2>1. k \in Nat /\ k >= 1 /\ Calc!Level(s, k) \in Int /\ Calc!Level(s, lo) \in Int
    BY <1>0
  <2>2. CASE k = lo
    BY <2>1, <2>2
  <2>3. CASE k = j + 1
    BY <1>3, <2>1, <2>3
  <2>4. CASE k \in lo + 1 .. j
    BY <1>4, <2>1, <2>4
  <2> QED BY <2>2, <2>3, <2>4
<1>6. \A ops : Within(s, lo, j + 1, ops) = {}
  <2> SUFFICES ASSUME NEW ops, NEW k \in Within(s, lo, j + 1, ops) PROVE FALSE
    OBVIOUS
  <2>1. k \in lo + 1 .. (j + 1) - 1 /\ Calc!Level(s, k) = Calc!Level(s, lo)
    BY DEF Within
  <2>2. k \in lo + 1 .. j /\ Calc!Level(s, lo) \in Int
    BY <1>0, <2>1
  <2> QED BY <1>4, <2>1, <2>2
<1>7. /\ Ends(s, lo, j + 1) /\ lo < j + 1 /\ s[lo] \notin Sums /\ (j + 1) - 1 = j
      /\ lo + 1 < j + 1 /\ j + 1 # lo + 1 /\ s[lo] # "n"
  BY <1>1 DEF Ends, Sums
<1>8. Mean(s, lo, j + 1) = a
  BY <1>1, <1>6, <1>7, MeanAtom
<1> QED BY <1>1, <1>5, <1>6, <1>7, <1>8 DEF Single, Parsed, Tight, Ends

\* The calls with less to do are sound.
SoundBelow(s, p) ==
    \A q \in Calc!Call : /\ q.pos >= 1 /\ q.pos <= Len(s) + 1 /\ Todo(s, q) < Todo(s, p)
                         => Sound(s, q.rule, q.pos, Calc!Parse(s)[q])

\* A turn of a loop keeps what was read right.
LEMMA TurnSound ==
    ASSUME NEW s \in Seq(Token), NEW p \in Calc!Call, p.pos >= 1, SoundBelow(s, p),
           NEW rule, NEW ops, NEW l, Result(l, p.pos), Sound(s, p.rule, p.pos, l),
           <<p.rule, rule, ops>> \in {<<"expr", "term", Sums>>, <<"term", "unary", Products>>}
    PROVE  LET v == Calc!Turn(s, p, Calc!Parse(s), rule, ops, l)
           IN Result(v, p.pos) /\ Sound(s, p.rule, p.pos, v)
<1> DEFINE h == Calc!Parse(s)
           v == Calc!Turn(s, p, h, rule, ops, l)
           lo == p.pos
           i == l.pos
           q == Then(p, rule, i + 1)
           r == h[q]
           tree == IF r.ok THEN <<s[i], l.tree, r.tree>> ELSE r.tree
           deep == Calc!Larger(r.deep, l.deep)
<1> SUFFICES Result(v, lo) /\ Sound(s, p.rule, lo, v)
  OBVIOUS
<1>0. /\ lo \in Nat /\ i \in Nat /\ i + 1 \in Nat /\ l.ok \in BOOLEAN /\ lo <= i
      /\ rule \in {"expr", "term", "unary"} /\ "." \notin ops
  BY DEF Result, Calc!Call, Sums, Products
<1>1. CASE ~l.ok \/ Calc!Peek(s, i) \notin ops
  <2>1. v = l
    BY <1>1 DEF Calc!Turn
  <2> HIDE DEF v
  <2> QED BY <2>1
<1>2. CASE l.ok /\ Calc!Peek(s, i) \in ops
  <2>1. v = Retreed(r, tree, deep)
    BY <1>2, TurnIs
  <2>2. i <= Len(s) /\ s[i] \in ops
    BY <1>0, <1>2, PeekEnds
  <2>3. q \in Calc!Call /\ q.rule = rule /\ q.pos = i + 1
    <3>1. i + 1 \in Nat /\ rule \in {"expr", "term", "unary"}
      BY <1>0
    <3> QED BY <3>1, Calling
  <2>4. Result(r, i + 1)
    BY <2>3, ParseIs
  <2>5. Todo(s, q) < Todo(s, p)
    <3> HIDE DEF q
    <3> QED BY <1>0, <2>2, <2>3, LaterIsLess
  <2> HIDE DEF v, r, q, h
  <2>6. Sound(s, rule, i + 1, r)
    <3>1. i + 1 >= 1 /\ i + 1 <= Len(s) + 1
      BY <1>0, <2>2
    <3> QED BY <2>3, <2>5, <3>1 DEF SoundBelow, r, h
  <2>7. /\ v = [ok |-> r.ok, tree |-> tree, pos |-> r.pos, deep |-> deep]
        /\ r.ok \in BOOLEAN /\ r.pos \in Nat /\ r.pos >= i + 1
    <3> HIDE DEF tree, deep
    <3> QED BY <2>1, <2>4, Changed DEF Result
  <2>8. Result(v, lo)
    <3> HIDE DEF tree, deep
    <3> QED BY <1>0, <2>7 DEF Result
  <2>9. v.ok = r.ok /\ v.tree = tree /\ v.pos = r.pos
    BY <2>7
  <2>10. CASE r.ok
    <3>1. /\ Parsed(s, lo, i, l.tree) /\ Tight(s, p.rule, lo, i)
          /\ Parsed(s, i + 1, r.pos, r.tree) /\ Tight(s, rule, i + 1, r.pos)
      BY <1>2, <2>6, <2>10 DEF Sound
    <3>2. tree = <<s[i], l.tree, r.tree>>
      BY <2>10
    <3> HIDE DEF lo, i, tree
    <3>3. Parsed(s, lo, r.pos, tree) /\ Tight(s, p.rule, lo, r.pos)
      <4>1. 1 <= lo
        BY <1>0 DEF lo
      <4>2. CASE p.rule = "expr" /\ rule = "term" /\ ops = Sums
        BY <1>0, <2>2, <3>1, <3>2, <4>1, <4>2, SumParsed
      <4>3. CASE p.rule = "term" /\ rule = "unary" /\ ops = Products
        BY <1>0, <2>2, <3>1, <3>2, <4>1, <4>3, ProductParsed
      <4> QED BY <4>2, <4>3
    <3> QED BY <2>8, <2>9, <2>10, <3>3 DEF Sound, lo
  <2>11. CASE ~r.ok
    <3>1. tree = r.tree /\ r.tree \in {Calc!Wrong, <<"domain">>}
      BY <2>6, <2>11 DEF Sound
    <3> QED BY <2>8, <2>9, <2>11, <3>1 DEF Sound
  <2> QED BY <2>10, <2>11
<1> QED BY <1>0, <1>1, <1>2

\* So the loop returns it right.
LEMMA LoopSound ==
    ASSUME NEW s \in Seq(Token), NEW p \in Calc!Call, p.pos >= 1, p.pos <= Len(s) + 1,
           SoundBelow(s, p), NEW rule, NEW ops,
           <<p.rule, rule, ops>> \in {<<"expr", "term", Sums>>, <<"term", "unary", Products>>}
    PROVE  Sound(s, p.rule, p.pos, Calc!Operands(s, p, Calc!Parse(s), rule, ops))
<1> DEFINE h == Calc!Parse(s)
           q == First(p, rule)
<1>1. rule \in {"expr", "term", "unary"} /\ p.pos \in Nat
      /\ <<p.rule, rule>> \in {<<"expr", "term">>, <<"term", "unary">>}
  BY DEF Calc!Call
<1>2. q \in Calc!Call /\ q.rule = rule /\ q.pos = p.pos
  BY <1>1, Deeper
<1> HIDE DEF q, h
<1>3. Todo(s, q) < Todo(s, p)
  BY <1>1, <1>2, LaterIsLess
<1>4. Result(h[q], p.pos) /\ Sound(s, p.rule, p.pos, h[q])
  <2>1. Result(h[q], p.pos)
    BY <1>2, ParseIs DEF h
  <2>2. Sound(s, rule, p.pos, h[q])
    BY <1>2, <1>3 DEF SoundBelow, h
  <2> QED BY <1>1, <2>1, <2>2, Looser
<1>5. PICK f : /\ f[0] = h[q]
               /\ \A k \in 1 .. Len(s) : f[k] = Calc!Turn(s, p, h, rule, ops, f[k - 1])
               /\ Calc!Operands(s, p, h, rule, ops) = f[Len(s)]
  BY LoopRuns DEF q
<1> DEFINE T == {n \in Nat : n \in 0 .. Len(s) =>
                     Result(f[n], p.pos) /\ Sound(s, p.rule, p.pos, f[n])}
<1>6. 0 \in T
  BY <1>4, <1>5
<1>7. ASSUME NEW n \in Nat, n \in T PROVE n + 1 \in T
  <2> SUFFICES ASSUME n + 1 \in 0 .. Len(s)
               PROVE  Result(f[n + 1], p.pos) /\ Sound(s, p.rule, p.pos, f[n + 1])
    OBVIOUS
  <2>1. n \in 0 .. Len(s) /\ n + 1 \in 1 .. Len(s) /\ (n + 1) - 1 = n
    OBVIOUS
  <2>2. Result(f[n], p.pos) /\ Sound(s, p.rule, p.pos, f[n])
    BY <1>7, <2>1
  <2>3. f[n + 1] = Calc!Turn(s, p, h, rule, ops, f[n])
    BY <1>5, <2>1
  <2> QED BY <2>2, <2>3, TurnSound DEF h
<1> HIDE DEF T
<1>8. Len(s) \in T
  BY <1>6, <1>7, NatInd
<1> QED BY <1>5, <1>8 DEF T, h

\* A refusal says why.
LEMMA RefusalsSound ==
    ASSUME NEW s, NEW p, NEW rule, NEW lo
    PROVE  Sound(s, rule, lo, Calc!TooDeep(p)) /\ Sound(s, rule, lo, Calc!Fail(p))
  BY TreesAreNoErrors DEF Sound, Calc!TooDeep, Calc!Fail

\* An atom stands alone.
LEMMA AtomSound ==
    ASSUME NEW s \in Seq(Token), NEW p \in Calc!Call, p.pos >= 1, SoundBelow(s, p)
    PROVE  LET b == Calc!Atom(s, p, Calc!Parse(s))
           IN /\ b.ok => Single(s, p.pos, b.pos, b.tree)
              /\ ~b.ok => b.tree \in {Calc!Wrong, <<"domain">>}
<1> DEFINE h == Calc!Parse(s)
           b == Calc!Atom(s, p, h)
           lo == p.pos
<1> SUFFICES /\ b.ok => Single(s, lo, b.pos, b.tree)
             /\ ~b.ok => b.tree \in {Calc!Wrong, <<"domain">>}
  OBVIOUS
<1>0. lo \in Nat /\ 1 <= lo
  BY DEF Calc!Call
<1>1. CASE Calc!Peek(s, lo) = "(" /\ p.depth + 1 > MaxDepth
  <2>1. b = Calc!TooDeep(p)
    BY <1>1, AtomIs
  <2> HIDE DEF b
  <2> QED BY <2>1 DEF Calc!TooDeep
<1>2. CASE Calc!Peek(s, lo) = "(" /\ ~(p.depth + 1 > MaxDepth)
  <2> DEFINE q == Inside(p)
             r == h[q]
  <2>1. q \in Calc!Call /\ q.pos = lo + 1 /\ q.rule = "expr"
    BY Deeper
  <2>2. lo <= Len(s) /\ s[lo] = "("
    BY <1>0, <1>2, PeekEnds
  <2>3. /\ ~r.ok => b = r
        /\ r.ok /\ Calc!Peek(s, r.pos) # ")" => b = Refused(r, <<"error">>)
        /\ r.ok /\ Calc!Peek(s, r.pos) = ")" => b = Moved(r, r.pos + 1)
    BY <1>2, AtomIs
  <2>4. Result(r, lo + 1)
    BY <2>1, ParseIs
  <2> HIDE DEF q, b, h
  <2>5. Todo(s, q) < Todo(s, p)
    BY <1>0, <2>1, <2>2, LaterIsLess
  <2>6. Sound(s, "expr", lo + 1, r)
    <3>1. lo + 1 >= 1 /\ lo + 1 <= Len(s) + 1
      BY <1>0, <2>2
    <3> QED BY <2>1, <2>5, <3>1 DEF SoundBelow, h
  <2> HIDE DEF r
  <2>7. r.ok \in BOOLEAN /\ r.pos \in Nat
    BY <2>4 DEF Result
  <2>8. CASE ~r.ok
    BY <2>3, <2>6, <2>8 DEF Sound
  <2>9. CASE r.ok /\ Calc!Peek(s, r.pos) # ")"
    <3>1. b = [ok |-> FALSE, tree |-> <<"error">>, pos |-> r.pos, deep |-> r.deep]
      BY <2>3, <2>4, <2>9, Changed
    <3> QED BY <3>1, TreesAreNoErrors
  <2>10. CASE r.ok /\ Calc!Peek(s, r.pos) = ")"
    <3>1. b = [ok |-> r.ok, tree |-> r.tree, pos |-> r.pos + 1, deep |-> r.deep]
      BY <2>3, <2>4, <2>10, Changed
    <3>2. b.ok /\ b.tree = r.tree /\ b.pos = r.pos + 1
      BY <2>10, <3>1
    <3>3. r.pos <= Len(s) /\ s[r.pos] = ")"
      BY <2>7, <2>10, PeekEnds
    <3>4. Parsed(s, lo + 1, r.pos, r.tree)
      BY <2>6, <2>10 DEF Sound
    <3>5. Single(s, lo, r.pos + 1, r.tree)
      <4> HIDE DEF lo
      <4> QED BY <1>0, <2>2, <2>7, <3>3, <3>4, ParensParsed
    <3> QED BY <3>2, <3>5
  <2> QED BY <2>7, <2>8, <2>9, <2>10
<1>3. CASE Calc!Peek(s, lo) = "n"
  <2>1. b = [ok |-> TRUE, tree |-> <<"n">>, pos |-> lo + 1, deep |-> p.calls]
    BY <1>3, AtomIs
  <2>2. lo <= Len(s) /\ s[lo] = "n"
    BY <1>0, <1>3, PeekEnds
  <2>3. Single(s, lo, lo + 1, <<"n">>)
    <3> HIDE DEF lo
    <3> QED BY <1>0, <2>2, NumberParsed
  <2> HIDE DEF b
  <2> QED BY <2>1, <2>3
<1>4. CASE Calc!Peek(s, lo) \notin {"(", "n"}
  <2>1. b = Calc!Fail(p)
    BY <1>4, AtomIs
  <2> HIDE DEF b
  <2> QED BY <2>1, TreesAreNoErrors DEF Calc!Fail
<1> QED BY <1>1, <1>2, <1>3, <1>4

\* A power is right: the ^ binds tighter than what its operand leaves.
LEMMA PowerSound ==
    ASSUME NEW s \in Seq(Token), NEW p \in Calc!Call, p.pos >= 1, SoundBelow(s, p)
    PROVE  Sound(s, "unary", p.pos, Calc!Power(s, p, Calc!Parse(s)))
<1> DEFINE h == Calc!Parse(s)
           b == Calc!Atom(s, p, h)
           v == Calc!Power(s, p, h)
           lo == p.pos
           i == b.pos
           q == Then(p, "unary", i + 1)
           e == h[q]
           tree == IF e.ok THEN <<"^", b.tree, e.tree>> ELSE e.tree
           deep == Calc!Larger(e.deep, b.deep)
<1> SUFFICES Sound(s, "unary", lo, v)
  OBVIOUS
<1>0. /\ b.ok => Single(s, lo, i, b.tree)
      /\ ~b.ok => b.tree \in {Calc!Wrong, <<"domain">>}
  BY AtomSound
<1>1. b.ok \in BOOLEAN /\ i \in Nat /\ lo \in Nat /\ lo <= i /\ i + 1 \in Nat
  <2>1. Below(s, p, h, h)
    BY ParseIs DEF Below
  <2>2. Result(b, lo)
    BY <2>1, AtomAgrees
  <2> HIDE DEF b
  <2> QED BY <2>2 DEF Result, Calc!Call
<1>2. CASE ~b.ok \/ Calc!Peek(s, i) # "^"
  <2>1. v = b
    BY <1>2, PowerIs
  <2> HIDE DEF b, v
  <2> QED BY <1>0, <1>1, <2>1 DEF Sound, Single
<1>3. CASE b.ok /\ Calc!Peek(s, i) = "^"
  <2>1. v = Retreed(e, tree, deep)
    BY <1>3, PowerIs
  <2> HIDE DEF b, v
  <2>2. i <= Len(s) /\ s[i] = "^"
    BY <1>1, <1>3, PeekEnds
  <2>3. q \in Calc!Call /\ q.rule = "unary" /\ q.pos = i + 1
    <3> HIDE DEF i, h
    <3> QED BY <1>1, CallingUnary
  <2>4. Result(e, i + 1)
    BY <2>3, ParseIs
  <2> HIDE DEF q, e, h
  <2>5. Todo(s, q) < Todo(s, p)
    BY <1>1, <2>2, <2>3, LaterIsLess
  <2>6. Sound(s, "unary", i + 1, e)
    <3>1. i + 1 >= 1 /\ i + 1 <= Len(s) + 1
      BY <1>1, <2>2
    <3> QED BY <2>3, <2>5, <3>1 DEF SoundBelow, e, h
  <2>7. v.ok = e.ok /\ v.tree = tree /\ v.pos = e.pos /\ e.ok \in BOOLEAN
    <3> HIDE DEF tree, deep
    <3>1. v = [ok |-> e.ok, tree |-> tree, pos |-> e.pos, deep |-> deep]
      BY <2>1, <2>4, Changed
    <3> QED BY <2>4, <3>1 DEF Result
  <2>8. CASE e.ok
    <3>1. /\ Parsed(s, i + 1, e.pos, e.tree) /\ Tight(s, "unary", i + 1, e.pos)
          /\ Single(s, lo, i, b.tree)
      BY <1>0, <1>3, <2>6, <2>8 DEF Sound
    <3>2. /\ Parsed(s, lo, i, b.tree) /\ Tight(s, "unary", lo, i)
          /\ Within(s, lo, i, Powers) = {} /\ s[lo] \notin Sums /\ 1 <= lo
      BY <1>1, <3>1 DEF Single
    <3>3. tree = <<"^", b.tree, e.tree>>
      BY <2>8
    <3> HIDE DEF lo, i, tree
    <3>4. Parsed(s, lo, e.pos, tree) /\ Tight(s, "unary", lo, e.pos)
      BY <1>1, <2>2, <3>1, <3>2, <3>3, PowerParsed
    <3> QED BY <2>7, <2>8, <3>4 DEF Sound, lo
  <2>9. CASE ~e.ok
    <3>1. tree = e.tree /\ e.tree \in {Calc!Wrong, <<"domain">>}
      BY <2>6, <2>9 DEF Sound
    <3> QED BY <2>7, <2>9, <3>1 DEF Sound
  <2> QED BY <2>7, <2>8, <2>9
<1> QED BY <1>1, <1>2, <1>3

\* An operand is right, whatever signs it has.
LEMMA UnarySound ==
    ASSUME NEW s \in Seq(Token), NEW from \in Calc!Call, from.pos >= 1, from.rule = "unary",
           SoundBelow(s, from)
    PROVE  Sound(s, "unary", from.pos, Calc!Unary(s, from, Calc!Parse(s)))
<1> DEFINE h == Calc!Parse(s)
           p == Counting(from)
           v == Calc!Unary(s, from, h)
           q == Signed(p)
           r == h[q]
           lo == from.pos
<1> SUFFICES Sound(s, "unary", lo, v)
  OBVIOUS
<1>1. p \in Calc!Call /\ p.pos = lo /\ p.rule = "unary" /\ lo \in Nat /\ 1 <= lo
  <2>1. from.rule \in {"expr", "term", "unary"} /\ from.pos \in Nat
    BY DEF Calc!Call
  <2> QED BY <2>1, Deeper
<1>2. SoundBelow(s, p)
  <2>1. Todo(s, p) = Todo(s, from)
    BY <1>1 DEF Todo
  <2> QED BY <2>1 DEF SoundBelow
<1>3. /\ Calc!Peek(s, p.pos) \notin Sums => v = Calc!Power(s, p, h)
      /\ Calc!Peek(s, p.pos) \in Sums /\ p.depth + 1 > MaxDepth => v = Calc!TooDeep(p)
      /\ Calc!Peek(s, p.pos) \in Sums /\ ~(p.depth + 1 > MaxDepth) =>
           v = IF r.ok /\ s[p.pos] = "-" THEN Negated(r, <<"neg", r.tree>>) ELSE r
  BY UnaryIs
<1> HIDE DEF p, v
<1>4. CASE Calc!Peek(s, p.pos) \notin Sums
  <2>1. p.pos >= 1
    BY <1>1
  <2> QED BY <1>1, <1>2, <1>3, <1>4, <2>1, PowerSound
<1>5. CASE Calc!Peek(s, p.pos) \in Sums /\ p.depth + 1 > MaxDepth
  BY <1>3, <1>5, RefusalsSound
<1>6. CASE Calc!Peek(s, p.pos) \in Sums /\ ~(p.depth + 1 > MaxDepth)
  <2>1. q \in Calc!Call /\ q.pos = lo + 1 /\ q.rule = "unary"
    BY <1>1, Deeper
  <2>2. lo <= Len(s) /\ s[lo] \in Sums
    BY <1>1, <1>6, PeekEnds DEF Sums
  <2>3. Result(r, lo + 1)
    BY <2>1, ParseIs
  <2>4. v = IF r.ok /\ s[lo] = "-" THEN Negated(r, <<"neg", r.tree>>) ELSE r
    BY <1>1, <1>3, <1>6
  <2> HIDE DEF q, h
  <2>5. Todo(s, q) < Todo(s, p)
    BY <1>1, <2>1, <2>2, LaterIsLess
  <2>6. Sound(s, "unary", lo + 1, r)
    <3>1. lo + 1 >= 1 /\ lo + 1 <= Len(s) + 1
      BY <1>1, <2>2
    <3> QED BY <1>2, <2>1, <2>5, <3>1 DEF SoundBelow, h
  <2> HIDE DEF r
  <2>7. r.ok \in BOOLEAN
    BY <2>3 DEF Result
  <2>8. CASE ~r.ok
    BY <2>4, <2>6, <2>8 DEF Sound
  <2>9. CASE r.ok
    <3> DEFINE tree == IF s[lo] = "-" THEN <<"neg", r.tree>> ELSE r.tree
    <3>1. v.ok /\ v.tree = tree /\ v.pos = r.pos
      <4>1. CASE s[lo] = "-"
        <5>1. v = [ok |-> r.ok, tree |-> <<"neg", r.tree>>, pos |-> r.pos, deep |-> r.deep]
          BY <2>3, <2>4, <2>9, <4>1, Changed
        <5> QED BY <2>9, <4>1, <5>1
      <4>2. CASE s[lo] # "-"
        BY <2>4, <2>9, <4>2
      <4> QED BY <4>1, <4>2
    <3>2. Parsed(s, lo + 1, r.pos, r.tree) /\ Tight(s, "unary", lo + 1, r.pos)
      BY <2>6, <2>9 DEF Sound
    <3>3. Parsed(s, lo, r.pos, tree) /\ Tight(s, "unary", lo, r.pos)
      <4> HIDE DEF lo
      <4> QED BY <1>1, <2>2, <3>2, SignedParsed
    <3> HIDE DEF tree
    <3> QED BY <3>1, <3>3 DEF Sound
  <2> QED BY <2>7, <2>8, <2>9
<1> QED BY <1>4, <1>5, <1>6 DEF v

\* Whatever the parser was called for.
LEMMA ParseSound ==
    ASSUME NEW s \in Seq(Token), NEW p \in Calc!Call, p.pos >= 1, p.pos <= Len(s) + 1
    PROVE  Sound(s, p.rule, p.pos, Calc!Parse(s)[p])
<1> DEFINE T == {n \in Nat : \A q \in Calc!Call :
                     q.pos >= 1 /\ q.pos <= Len(s) + 1 /\ Todo(s, q) < n =>
                         Sound(s, q.rule, q.pos, Calc!Parse(s)[q])}
<1>0. \A q \in Calc!Call : Todo(s, q) \in Nat
  BY LaterIsLess
<1>1. 0 \in T
  BY <1>0
<1>2. ASSUME NEW n \in Nat, n \in T PROVE n + 1 \in T
  <2> SUFFICES ASSUME NEW q \in Calc!Call, q.pos >= 1, q.pos <= Len(s) + 1, Todo(s, q) < n + 1
               PROVE  Sound(s, q.rule, q.pos, Calc!Parse(s)[q])
    OBVIOUS
  <2>1. SoundBelow(s, q)
    <3>1. ASSUME NEW q2 \in Calc!Call, Todo(s, q2) < Todo(s, q) PROVE Todo(s, q2) < n
      BY <1>0, <3>1
    <3> QED BY <1>2, <3>1 DEF SoundBelow
  <2> HIDE DEF T
  <2>2. Calc!Parse(s)[q] = Body(s, Calc!Parse(s), q)
    BY ParseIs
  <2>3. CASE q.rule = "expr"
    <3>1. Calc!Parse(s)[q] = Calc!Operands(s, q, Calc!Parse(s), "term", Sums)
      BY <2>2, <2>3 DEF Body, Calc!Expr, Sums
    <3>2. <<q.rule, "term", Sums>> \in {<<"expr", "term", Sums>>, <<"term", "unary", Products>>}
      BY <2>3
    <3> QED BY <2>1, <3>1, <3>2, LoopSound
  <2>4. CASE q.rule = "term"
    <3>1. Calc!Parse(s)[q] = Calc!Operands(s, q, Calc!Parse(s), "unary", Products)
      BY <2>2, <2>4 DEF Body, Calc!Term, Products
    <3>2. <<q.rule, "unary", Products>> \in {<<"expr", "term", Sums>>, <<"term", "unary", Products>>}
      BY <2>4
    <3> QED BY <2>1, <3>1, <3>2, LoopSound
  <2>5. CASE q.rule = "unary"
    <3>1. Calc!Parse(s)[q] = Calc!Unary(s, q, Calc!Parse(s))
      BY <2>2, <2>5 DEF Body
    <3> QED BY <2>1, <2>5, <3>1, UnarySound
  <2> QED BY <2>3, <2>4, <2>5 DEF Calc!Call
<1> HIDE DEF T
<1>3. Todo(s, p) + 1 \in T
  <2>1. Nat \subseteq T
    BY <1>1, <1>2, NatInd
  <2> QED BY <1>0, <2>1
<1> QED BY <1>0, <1>3 DEF T

-----------------------------------------------------------------------------
(* What has a meaning is parsed, unless it is too deep.                     *)

\* The parser got to hi, or gave up at the depth.
Reaches(r, hi) ==
    \/ r.ok /\ r.pos = hi
    \/ ~r.ok /\ r.tree = <<"domain">>

\* f holds the turns of a loop.
Loops(s, p, rule, ops, f) ==
    /\ f[0] = Calc!Parse(s)[First(p, rule)]
    /\ \A k \in 1 .. Len(s) : f[k] = Calc!Turn(s, p, Calc!Parse(s), rule, ops, f[k - 1])

\* A part that means something.
Meaningful(s, lo, hi) == 1 <= lo /\ lo <= hi /\ hi <= Len(s) + 1 /\ Mean(s, lo, hi) # Calc!Wrong

\* An atom is read to its end.
AtomDone(s, p, hi) ==
    /\ Within(s, p.pos, hi, Sums) = {} /\ Within(s, p.pos, hi, Products) = {}
    /\ Within(s, p.pos, hi, Powers) = {} /\ s[p.pos] \notin Sums
    => Reaches(Calc!Atom(s, p, Calc!Parse(s)), hi)

\* So is an operand, unless a ^ stands behind it.
UnaryDone(s, p, hi) ==
    /\ p.rule = "unary" /\ Calc!Peek(s, hi) \notin Powers
    /\ Within(s, p.pos, hi, Sums) = {} /\ Within(s, p.pos, hi, Products) = {}
    => Reaches(Calc!Parse(s)[p], hi)

\* A product is, at some turn of its loop.
TermDone(s, p, hi) ==
    /\ p.rule = "term" /\ Calc!Peek(s, hi) \notin Powers /\ Within(s, p.pos, hi, Sums) = {}
    => \A f : Loops(s, p, "unary", Products, f) => \E k \in 0 .. hi - p.pos : Reaches(f[k], hi)

\* And so is a sum.
ExprDone(s, p, hi) ==
    /\ p.rule = "expr" /\ Calc!Peek(s, hi) \notin Products \cup Powers
    => \A f : Loops(s, p, "term", Sums, f) => \E k \in 0 .. hi - p.pos : Reaches(f[k], hi)

\* All of these, for the parts of fewer than n tokens.
DoneBelow(s, n) ==
    \A p \in Calc!Call, hi \in Nat : Meaningful(s, p.pos, hi) /\ hi - p.pos < n =>
        AtomDone(s, p, hi) /\ UnaryDone(s, p, hi) /\ TermDone(s, p, hi) /\ ExprDone(s, p, hi)

\* A node means something only if its sides do.
LEMMA NodeNotWrong ==
    ASSUME NEW op, NEW a, NEW b, Calc!Node(op, a, b) # Calc!Wrong
    PROVE  a # Calc!Wrong /\ b # Calc!Wrong
  BY DEF Calc!Node

\* On each side of a cut there are the cuts of that side.
LEMMA Sides ==
    ASSUME NEW s \in Seq(Token), NEW lo \in Nat, NEW hi \in Nat, 1 <= lo, NEW ops, ops \subseteq Operators,
           NEW i \in Within(s, lo, hi, ops)
    PROVE  /\ i \in Nat /\ lo < i /\ i < hi /\ s[i] \in ops
           /\ \A ops2 : /\ Within(s, lo, i, ops2) \subseteq Within(s, lo, hi, ops2)
                        /\ \A j \in Within(s, lo, i, ops2) : j < i
                        /\ Within(s, i + 1, hi, ops2) \subseteq Within(s, lo, hi, ops2)
                        /\ \A j \in Within(s, i + 1, hi, ops2) : i < j
<1>0. \A j \in Nat : j >= 1 => Calc!Level(s, j) \in Int
  BY LevelStep
<1>1. /\ i \in Nat /\ lo < i /\ i < hi /\ s[i] \in ops /\ Calc!Level(s, i) = Calc!Level(s, lo)
  BY DEF Within
<1>2. Calc!Level(s, i + 1) = Calc!Level(s, lo)
  <2>1. Opens(s[i]) = 0
    BY <1>1 DEF Opens, Operators, Sums, Products, Powers
  <2>2. Calc!Level(s, i + 1) = Calc!Level(s, i) + 0
    BY <1>1, <2>1, LevelStep
  <2> QED BY <1>0, <1>1, <2>2
<1>3. ASSUME NEW ops2, NEW j \in Within(s, lo, i, ops2) PROVE j \in Within(s, lo, hi, ops2) /\ j < i
  <2>1. j \in lo + 1 .. i - 1 /\ j \in lo + 1 .. hi - 1
    BY <1>1 DEF Within
  <2> QED BY <1>1, <2>1 DEF Within
<1>4. ASSUME NEW ops2, NEW j \in Within(s, i + 1, hi, ops2) PROVE j \in Within(s, lo, hi, ops2) /\ i < j
  <2>1. j \in (i + 1) + 1 .. hi - 1
    BY DEF Within
  <2>2. j \in lo + 1 .. hi - 1 /\ i < j
    BY <1>1, <2>1
  <2> QED BY <1>2, <2>2 DEF Within
<1> QED BY <1>1, <1>3, <1>4

\* Once there is no operator to read, a loop stays where it is.
LEMMA LoopStays ==
    ASSUME NEW s \in Seq(Token), NEW p, NEW rule, NEW ops, NEW f, Loops(s, p, rule, ops, f),
           NEW k \in 0 .. Len(s), NEW hi, Reaches(f[k], hi), Calc!Peek(s, hi) \notin ops
    PROVE  Reaches(f[Len(s)], hi)
<1> DEFINE T == {n \in Nat : n \in k .. Len(s) => Reaches(f[n], hi)}
<1>1. 0 \in T
  OBVIOUS
<1>2. ASSUME NEW n \in Nat, n \in T PROVE n + 1 \in T
  <2> SUFFICES ASSUME n + 1 \in k .. Len(s) PROVE Reaches(f[n + 1], hi)
    OBVIOUS
  <2>1. CASE n + 1 = k
    BY <2>1
  <2>2. CASE n + 1 # k
    <3>1. n \in k .. Len(s) /\ n + 1 \in 1 .. Len(s) /\ (n + 1) - 1 = n
      BY <2>2
    <3>2. Reaches(f[n], hi)
      BY <1>2, <3>1
    <3>3. f[n + 1] = Calc!Turn(s, p, Calc!Parse(s), rule, ops, f[n])
      BY <3>1 DEF Loops
    <3>4. ~f[n].ok \/ Calc!Peek(s, f[n].pos) \notin ops
      BY <3>2 DEF Reaches
    <3>5. f[n + 1] = f[n]
      BY <3>3, <3>4 DEF Calc!Turn
    <3> QED BY <3>2, <3>5
  <2> QED BY <2>1, <2>2
<1> HIDE DEF T
<1>3. Len(s) \in T
  BY <1>1, <1>2, NatInd
<1> QED BY <1>3 DEF T

\* One turn more gets to the end of the next operand.
LEMMA LoopGoesOn ==
    ASSUME NEW s \in Seq(Token), NEW p \in Calc!Call, NEW rule \in {"term", "unary"}, NEW ops,
           NEW f, Loops(s, p, rule, ops, f),
           NEW k \in Nat, k + 1 <= Len(s), NEW i \in Nat, Reaches(f[k], i), i <= Len(s), s[i] \in ops,
           NEW hi, Reaches(Calc!Parse(s)[Then(p, rule, i + 1)], hi)
    PROVE  Reaches(f[k + 1], hi)
<1> DEFINE h == Calc!Parse(s)
           l == f[k]
           q == Then(p, rule, i + 1)
           r == h[q]
<1>1. f[k + 1] = Calc!Turn(s, p, h, rule, ops, l)
  <2>1. k + 1 \in 1 .. Len(s) /\ (k + 1) - 1 = k
    OBVIOUS
  <2> QED BY <2>1 DEF Loops
<1>2. CASE ~l.ok /\ l.tree = <<"domain">>
  <2>1. f[k + 1] = l
    BY <1>1, <1>2 DEF Calc!Turn
  <2> QED BY <1>2, <2>1 DEF Reaches
<1>3. CASE l.ok /\ l.pos = i
  <2>1. Calc!Peek(s, l.pos) \in ops
    BY <1>3 DEF Calc!Peek
  <2> DEFINE r2 == h[Then(p, rule, l.pos + 1)]
             tree == IF r2.ok THEN <<s[l.pos], l.tree, r2.tree>> ELSE r2.tree
             deep == Calc!Larger(r2.deep, l.deep)
  <2>2. Calc!Turn(s, p, h, rule, ops, l) = Retreed(r2, tree, deep)
    BY <1>3, <2>1, TurnIs
  <2>3. r2 = r
    BY <1>3
  <2>4. q \in Calc!Call /\ q.pos = i + 1
    <3>1. rule \in {"expr", "term", "unary"} /\ i + 1 \in Nat
      OBVIOUS
    <3> QED BY <3>1, Calling
  <2>5. Result(r, i + 1)
    BY <2>4, ParseIs
  <2>6. Reaches(r, hi)
    OBVIOUS
  <2> HIDE DEF r, r2, l, q, h
  <2>7. f[k + 1] = [ok |-> r.ok, tree |-> tree, pos |-> r.pos, deep |-> deep]
    <3> HIDE DEF tree, deep
    <3> QED BY <1>1, <2>2, <2>3, <2>5, Changed
  <2>8. f[k + 1].ok = r.ok /\ f[k + 1].tree = tree /\ f[k + 1].pos = r.pos /\ r.ok \in BOOLEAN
    <3> HIDE DEF tree, deep
    <3> QED BY <2>5, <2>7 DEF Result
  <2>9. ~r.ok => tree = r.tree
    BY <2>3
  <2> HIDE DEF tree
  <2> QED BY <2>6, <2>8, <2>9 DEF Reaches
<1> QED BY <1>2, <1>3 DEF Reaches

\* A loop that has got to the end returns it.
LEMMA LoopReturns ==
    ASSUME NEW s \in Seq(Token), NEW p \in Calc!Call, NEW hi \in Nat, Meaningful(s, p.pos, hi)
    PROVE  /\ p.rule = "term" /\ TermDone(s, p, hi) /\ Within(s, p.pos, hi, Sums) = {}
              /\ Calc!Peek(s, hi) \notin Products \cup Powers
              => Reaches(Calc!Parse(s)[p], hi)
           /\ p.rule = "expr" /\ ExprDone(s, p, hi) /\ Calc!Peek(s, hi) \notin Operators
              => Reaches(Calc!Parse(s)[p], hi)
<1> DEFINE h == Calc!Parse(s)
<1>0. h[p] = Body(s, h, p)
  BY ParseIs
<1>1. p.pos \in Nat /\ \A k \in 0 .. hi - p.pos : k \in 0 .. Len(s)
  BY DEF Meaningful, Calc!Call
<1>2. ASSUME p.rule = "term", TermDone(s, p, hi), Within(s, p.pos, hi, Sums) = {},
             Calc!Peek(s, hi) \notin Products \cup Powers
      PROVE  Reaches(h[p], hi)
  <2>1. h[p] = Calc!Operands(s, p, h, "unary", Products)
    BY <1>0, <1>2 DEF Body, Calc!Term, Products
  <2>2. PICK f : Loops(s, p, "unary", Products, f) /\ h[p] = f[Len(s)]
    BY <2>1, LoopRuns DEF Loops
  <2>3. PICK k \in 0 .. hi - p.pos : Reaches(f[k], hi)
    BY <1>2, <2>2 DEF TermDone
  <2> HIDE DEF h
  <2> QED BY <1>1, <1>2, <2>2, <2>3, LoopStays
<1>3. ASSUME p.rule = "expr", ExprDone(s, p, hi), Calc!Peek(s, hi) \notin Operators
      PROVE  Reaches(h[p], hi)
  <2>1. h[p] = Calc!Operands(s, p, h, "term", Sums)
    BY <1>0, <1>3 DEF Body, Calc!Expr, Sums
  <2>2. PICK f : Loops(s, p, "term", Sums, f) /\ h[p] = f[Len(s)]
    BY <2>1, LoopRuns DEF Loops
  <2>3. Calc!Peek(s, hi) \notin Products \cup Powers /\ Calc!Peek(s, hi) \notin Sums
    BY <1>3 DEF Operators
  <2>4. PICK k \in 0 .. hi - p.pos : Reaches(f[k], hi)
    BY <1>3, <2>2, <2>3 DEF ExprDone
  <2> HIDE DEF h
  <2> QED BY <1>1, <2>2, <2>3, <2>4, LoopStays
<1> QED BY <1>2, <1>3

\* It is not empty.
LEMMA MeaningfulIs ==
    ASSUME NEW s \in Seq(Token), NEW lo \in Nat, NEW hi \in Nat, Meaningful(s, lo, hi)
    PROVE  Ends(s, lo, hi) /\ lo < hi
<1>1. Ends(s, lo, hi)
  BY DEF Meaningful, Ends
<1>2. lo # hi
  BY <1>1, MeanEmpty DEF Meaningful
<1> QED BY <1>1, <1>2 DEF Ends

\* Each rule gets to the end of what means something, if those it calls do.
LEMMA AtomGetsThere ==
    ASSUME NEW s \in Seq(Token), NEW n \in Nat, DoneBelow(s, n), NEW p \in Calc!Call, NEW hi \in Nat,
           Meaningful(s, p.pos, hi), hi - p.pos <= n
    PROVE  AtomDone(s, p, hi)
<1> DEFINE h == Calc!Parse(s)
           b == Calc!Atom(s, p, h)
           lo == p.pos
<1> SUFFICES ASSUME Within(s, lo, hi, Sums) = {}, Within(s, lo, hi, Products) = {},
                    Within(s, lo, hi, Powers) = {}, s[lo] \notin Sums
             PROVE  Reaches(b, hi)
  BY DEF AtomDone
<1>1. /\ lo \in Nat /\ 1 <= lo /\ lo < hi /\ hi <= Len(s) + 1 /\ Ends(s, lo, hi)
      /\ Mean(s, lo, hi) # Calc!Wrong /\ lo <= Len(s)
  <2>1. lo \in Nat
    BY DEF Calc!Call
  <2>2. Ends(s, lo, hi) /\ lo < hi
    BY <2>1, MeaningfulIs
  <2> QED BY <2>1, <2>2 DEF Meaningful
<1>2. Mean(s, lo, hi) = IF hi = lo + 1 /\ s[lo] = "n" THEN <<"n">>
                        ELSE IF lo + 1 < hi /\ s[lo] = "(" /\ s[hi - 1] = ")"
                             THEN Mean(s, lo + 1, hi - 1)
                        ELSE Calc!Wrong
  <2> HIDE DEF lo
  <2> QED BY <1>1, MeanAtom
<1>3. Calc!Peek(s, lo) = s[lo]
  BY <1>1 DEF Calc!Peek
<1>4. CASE hi = lo + 1 /\ s[lo] = "n"
  <2>1. b = [ok |-> TRUE, tree |-> <<"n">>, pos |-> lo + 1, deep |-> p.calls]
    BY <1>3, <1>4, AtomIs
  <2> HIDE DEF b
  <2> QED BY <1>4, <2>1 DEF Reaches
<1>5. CASE lo + 1 < hi /\ s[lo] = "(" /\ s[hi - 1] = ")" /\ Mean(s, lo + 1, hi - 1) # Calc!Wrong
  <2>1. CASE p.depth + 1 > MaxDepth
    <3>1. b = Calc!TooDeep(p)
      BY <1>3, <1>5, <2>1, AtomIs
    <3> HIDE DEF b
    <3> QED BY <3>1 DEF Reaches, Calc!TooDeep
  <2>2. CASE ~(p.depth + 1 > MaxDepth)
    <3> DEFINE q == Inside(p)
               r == h[q]
               j == hi - 1
    <3>1. q \in Calc!Call /\ q.pos = lo + 1 /\ q.rule = "expr"
      BY Deeper
    <3>2. /\ ~r.ok => b = r
          /\ r.ok /\ Calc!Peek(s, r.pos) = ")" => b = Moved(r, r.pos + 1)
      BY <1>3, <1>5, <2>2, AtomIs
    <3>3. Result(r, lo + 1)
      BY <3>1, ParseIs
    <3> HIDE DEF q, b, h
    <3>4. /\ j \in Nat /\ 1 <= lo + 1 /\ lo + 1 <= j /\ j <= Len(s) /\ j - (lo + 1) < n
          /\ j <= Len(s) + 1 /\ j + 1 = hi
      BY <1>1, <1>5
    <3>5. Meaningful(s, q.pos, j)
      BY <1>5, <3>1, <3>4 DEF Meaningful
    <3>6. ExprDone(s, q, j)
      BY <3>1, <3>4, <3>5 DEF DoneBelow
    <3>7. Calc!Peek(s, j) = ")"
      BY <1>5, <3>4 DEF Calc!Peek
    <3>8. Reaches(r, j)
      <4>1. ")" \notin Operators
        BY DEF Operators, Sums, Products, Powers
      <4> QED BY <3>1, <3>4, <3>5, <3>6, <3>7, <4>1, LoopReturns DEF h
    <3> HIDE DEF r, j
    <3>9. CASE ~r.ok /\ r.tree = <<"domain">>
      BY <3>2, <3>9 DEF Reaches
    <3>10. CASE r.ok /\ r.pos = j
      <4>1. b = [ok |-> r.ok, tree |-> r.tree, pos |-> r.pos + 1, deep |-> r.deep]
        BY <3>2, <3>3, <3>7, <3>10, Changed
      <4> QED BY <3>4, <3>10, <4>1 DEF Reaches
    <3> QED BY <3>8, <3>9, <3>10 DEF Reaches
  <2> QED BY <2>1, <2>2
<1> QED BY <1>1, <1>2, <1>4, <1>5

\* An operand: signs first, or the first ^ of a power.
LEMMA UnaryGetsThere ==
    ASSUME NEW s \in Seq(Token), NEW n \in Nat, DoneBelow(s, n), NEW from \in Calc!Call, NEW hi \in Nat,
           Meaningful(s, from.pos, hi), hi - from.pos <= n
    PROVE  UnaryDone(s, from, hi)
<1> DEFINE h == Calc!Parse(s)
           p == Counting(from)
           v == h[from]
           lo == from.pos
<1> SUFFICES ASSUME from.rule = "unary", Calc!Peek(s, hi) \notin Powers,
                    Within(s, lo, hi, Sums) = {}, Within(s, lo, hi, Products) = {}
             PROVE  Reaches(v, hi)
  BY DEF UnaryDone
<1>1. /\ lo \in Nat /\ 1 <= lo /\ lo < hi /\ hi <= Len(s) + 1 /\ Ends(s, lo, hi)
      /\ Mean(s, lo, hi) # Calc!Wrong /\ lo <= Len(s)
  <2>1. lo \in Nat
    BY DEF Calc!Call
  <2>2. Ends(s, lo, hi) /\ lo < hi
    BY <2>1, MeaningfulIs
  <2> QED BY <2>1, <2>2 DEF Meaningful
<1>2. p \in Calc!Call /\ p.pos = lo /\ p.rule = "unary"
  <2>1. from.rule \in {"expr", "term", "unary"}
    BY DEF Calc!Call
  <2> QED BY <2>1, Deeper
<1>3. v = Calc!Unary(s, from, h)
  BY ParseIs DEF Body
<1>4. Calc!Peek(s, p.pos) = s[lo]
  BY <1>1, <1>2 DEF Calc!Peek
<1>5. CASE s[lo] \in Sums
  <2> DEFINE q == Signed(p)
             r == h[q]
  <2>1. /\ p.depth + 1 > MaxDepth => v = Calc!TooDeep(p)
        /\ ~(p.depth + 1 > MaxDepth) =>
             v = IF r.ok /\ s[p.pos] = "-" THEN Negated(r, <<"neg", r.tree>>) ELSE r
    BY <1>3, <1>4, <1>5, UnaryIs
  <2> HIDE DEF p, v
  <2>2. q \in Calc!Call /\ q.pos = lo + 1 /\ q.rule = "unary"
    BY <1>2, Deeper
  <2>3. Result(r, lo + 1)
    BY <2>2, ParseIs
  <2> HIDE DEF q, h
  <2>4. CASE p.depth + 1 > MaxDepth
    BY <2>1, <2>4 DEF Reaches, Calc!TooDeep
  <2>5. CASE ~(p.depth + 1 > MaxDepth)
    <3>1. Mean(s, lo, hi) = IF Mean(s, lo + 1, hi) = Calc!Wrong THEN Calc!Wrong
                            ELSE IF s[lo] = "-" THEN <<"neg", Mean(s, lo + 1, hi)>>
                            ELSE Mean(s, lo + 1, hi)
      <4> HIDE DEF lo
      <4> QED BY <1>1, <1>5, MeanSign
    <3>2. Meaningful(s, q.pos, hi) /\ hi - q.pos < n
      BY <1>1, <2>2, <3>1 DEF Meaningful
    <3>3. \A ops : Within(s, lo + 1, hi, ops) \subseteq Within(s, lo, hi, ops)
      <4>1. Calc!Level(s, lo + 1) = Calc!Level(s, lo)
        <5>1. Opens(s[lo]) = 0
          BY <1>5 DEF Opens, Sums
        <5>2. Calc!Level(s, lo + 1) = Calc!Level(s, lo) + 0 /\ Calc!Level(s, lo) \in Int
          BY <1>1, <5>1, LevelStep
        <5> QED BY <5>2
      <4>2. \A j : j \in (lo + 1) + 1 .. hi - 1 => j \in lo + 1 .. hi - 1
        BY <1>1
      <4> QED BY <4>1, <4>2 DEF Within
    <3>4. UnaryDone(s, q, hi)
      BY <2>2, <3>2 DEF DoneBelow
    <3>5. Reaches(r, hi)
      <4>1. Within(s, q.pos, hi, Sums) = {} /\ Within(s, q.pos, hi, Products) = {}
        BY <2>2, <3>3
      <4> QED BY <2>2, <3>4, <4>1 DEF UnaryDone, h
    <3> HIDE DEF r
    <3>6. v.ok = r.ok /\ v.pos = r.pos /\ (~r.ok => v = r)
      <4>1. CASE r.ok /\ s[p.pos] = "-"
        <5>1. v = [ok |-> r.ok, tree |-> <<"neg", r.tree>>, pos |-> r.pos, deep |-> r.deep]
          BY <2>1, <2>3, <2>5, <4>1, Changed
        <5> QED BY <4>1, <5>1
      <4>2. CASE ~(r.ok /\ s[p.pos] = "-")
        BY <2>1, <2>5, <4>2
      <4> QED BY <4>1, <4>2
    <3>7. r.ok \in BOOLEAN
      BY <2>3 DEF Result
    <3> QED BY <3>5, <3>6, <3>7 DEF Reaches
  <2> QED BY <2>4, <2>5
<1>6. CASE s[lo] \notin Sums
  <2> DEFINE b == Calc!Atom(s, p, h)
  <2>1. v = Calc!Power(s, p, h)
    BY <1>3, <1>4, <1>6, UnaryIs
  <2>2. /\ ~b.ok \/ Calc!Peek(s, b.pos) # "^" => v = b
        /\ b.ok /\ Calc!Peek(s, b.pos) = "^" =>
             LET e == h[Then(p, "unary", b.pos + 1)]
             IN v = Retreed(e, IF e.ok THEN <<"^", b.tree, e.tree>> ELSE e.tree,
                            Calc!Larger(e.deep, b.deep))
    BY <2>1, PowerIs
  <2>3. CASE Within(s, lo, hi, Powers) = {}
    <3>1. AtomDone(s, p, hi)
      <4> HIDE DEF p
      <4>1. Meaningful(s, p.pos, hi) /\ hi - p.pos <= n
        BY <1>2
      <4> QED BY <1>2, <4>1, AtomGetsThere
    <3>2. Reaches(b, hi)
      <4> HIDE DEF p
      <4> QED BY <1>2, <1>6, <2>3, <3>1 DEF AtomDone
    <3> HIDE DEF b, v
    <3>3. Calc!Peek(s, hi) # "^"
      BY DEF Powers
    <3> QED BY <2>2, <3>2, <3>3 DEF Reaches
  <2>4. CASE Within(s, lo, hi, Powers) # {}
    <3>1. PICK i \in Within(s, lo, hi, Powers) : \A j \in Within(s, lo, hi, Powers) : i <= j
      <4>1. Within(s, lo, hi, Powers) \subseteq lo .. hi /\ Within(s, lo, hi, Powers) # {}
        BY <1>1, <2>4 DEF Within
      <4> HIDE DEF lo
      <4> QED BY <1>1, <4>1, LastExists
    <3>2. Mean(s, lo, hi) = Calc!Node("^", Mean(s, lo, i), Mean(s, i + 1, hi))
      <4> HIDE DEF lo
      <4> QED BY <1>1, <1>6, <3>1, MeanPower
    <3>3. Mean(s, lo, i) # Calc!Wrong /\ Mean(s, i + 1, hi) # Calc!Wrong
      BY <1>1, <3>2, NodeNotWrong
    <3>4. /\ i \in Nat /\ lo < i /\ i < hi /\ s[i] = "^"
          /\ \A ops2 : /\ Within(s, lo, i, ops2) \subseteq Within(s, lo, hi, ops2)
                       /\ \A j \in Within(s, lo, i, ops2) : j < i
                       /\ Within(s, i + 1, hi, ops2) \subseteq Within(s, lo, hi, ops2)
      <4>1. Powers \subseteq Operators
        BY DEF Operators
      <4>2. s[i] \in Powers => s[i] = "^"
        BY DEF Powers
      <4> HIDE DEF lo
      <4> QED BY <1>1, <4>1, <4>2, Sides
    <3>5. Reaches(b, i)
      <4> HIDE DEF p
      <4>1. Meaningful(s, p.pos, i) /\ i - p.pos < n
        BY <1>1, <1>2, <3>3, <3>4 DEF Meaningful
      <4>2. AtomDone(s, p, i)
        BY <1>2, <3>4, <4>1 DEF DoneBelow
      <4>3. Within(s, lo, i, Powers) = {}
        <5>1. ASSUME NEW j \in Within(s, lo, i, Powers) PROVE FALSE
          <6>1. j < i /\ i <= j /\ j \in Int
            <7>1. j \in Int
              BY DEF Within
            <7> QED BY <3>1, <3>4, <7>1
          <6> QED BY <3>4, <6>1
        <5> QED BY <5>1
      <4>4. Within(s, lo, i, Sums) = {} /\ Within(s, lo, i, Products) = {}
        BY <3>4
      <4> QED BY <1>2, <1>6, <4>2, <4>3, <4>4 DEF AtomDone
    <3> DEFINE q == Then(p, "unary", i + 1)
               e == h[q]
               tree == IF e.ok THEN <<"^", b.tree, e.tree>> ELSE e.tree
               deep == Calc!Larger(e.deep, b.deep)
    <3>6. q \in Calc!Call /\ q.pos = i + 1 /\ q.rule = "unary"
      <4> HIDE DEF p, h
      <4>1. p \in Calc!Call /\ i + 1 \in Nat
        BY <1>2, <3>4
      <4> QED BY <4>1, CallingUnary
    <3>7. Result(e, i + 1)
      BY <3>6, ParseIs
    <3>8. Reaches(e, hi)
      <4> HIDE DEF q
      <4>1. Meaningful(s, q.pos, hi) /\ hi - q.pos < n
        BY <1>1, <3>3, <3>4, <3>6 DEF Meaningful
      <4>2. UnaryDone(s, q, hi)
        BY <3>6, <4>1 DEF DoneBelow
      <4>3. Within(s, q.pos, hi, Sums) = {} /\ Within(s, q.pos, hi, Products) = {}
        BY <3>4, <3>6
      <4> QED BY <3>6, <4>2, <4>3 DEF UnaryDone
    <3>9. CASE ~b.ok /\ b.tree = <<"domain">>
      <4>1. v = b
        BY <2>2, <3>9
      <4> HIDE DEF b, v
      <4> QED BY <3>9, <4>1 DEF Reaches
    <3>10. CASE b.ok /\ b.pos = i
      <4>1. Calc!Peek(s, b.pos) = "^"
        <5> HIDE DEF b
        <5> QED BY <1>1, <3>4, <3>10 DEF Calc!Peek
      <4>2. v = Retreed(e, tree, deep)
        BY <2>2, <3>10, <4>1
      <4> HIDE DEF v, e, b
      <4>3. v = [ok |-> e.ok, tree |-> tree, pos |-> e.pos, deep |-> deep]
        <5> HIDE DEF tree, deep
        <5> QED BY <3>7, <4>2, Changed
      <4>4. v.ok = e.ok /\ v.tree = tree /\ v.pos = e.pos /\ e.ok \in BOOLEAN
        <5> HIDE DEF tree, deep
        <5> QED BY <3>7, <4>3 DEF Result
      <4>5. ~e.ok => tree = e.tree
        OBVIOUS
      <4> HIDE DEF tree
      <4> QED BY <3>8, <4>4, <4>5 DEF Reaches
    <3> QED BY <3>5, <3>9, <3>10 DEF Reaches
  <2> QED BY <2>3, <2>4
<1> QED BY <1>5, <1>6

\* A product: what is before its last operator at an earlier turn.
LEMMA TermGetsThere ==
    ASSUME NEW s \in Seq(Token), NEW n \in Nat, DoneBelow(s, n), NEW p \in Calc!Call, NEW hi \in Nat,
           Meaningful(s, p.pos, hi), hi - p.pos <= n
    PROVE  TermDone(s, p, hi)
<1> DEFINE h == Calc!Parse(s)
           lo == p.pos
<1> SUFFICES ASSUME p.rule = "term", Calc!Peek(s, hi) \notin Powers, Within(s, lo, hi, Sums) = {},
                    NEW f, Loops(s, p, "unary", Products, f)
             PROVE  \E k \in 0 .. hi - lo : Reaches(f[k], hi)
  BY DEF TermDone
<1>1. /\ lo \in Nat /\ 1 <= lo /\ lo < hi /\ hi <= Len(s) + 1 /\ Ends(s, lo, hi)
      /\ Mean(s, lo, hi) # Calc!Wrong /\ lo <= Len(s)
  <2>1. lo \in Nat
    BY DEF Calc!Call
  <2>2. Ends(s, lo, hi) /\ lo < hi
    BY <2>1, MeaningfulIs
  <2> QED BY <2>1, <2>2 DEF Meaningful
<1>2. CASE Within(s, lo, hi, Products) = {}
  <2> DEFINE q == First(p, "unary")
  <2>1. q \in Calc!Call /\ q.rule = "unary" /\ q.pos = lo
    BY Deeper
  <2>2. f[0] = h[q]
    BY DEF Loops
  <2> HIDE DEF q
  <2>3. UnaryDone(s, q, hi)
    <3>1. Meaningful(s, q.pos, hi) /\ hi - q.pos <= n
      BY <2>1
    <3> QED BY <2>1, <3>1, UnaryGetsThere
  <2>4. Reaches(h[q], hi)
    BY <1>2, <2>1, <2>3 DEF UnaryDone
  <2>5. 0 \in 0 .. hi - lo
    BY <1>1
  <2> QED BY <2>2, <2>4, <2>5
<1>3. CASE Within(s, lo, hi, Products) # {}
  <2>1. PICK i \in Within(s, lo, hi, Products) : \A j \in Within(s, lo, hi, Products) : j <= i
    <3>1. Within(s, lo, hi, Products) \subseteq lo .. hi /\ Within(s, lo, hi, Products) # {}
      BY <1>1, <1>3 DEF Within
    <3> HIDE DEF lo
    <3> QED BY <1>1, <3>1, LastExists
  <2>2. Mean(s, lo, hi) = Calc!Node(s[i], Mean(s, lo, i), Mean(s, i + 1, hi))
    <3> HIDE DEF lo
    <3> QED BY <1>1, <2>1, MeanProduct
  <2>3. Mean(s, lo, i) # Calc!Wrong /\ Mean(s, i + 1, hi) # Calc!Wrong
    BY <1>1, <2>2, NodeNotWrong
  <2>4. /\ i \in Nat /\ lo < i /\ i < hi /\ s[i] \in Products
        /\ \A ops2 : /\ Within(s, lo, i, ops2) \subseteq Within(s, lo, hi, ops2)
                     /\ Within(s, i + 1, hi, ops2) \subseteq Within(s, lo, hi, ops2)
                     /\ \A j \in Within(s, i + 1, hi, ops2) : i < j
    <3>1. Products \subseteq Operators
      BY DEF Operators
    <3> HIDE DEF lo
    <3> QED BY <1>1, <3>1, Sides
  <2>5. PICK k \in 0 .. i - lo : Reaches(f[k], i)
    <3>1. Meaningful(s, lo, i) /\ i - lo < n
      BY <1>1, <2>3, <2>4 DEF Meaningful
    <3>2. TermDone(s, p, i)
      BY <2>4, <3>1 DEF DoneBelow
    <3>3. Calc!Peek(s, i) \notin Powers /\ Within(s, lo, i, Sums) = {}
      BY <1>1, <2>4 DEF Calc!Peek, Products, Powers
    <3> QED BY <3>2, <3>3 DEF TermDone
  <2> DEFINE q == Then(p, "unary", i + 1)
  <2>6. q \in Calc!Call /\ q.pos = i + 1 /\ q.rule = "unary"
    <3>1. i + 1 \in Nat
      BY <2>4
    <3> QED BY <3>1, Calling
  <2>7. Reaches(h[q], hi)
    <3> HIDE DEF q
    <3>1. Meaningful(s, q.pos, hi) /\ hi - q.pos < n
      BY <1>1, <2>3, <2>4, <2>6 DEF Meaningful
    <3>2. UnaryDone(s, q, hi)
      BY <2>6, <3>1 DEF DoneBelow
    <3>3. Within(s, i + 1, hi, Products) = {}
      <4>1. ASSUME NEW j \in Within(s, i + 1, hi, Products) PROVE FALSE
        <5>1. i < j /\ j <= i /\ j \in Int
          <6>1. j \in Int
            BY DEF Within
          <6> QED BY <2>1, <2>4, <6>1
        <5> QED BY <2>4, <5>1
      <4> QED BY <4>1
    <3>4. Within(s, q.pos, hi, Sums) = {} /\ Within(s, q.pos, hi, Products) = {}
      BY <2>4, <2>6, <3>3
    <3> QED BY <2>6, <3>2, <3>4 DEF UnaryDone
  <2>8. Reaches(f[k + 1], hi)
    <3>1. k \in Nat /\ k + 1 <= Len(s) /\ i <= Len(s)
      BY <1>1, <2>4
    <3> QED BY <2>4, <2>5, <2>7, <3>1, LoopGoesOn
  <2>9. k + 1 \in 0 .. hi - lo
    BY <1>1, <2>4
  <2> QED BY <2>8, <2>9
<1> QED BY <1>2, <1>3

\* A sum, in the same way.
LEMMA ExprGetsThere ==
    ASSUME NEW s \in Seq(Token), NEW n \in Nat, DoneBelow(s, n), NEW p \in Calc!Call, NEW hi \in Nat,
           Meaningful(s, p.pos, hi), hi - p.pos <= n
    PROVE  ExprDone(s, p, hi)
<1> DEFINE h == Calc!Parse(s)
           lo == p.pos
<1> SUFFICES ASSUME p.rule = "expr", Calc!Peek(s, hi) \notin Products \cup Powers,
                    NEW f, Loops(s, p, "term", Sums, f)
             PROVE  \E k \in 0 .. hi - lo : Reaches(f[k], hi)
  BY DEF ExprDone
<1>1. /\ lo \in Nat /\ 1 <= lo /\ lo < hi /\ hi <= Len(s) + 1 /\ Ends(s, lo, hi)
      /\ Mean(s, lo, hi) # Calc!Wrong /\ lo <= Len(s)
  <2>1. lo \in Nat
    BY DEF Calc!Call
  <2>2. Ends(s, lo, hi) /\ lo < hi
    BY <2>1, MeaningfulIs
  <2> QED BY <2>1, <2>2 DEF Meaningful
<1>2. CASE Within(s, lo, hi, Sums) = {}
  <2> DEFINE q == First(p, "term")
  <2>1. q \in Calc!Call /\ q.rule = "term" /\ q.pos = lo
    BY Deeper
  <2>2. f[0] = h[q]
    BY DEF Loops
  <2> HIDE DEF q
  <2>3. Meaningful(s, q.pos, hi) /\ hi - q.pos <= n
    BY <2>1
  <2>4. TermDone(s, q, hi)
    BY <2>1, <2>3, TermGetsThere
  <2>5. Reaches(h[q], hi)
    <3>1. Within(s, q.pos, hi, Sums) = {}
      BY <1>2, <2>1
    <3> QED BY <2>1, <2>3, <2>4, <3>1, LoopReturns
  <2>6. 0 \in 0 .. hi - lo
    BY <1>1
  <2> QED BY <2>2, <2>5, <2>6
<1>3. CASE Within(s, lo, hi, Sums) # {}
  <2>1. PICK i \in Within(s, lo, hi, Sums) : \A j \in Within(s, lo, hi, Sums) : j <= i
    <3>1. Within(s, lo, hi, Sums) \subseteq lo .. hi /\ Within(s, lo, hi, Sums) # {}
      BY <1>1, <1>3 DEF Within
    <3> HIDE DEF lo
    <3> QED BY <1>1, <3>1, LastExists
  <2>2. Mean(s, lo, hi) = Calc!Node(s[i], Mean(s, lo, i), Mean(s, i + 1, hi))
    <3> HIDE DEF lo
    <3> QED BY <1>1, <2>1, MeanSum
  <2>3. Mean(s, lo, i) # Calc!Wrong /\ Mean(s, i + 1, hi) # Calc!Wrong
    BY <1>1, <2>2, NodeNotWrong
  <2>4. /\ i \in Nat /\ lo < i /\ i < hi /\ s[i] \in Sums
        /\ \A j \in Within(s, i + 1, hi, Sums) : i < j
        /\ Within(s, i + 1, hi, Sums) \subseteq Within(s, lo, hi, Sums)
    <3>1. Sums \subseteq Operators
      BY DEF Operators
    <3> HIDE DEF lo
    <3> QED BY <1>1, <3>1, Sides
  <2>5. PICK k \in 0 .. i - lo : Reaches(f[k], i)
    <3>1. Meaningful(s, lo, i) /\ i - lo < n
      BY <1>1, <2>3, <2>4 DEF Meaningful
    <3>2. ExprDone(s, p, i)
      BY <2>4, <3>1 DEF DoneBelow
    <3>3. Calc!Peek(s, i) \notin Products \cup Powers
      BY <1>1, <2>4 DEF Calc!Peek, Sums, Products, Powers
    <3> QED BY <3>2, <3>3 DEF ExprDone
  <2> DEFINE q == Then(p, "term", i + 1)
  <2>6. q \in Calc!Call /\ q.pos = i + 1 /\ q.rule = "term"
    <3>1. i + 1 \in Nat
      BY <2>4
    <3> QED BY <3>1, Calling
  <2>7. Reaches(h[q], hi)
    <3> HIDE DEF q
    <3>1. Meaningful(s, q.pos, hi) /\ hi - q.pos < n
      BY <1>1, <2>3, <2>4, <2>6 DEF Meaningful
    <3>2. TermDone(s, q, hi)
      BY <2>6, <3>1 DEF DoneBelow
    <3>3. Within(s, q.pos, hi, Sums) = {}
      <4>1. ASSUME NEW j \in Within(s, i + 1, hi, Sums) PROVE FALSE
        <5>1. i < j /\ j <= i /\ j \in Int
          <6>1. j \in Int
            BY DEF Within
          <6> QED BY <2>1, <2>4, <6>1
        <5> QED BY <2>4, <5>1
      <4> QED BY <2>6, <4>1
    <3> QED BY <2>6, <3>1, <3>2, <3>3, LoopReturns
  <2>8. Reaches(f[k + 1], hi)
    <3>1. k \in Nat /\ k + 1 <= Len(s) /\ i <= Len(s)
      BY <1>1, <2>4
    <3> QED BY <2>4, <2>5, <2>7, <3>1, LoopGoesOn
  <2>9. k + 1 \in 0 .. hi - lo
    BY <1>1, <2>4
  <2> QED BY <2>8, <2>9
<1> QED BY <1>2, <1>3

\* So they all do, however long it is.
LEMMA AllGetThere ==
    ASSUME NEW s \in Seq(Token), NEW n \in Nat
    PROVE  DoneBelow(s, n)
<1> DEFINE T == {m \in Nat : DoneBelow(s, m)}
<1>1. 0 \in T
  <2>1. ASSUME NEW p \in Calc!Call, NEW hi \in Nat, Meaningful(s, p.pos, hi), hi - p.pos < 0
        PROVE  FALSE
    BY <2>1 DEF Meaningful, Calc!Call
  <2> QED BY <2>1 DEF DoneBelow
<1>2. ASSUME NEW m \in Nat, m \in T PROVE m + 1 \in T
  <2>1. DoneBelow(s, m)
    BY <1>2
  <2>2. ASSUME NEW p \in Calc!Call, NEW hi \in Nat, Meaningful(s, p.pos, hi), hi - p.pos < m + 1
        PROVE  AtomDone(s, p, hi) /\ UnaryDone(s, p, hi) /\ TermDone(s, p, hi) /\ ExprDone(s, p, hi)
    <3>1. hi - p.pos <= m
      BY <2>2 DEF Calc!Call
    <3> QED BY <2>1, <2>2, <3>1, AtomGetsThere, UnaryGetsThere, TermGetsThere, ExprGetsThere
  <2>3. DoneBelow(s, m + 1)
    BY <2>2 DEF DoneBelow
  <2> QED BY <2>3
<1> HIDE DEF T
<1>3. n \in T
  BY <1>1, <1>2, NatInd
<1> QED BY <1>3 DEF T

\* The answer to an expression is its meaning.
LEMMA EvalMeans ==
    ASSUME NEW s \in Seq(Token), Calc!EvalExpr(s).tree # <<"domain">>
    PROVE  IF Calc!EvalExpr(s).ok THEN Calc!EvalExpr(s).tree = Calc!Meaning[s]
           ELSE Calc!Meaning[s] = Calc!Wrong
<1> DEFINE v == Calc!EvalExpr(s)
           r == Calc!Parse(s)[Calc!Parser]
           hi == Len(s) + 1
<1> SUFFICES IF v.ok THEN v.tree = Calc!Meaning[s] ELSE Calc!Meaning[s] = Calc!Wrong
  OBVIOUS
<1>1. /\ Calc!Parser \in Calc!Call /\ Calc!Parser.pos = 1 /\ Calc!Parser.rule = "expr"
      /\ hi \in Nat /\ 1 <= hi
  BY DEF Calc!Parser, Calc!Call
<1>2. Result(r, 1)
  BY <1>1, ParseIs
<1>3. Sound(s, "expr", 1, r)
  <2>1. Calc!Parser.pos >= 1 /\ Calc!Parser.pos <= Len(s) + 1
    BY <1>1
  <2> QED BY <1>1, <2>1, ParseSound
<1>4. Mean(s, 1, hi) = Calc!Meaning[s]
  <2> DEFINE w == Span(s, 1, hi)
  <2>1. Ends(s, 1, hi) /\ hi - 1 = Len(s) /\ \A k \in Int : 1 + k - 1 = k
    BY <1>1 DEF Ends
  <2>2. w \in Seq(Token) /\ Len(w) = Len(s) /\ \A k \in 1 .. Len(s) : w[k] = s[k]
    <3> HIDE DEF hi
    <3>1. w \in Seq(Token) /\ Len(w) = hi - 1 /\ \A k \in 1 .. hi - 1 : w[k] = s[1 + k - 1]
      BY <2>1, SpanIs
    <3> HIDE DEF w
    <3> QED BY <2>1, <3>1
  <2> HIDE DEF w
  <2>3. w = s
    BY <2>2
  <2> QED BY <2>3 DEF Mean, w
<1>5. v = IF r.ok /\ r.pos <= Len(s) THEN Refused(r, <<"error">>) ELSE r
  BY DEF Calc!EvalExpr, Refused
<1>6. v.tree # <<"domain">>
  OBVIOUS
<1>7. Mean(s, 1, hi) # Calc!Wrong => Reaches(r, hi)
  <2> SUFFICES ASSUME Mean(s, 1, hi) # Calc!Wrong PROVE Reaches(r, hi)
    OBVIOUS
  <2>1. Meaningful(s, 1, hi)
    BY <1>1 DEF Meaningful
  <2>2. DoneBelow(s, hi)
    BY <1>1, AllGetThere
  <2>3. ExprDone(s, Calc!Parser, hi)
    <3>1. hi - 1 < hi
      BY <1>1
    <3> HIDE DEF hi
    <3> QED BY <1>1, <2>1, <2>2, <3>1 DEF DoneBelow
  <2>4. Calc!Peek(s, hi) \notin Operators
    <3>1. Calc!Peek(s, hi) = "."
      BY DEF Calc!Peek
    <3> QED BY <3>1 DEF Operators, Sums, Products, Powers
  <2> HIDE DEF hi
  <2> QED BY <1>1, <2>1, <2>3, <2>4, LoopReturns
<1> HIDE DEF v, r
<1>8. r.ok \in BOOLEAN /\ r.pos \in Nat
  BY <1>2 DEF Result
<1>9. CASE r.ok /\ r.pos <= Len(s)
  <2>1. v = [ok |-> FALSE, tree |-> <<"error">>, pos |-> r.pos, deep |-> r.deep]
    BY <1>2, <1>5, <1>9, Changed
  <2>2. ~Reaches(r, hi)
    BY <1>8, <1>9 DEF Reaches
  <2>3. ~v.ok
    BY <2>1
  <2> QED BY <1>4, <1>7, <2>2, <2>3
<1>10. CASE r.ok /\ ~(r.pos <= Len(s))
  <2>1. Parsed(s, 1, r.pos, r.tree)
    BY <1>3, <1>10 DEF Sound
  <2>2. r.pos = hi
    BY <1>8, <1>10, <2>1 DEF Parsed
  <2>3. v = r
    BY <1>5, <1>10
  <2>4. r.tree = Mean(s, 1, hi)
    <3> HIDE DEF hi
    <3> QED BY <2>1, <2>2 DEF Parsed
  <2> QED BY <1>4, <1>10, <2>3, <2>4
<1>11. CASE ~r.ok
  <2>1. v = r
    BY <1>5, <1>11
  <2>2. ~Reaches(r, hi)
    BY <1>6, <1>11, <2>1 DEF Reaches
  <2> QED BY <1>4, <1>7, <1>11, <2>1, <2>2
<1> QED BY <1>8, <1>9, <1>10, <1>11

\* Whatever is typed, however long it is and however deep parentheses may go:
\* what the calculator answers is what the operators of the expression say, and
\* what it refuses has no meaning, unless it is nested too deep.
THEOREM SumsMeanWhatTheySay == ExtensionsSpec => []MeansWhatItSays
<1>1. ExtensionTypesIInv => MeansWhatItSays
  <2> SUFFICES ASSUME ExtensionTypesIInv, part = "calc" PROVE Calc!MeansWhatItSays
    BY DEF MeansWhatItSays
  <2>1. Calc!TypeOK
    BY DEF ExtensionTypesIInv
  <2>2. PICK m \in 0 .. SumLongest : input \in [1 .. m -> Token]
    BY <2>1 DEF Calc!TypeOK, Calc!BoundedSeq, Calc!SeqOf
  <2>3. input \in Seq(Token)
    BY <2>2, ExtensionsAssumption
  <2> QED BY <2>3, EvalMeans DEF Calc!MeansWhatItSays
<1> QED
  BY <1>1, InitExtensionTypes, NextExtensionTypes, PTL DEF ExtensionsSpec
=============================================================================
