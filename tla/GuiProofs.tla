------------------------------ MODULE GuiProofs ------------------------------
(***************************************************************************)
(* Proofs about the parts of the user interface (MCGui): the hotkey, the   *)
(* list and its menu, the window, confirmations, the file of settings and  *)
(* their effect, the log, and the types of them all.  The parts share no   *)
(* variable: each has an invariant of its own, kept by its steps and by    *)
(* those of the others.                                                    *)
(***************************************************************************)
EXTENDS MCGui, FiniteSetTheorems, WellFoundedInduction, TLAPS

-----------------------------------------------------------------------------
(* The hotkey (HotkeyFlow), for every set of combinations, both message    *)
(* loops and any number of requests.                                       *)

Posted == [seq : Nat, combo : Combo]
Told == [seq : Nat, ok : BOOLEAN, rolledBack : BOOLEAN]

\* TypeOK, the queue aside.
HotkeyTypes ==
    /\ alive \in BOOLEAN /\ taken \subseteq Combo
    /\ current \in Combo \cup {None} /\ registered \in Combo \cup {None}
    /\ registered # None => alive /\ registered \notin taken
    /\ confirm \in Posted /\ confirm.seq <= seq
    /\ seq <= Requests /\ settings \in Combo
    /\ dialog \in [capturing : BOOLEAN, pending : Combo \cup {None}, failed : BOOLEAN,
                   unregistered : BOOLEAN]

\* The numbers grow along the queue of the requests and no success overtakes
\* them; the request that is waited for is the latest.
Numbered ==
    /\ seq \in Nat /\ commands \in Seq(Posted) /\ answers \in Seq(Told)
    /\ confirm # NoConfirm => confirm.seq = seq
    /\ \A i \in 1 .. Len(commands) : commands[i].seq <= seq
    /\ \A i, j \in 1 .. Len(commands) : i < j => commands[i].seq < commands[j].seq
    /\ \A i \in 1 .. Len(answers) : answers[i].ok => answers[i].seq <= seq
    /\ \A i \in 1 .. Len(answers), j \in 1 .. Len(commands) :
          answers[i].ok => answers[i].seq < commands[j].seq

\* What the latest request is about, while it is waited for: a success means
\* that the thread took that combination and has handled nothing since.
AboutIt ==
    confirm # NoConfirm =>
        /\ \A i \in 1 .. Len(commands) :
              commands[i].seq = seq => commands[i].combo = confirm.combo
        /\ \A i \in 1 .. Len(answers) :
              answers[i].ok /\ answers[i].seq = seq => current = confirm.combo

\* A success with the number of the latest request is still true.
StillHeld ==
    \A i \in 1 .. Len(answers) :
        answers[i].ok /\ answers[i].seq = seq /\ alive => registered = current

HotkeyIInv == HotkeyTypes /\ Numbered /\ AboutIt /\ StillHeld

\* What the queues hold.
LEMMA Queues ==
    ASSUME Numbered
    PROVE  /\ seq \in Nat /\ Len(commands) \in Nat /\ Len(answers) \in Nat
           /\ \A i \in 1 .. Len(commands) :
                 commands[i] \in Posted /\ commands[i].seq \in Nat /\ commands[i].combo \in Combo
           /\ \A i \in 1 .. Len(answers) :
                 /\ answers[i] \in Told /\ answers[i].seq \in Nat
                 /\ answers[i].ok \in BOOLEAN /\ answers[i].rolledBack \in BOOLEAN
           /\ answers # <<>> => Head(answers) = answers[1] /\ 1 \in 1 .. Len(answers)
           /\ commands # <<>> => Head(commands) = commands[1] /\ 1 \in 1 .. Len(commands)
<1>1. seq \in Nat /\ commands \in Seq(Posted) /\ answers \in Seq(Told)
  BY DEF Numbered
<1>2. /\ \A i \in 1 .. Len(commands) : commands[i] \in Posted
      /\ \A i \in 1 .. Len(answers) : answers[i] \in Told
      /\ Len(commands) \in Nat /\ Len(answers) \in Nat
  BY <1>1
<1>3. /\ \A k \in Posted : k.seq \in Nat /\ k.combo \in Combo
      /\ \A t \in Told : t.seq \in Nat /\ t.ok \in BOOLEAN /\ t.rolledBack \in BOOLEAN
  BY DEF Posted, Told
<1>4. /\ answers # <<>> => Head(answers) = answers[1] /\ 1 \in 1 .. Len(answers)
      /\ commands # <<>> => Head(commands) = commands[1] /\ 1 \in 1 .. Len(commands)
  BY <1>1
<1> QED
  BY <1>1, <1>2, <1>3, <1>4

\* Nothing was asked of the thread of the hotkey at first.
LEMMA HotkeyInit == Init => HotkeyIInv
<1> SUFFICES ASSUME Init PROVE HotkeyIInv
  OBVIOUS
<1>1. commands = <<>> /\ seq = 0 /\ confirm = NoConfirm
  BY DEF Init
<1>2. Answer(Startup, FALSE, FALSE) \in Told /\ ~Answer(Startup, FALSE, FALSE).ok
  BY DEF Answer, Startup, Told
<1>3. answers \in Seq(Told) /\ \A i \in 1 .. Len(answers) : ~answers[i].ok
  <2> DEFINE first == Answer(Startup, FALSE, FALSE)
  <2>1. CASE answers = <<>>
    BY <2>1
  <2>2. first \in Told /\ ~first.ok
    BY <1>2
  <2>3. CASE answers = <<first>>
    <3> HIDE DEF first
    <3>1. answers \in Seq(Told) /\ Len(answers) = 1 /\ answers[1] = first
      BY <2>2, <2>3
    <3> QED BY <2>2, <3>1
  <2> QED BY <2>1, <2>3 DEF Init
<1>4. HotkeyTypes
  <2>1. confirm \in Posted /\ confirm.seq = 0
    BY <1>1, HotkeyAssumption DEF NoConfirm, Posted
  <2>2. /\ settings \in Combo /\ taken \subseteq Combo /\ alive \in BOOLEAN
        /\ registered = IF alive /\ settings \notin taken THEN settings ELSE None
        /\ current = IF Windows THEN settings ELSE registered
    BY DEF Init
  <2>3. dialog \in [capturing : BOOLEAN, pending : Combo \cup {None}, failed : BOOLEAN,
                    unregistered : BOOLEAN]
    BY DEF Init
  <2> QED BY <1>1, <2>1, <2>2, <2>3, HotkeyAssumption DEF HotkeyTypes
<1> QED
  BY <1>1, <1>3, <1>4 DEF HotkeyIInv, Numbered, AboutIt, StillHeld

\* A new request has a number of its own.
LEMMA ApplyKeepsHotkeyIInv ==
    ASSUME HotkeyIInv, NEW k \in Combo, Apply(k)
    PROVE  HotkeyIInv'
<1> DEFINE new == [seq |-> seq + 1, combo |-> k]
<1>1. /\ seq' = seq + 1 /\ confirm' = new
      /\ commands' = commands \/ commands' = Append(commands, new)
      /\ UNCHANGED <<alive, current, registered, taken, answers, settings>>
      /\ dialog' = [dialog EXCEPT !.failed = FALSE] /\ seq < Requests
  BY DEF Apply, thread
<1>2. new \in Posted /\ new.seq = seq + 1 /\ new.combo = k /\ seq \in Nat
  BY DEF Posted, HotkeyIInv, Numbered
<1> HIDE DEF new
<1>3. /\ commands \in Seq(Posted) /\ Len(commands) \in Nat
      /\ \A i \in 1 .. Len(commands) : commands[i] \in Posted /\ commands[i].seq <= seq
      /\ \A i \in 1 .. Len(answers) : answers[i].ok => answers[i].seq <= seq
  BY DEF HotkeyIInv, Numbered
<1>4. \A i \in 1 .. Len(commands) : commands[i].seq \in Nat
  BY <1>3 DEF Posted
<1>5. \A i \in 1 .. Len(answers) : answers[i].seq \in Nat
  BY Queues DEF HotkeyIInv
<1>6. HotkeyTypes'
  <2>1. confirm' \in Posted /\ confirm'.seq <= seq' /\ seq' <= Requests
    BY <1>1, <1>2, HotkeyAssumption
  <2> QED BY <1>1, <2>1 DEF HotkeyIInv, HotkeyTypes
<1>7. CASE commands' = commands
  <2>1. Numbered'
    BY <1>1, <1>2, <1>3, <1>4, <1>5, <1>7 DEF HotkeyIInv, Numbered
  <2>2. AboutIt' /\ StillHeld'
    BY <1>1, <1>2, <1>3, <1>4, <1>5, <1>7 DEF AboutIt, StillHeld
  <2> QED BY <1>6, <2>1, <2>2 DEF HotkeyIInv
<1>8. CASE commands' = Append(commands, new)
  <2>1. /\ commands' \in Seq(Posted) /\ Len(commands') = Len(commands) + 1
        /\ commands'[Len(commands) + 1] = new
        /\ \A i \in 1 .. Len(commands) : commands'[i] = commands[i]
    BY <1>2, <1>3, <1>8
  <2>2. \A i \in 1 .. Len(commands') : i = Len(commands) + 1 \/ i \in 1 .. Len(commands)
    BY <1>3, <2>1
  <2>3. Numbered'
    <3> DEFINE final == Len(commands) + 1
    <3>1. \A i \in 1 .. Len(commands') : /\ i = final => commands'[i].seq = seq + 1
                                         /\ i # final => i \in 1 .. Len(commands)
                                                        /\ commands'[i] = commands[i]
      BY <1>2, <2>1, <2>2
    <3>2. \A i \in 1 .. Len(commands') : commands'[i].seq <= seq'
      BY <1>1, <1>2, <1>3, <1>4, <3>1
    <3>3. ASSUME NEW i \in 1 .. Len(commands'), NEW j \in 1 .. Len(commands'), i < j
          PROVE  commands'[i].seq < commands'[j].seq
      <4>1. i # final /\ i \in 1 .. Len(commands) /\ commands'[i] = commands[i]
        BY <1>3, <2>1, <3>1, <3>3
      <4>2. CASE j = final
        BY <1>2, <1>3, <1>4, <3>1, <4>1, <4>2
      <4>3. CASE j # final
        <5>1. j \in 1 .. Len(commands) /\ commands'[j] = commands[j]
          BY <3>1, <4>3
        <5>2. commands[i].seq < commands[j].seq
          BY <3>3, <4>1, <5>1 DEF HotkeyIInv, Numbered
        <5> QED BY <4>1, <5>1, <5>2
      <4> QED BY <4>2, <4>3
    <3>4. \A i \in 1 .. Len(answers) : answers[i].ok => answers[i].seq <= seq'
      BY <1>1, <1>2, <1>3, <1>5
    <3>5. \A i \in 1 .. Len(answers), j \in 1 .. Len(commands') :
              answers[i].ok => answers[i].seq < commands'[j].seq
      <4>1. \A i \in 1 .. Len(answers), j \in 1 .. Len(commands) :
                answers[i].ok => answers[i].seq < commands[j].seq
        BY DEF HotkeyIInv, Numbered
      <4> QED BY <1>2, <1>3, <1>5, <3>1, <4>1
    <3>6. seq' \in Nat /\ answers' \in Seq(Told) /\ confirm'.seq = seq'
      BY <1>1, <1>2 DEF HotkeyIInv, Numbered
    <3> QED BY <1>1, <2>1, <3>2, <3>3, <3>4, <3>5, <3>6 DEF Numbered
  <2>4. AboutIt'
    BY <1>1, <1>2, <1>3, <1>4, <1>5, <2>1, <2>2 DEF AboutIt
  <2>5. StillHeld'
    BY <1>1, <1>2, <1>3, <1>5 DEF StillHeld
  <2> QED BY <1>6, <2>3, <2>4, <2>5 DEF HotkeyIInv
<1> QED
  BY <1>1, <1>7, <1>8

\* The thread takes the oldest request: its number is above every success
\* before and below every request after it.
LEMMA HandleKeepsHotkeyIInv ==
    ASSUME HotkeyIInv, HandleCommand
    PROVE  HotkeyIInv'
<1> DEFINE k == Head(commands)
<1>1. /\ commands # <<>> /\ commands' = Tail(commands)
      /\ UNCHANGED <<alive, taken, settings, seq, confirm, dialog>>
  BY DEF HandleCommand, panel
<1>2. PICK ok \in BOOLEAN, back \in BOOLEAN :
          /\ answers' = Append(answers, Answer(k.seq, ok, back))
          /\ ok => current' = k.combo /\ registered' = k.combo
  BY DEF HandleCommand
<1> DEFINE new == Answer(k.seq, ok, back)
<1>3. /\ commands \in Seq(Posted) /\ Len(commands) \in Nat /\ Len(commands) >= 1
      /\ k = commands[1] /\ k \in Posted
      /\ commands' \in Seq(Posted) /\ Len(commands') = Len(commands) - 1
      /\ \A i \in 1 .. Len(commands') : i + 1 \in 1 .. Len(commands)
                                        /\ commands'[i] = commands[i + 1]
  BY <1>1 DEF HotkeyIInv, Numbered
<1> HIDE DEF k
<1>4. k.seq \in Nat /\ new \in Told /\ new.seq = k.seq /\ new.ok = ok
  BY <1>3 DEF Posted, Answer, Told
<1> HIDE DEF new
<1>5. /\ answers \in Seq(Told) /\ Len(answers) \in Nat
      /\ answers' \in Seq(Told) /\ Len(answers') = Len(answers) + 1
      /\ answers'[Len(answers) + 1] = new
      /\ \A i \in 1 .. Len(answers) : answers'[i] = answers[i]
      /\ \A i \in 1 .. Len(answers') : i = Len(answers) + 1 \/ i \in 1 .. Len(answers)
  BY <1>2, <1>4 DEF HotkeyIInv, Numbered, new
<1>6. /\ seq \in Nat /\ \A i \in 1 .. Len(commands) : commands[i].seq \in Nat /\ commands[i].seq <= seq
      /\ \A i \in 1 .. Len(answers) : answers[i].seq \in Nat
      /\ \A i \in 1 .. Len(answers) : answers[i].ok => answers[i].seq < k.seq
      /\ \A i \in 1 .. Len(commands') : k.seq < commands'[i].seq
      /\ k.seq <= seq /\ (confirm # NoConfirm /\ k.seq = seq => k.combo = confirm.combo)
  <2>1. 1 \in 1 .. Len(commands) /\ seq \in Nat
    BY <1>3 DEF HotkeyIInv, Numbered
  <2>2. /\ \A i \in 1 .. Len(commands) : commands[i].seq \in Nat /\ commands[i].seq <= seq
        /\ \A i \in 1 .. Len(answers) : answers[i].seq \in Nat
    BY Queues DEF HotkeyIInv, Numbered
  <2>3. /\ \A i \in 1 .. Len(answers) : answers[i].ok => answers[i].seq < k.seq
        /\ \A i \in 2 .. Len(commands) : k.seq < commands[i].seq
    <3>1. \A i \in 2 .. Len(commands) : i \in 1 .. Len(commands) /\ 1 < i
      BY <1>3
    <3>2. \A i \in 2 .. Len(commands) : commands[1].seq < commands[i].seq
      BY <2>1, <3>1 DEF HotkeyIInv, Numbered
    <3>3. \A i \in 1 .. Len(answers) : answers[i].ok => answers[i].seq < commands[1].seq
      BY <2>1 DEF HotkeyIInv, Numbered
    <3> QED BY <1>3, <3>2, <3>3
  <2>4. \A i \in 1 .. Len(commands') : k.seq < commands'[i].seq
    BY <1>3, <2>3
  <2>5. k.seq <= seq /\ (confirm # NoConfirm /\ k.seq = seq => k.combo = confirm.combo)
    BY <1>3, <2>1, <2>2 DEF HotkeyIInv, AboutIt
  <2> QED BY <2>1, <2>2, <2>3, <2>4, <2>5
<1>7. Numbered'
  <2>1. \A i \in 1 .. Len(commands') : commands'[i].seq <= seq
    BY <1>3, <1>6
  <2>2. ASSUME NEW i \in 1 .. Len(commands'), NEW j \in 1 .. Len(commands'), i < j
        PROVE  commands'[i].seq < commands'[j].seq
    <3>1. i + 1 \in 1 .. Len(commands) /\ j + 1 \in 1 .. Len(commands) /\ i + 1 < j + 1
      BY <1>3, <2>2
    <3>2. commands[i + 1].seq < commands[j + 1].seq
      BY <3>1 DEF HotkeyIInv, Numbered
    <3> QED BY <1>3, <3>2
  <2>3. \A i \in 1 .. Len(answers') : answers'[i].ok => answers'[i].seq <= seq
    BY <1>4, <1>5, <1>6 DEF HotkeyIInv, Numbered
  <2>4. \A i \in 1 .. Len(answers'), j \in 1 .. Len(commands') :
            answers'[i].ok => answers'[i].seq < commands'[j].seq
    BY <1>3, <1>4, <1>5, <1>6 DEF HotkeyIInv, Numbered
  <2> QED BY <1>1, <1>3, <1>5, <2>1, <2>2, <2>3, <2>4 DEF HotkeyIInv, Numbered
<1>8. \A i \in 1 .. Len(answers') : answers'[i].ok /\ answers'[i].seq = seq =>
          i = Len(answers) + 1 /\ k.seq = seq /\ ok
  BY <1>4, <1>5, <1>6
<1>9. AboutIt'
  BY <1>1, <1>2, <1>3, <1>6, <1>8 DEF HotkeyIInv, AboutIt
<1>10. StillHeld'
  BY <1>1, <1>2, <1>8 DEF StillHeld
<1>11. HotkeyTypes'
  <2>1. k.combo \in Combo /\ alive
    BY <1>3 DEF Posted, HandleCommand
  <2>2. \/ k.combo \notin taken /\ registered' = k.combo /\ current' = k.combo
        \/ /\ registered' = current \/ registered' = None
           /\ registered' # None => current \notin taken
           /\ current' = current \/ current' = None
    BY DEF HandleCommand, k
  <2> QED BY <1>1, <2>1, <2>2 DEF HotkeyIInv, HotkeyTypes
<1> QED
  BY <1>7, <1>9, <1>10, <1>11 DEF HotkeyIInv

\* An answer is read.
LEMMA PollKeepsHotkeyIInv ==
    ASSUME HotkeyIInv, PollAnswer
    PROVE  HotkeyIInv'
<1>1. /\ answers # <<>> /\ answers' = Tail(answers)
      /\ UNCHANGED <<alive, current, registered, taken, commands, seq>>
      /\ confirm' = confirm \/ confirm' = NoConfirm
  BY DEF PollAnswer, thread
<1>2. /\ answers' \in Seq(Told) /\ Len(answers') \in Nat
      /\ \A i \in 1 .. Len(answers') : i + 1 \in 1 .. Len(answers)
                                       /\ answers'[i] = answers[i + 1]
  BY <1>1 DEF HotkeyIInv, Numbered
<1>3. HotkeyTypes'
  <2>1. confirm' \in Posted /\ confirm'.seq <= seq
    BY <1>1, HotkeyAssumption DEF HotkeyIInv, HotkeyTypes, Numbered, NoConfirm, Posted
  <2>2. settings' \in Combo
    BY DEF PollAnswer, HotkeyIInv, HotkeyTypes, Posted
  <2>3. dialog' \in [capturing : BOOLEAN, pending : Combo \cup {None}, failed : BOOLEAN,
                     unregistered : BOOLEAN]
    <3>1. Head(answers).rolledBack \in BOOLEAN /\ Head(answers).ok \in BOOLEAN
      BY <1>1, Queues DEF HotkeyIInv
    <3> QED BY <3>1 DEF PollAnswer, HotkeyIInv, HotkeyTypes, Shut
  <2> QED BY <1>1, <2>1, <2>2, <2>3 DEF HotkeyIInv, HotkeyTypes
<1> QED
  BY <1>1, <1>2, <1>3 DEF HotkeyIInv, Numbered, AboutIt, StillHeld

\* The thread ends: its last word is no success.
LEMMA DiesKeepsHotkeyIInv ==
    ASSUME HotkeyIInv, ThreadDies
    PROVE  HotkeyIInv'
<1>1. /\ alive' = FALSE /\ commands' = <<>> /\ answers' = Append(answers, Died)
      /\ UNCHANGED <<current, taken, settings, seq, confirm, dialog>> /\ registered' = None
  BY DEF ThreadDies, panel
<1>2. Died \in Told /\ ~Died.ok
  BY HotkeyAssumption DEF Died, Told
<1>3. /\ answers' \in Seq(Told) /\ Len(answers') = Len(answers) + 1 /\ Len(answers) \in Nat
      /\ answers'[Len(answers) + 1] = Died
      /\ \A i \in 1 .. Len(answers) : answers'[i] = answers[i]
      /\ \A i \in 1 .. Len(answers') : i = Len(answers) + 1 \/ i \in 1 .. Len(answers)
  BY <1>1, <1>2 DEF HotkeyIInv, Numbered
<1>4. \A i \in 1 .. Len(answers') :
          answers'[i].ok => i \in 1 .. Len(answers) /\ answers'[i] = answers[i]
  BY <1>2, <1>3
<1>5. HotkeyTypes'
  BY <1>1 DEF HotkeyIInv, HotkeyTypes
<1> QED
  BY <1>1, <1>3, <1>4, <1>5 DEF HotkeyIInv, Numbered, AboutIt, StillHeld

\* Every step keeps the invariant.
LEMMA HotkeyNext ==
    ASSUME HotkeyIInv, [Next]_keyVars
    PROVE  HotkeyIInv'
<1>1. CASE OpenDialog \/ CloseDialog \/ Record \/ OthersTakeOrFree \/ UNCHANGED keyVars
  <2>1. UNCHANGED <<alive, current, registered, commands, answers, settings, seq, confirm>>
    BY <1>1 DEF OpenDialog, CloseDialog, Record, OthersTakeOrFree, thread, panel, keyVars
  <2>2. /\ taken' \subseteq Combo
        /\ registered \notin taken => registered \notin taken'
    BY <1>1 DEF OpenDialog, CloseDialog, Record, OthersTakeOrFree, thread, keyVars, HotkeyIInv, HotkeyTypes
  <2>3. dialog' \in [capturing : BOOLEAN, pending : Combo \cup {None}, failed : BOOLEAN,
                     unregistered : BOOLEAN]
    BY <1>1 DEF OpenDialog, CloseDialog, Record, OthersTakeOrFree, panel, keyVars, Shut, HotkeyIInv, HotkeyTypes
  <2>4. HotkeyTypes'
    BY <2>1, <2>2, <2>3 DEF HotkeyIInv, HotkeyTypes
  <2> QED BY <2>1, <2>4 DEF HotkeyIInv, Numbered, AboutIt, StillHeld
<1>2. CASE ConfirmTimesOut
  <2>1. /\ UNCHANGED <<alive, current, registered, taken, commands, answers, settings, seq>>
        /\ confirm' = NoConfirm /\ dialog' = [dialog EXCEPT !.failed = TRUE]
    BY <1>2 DEF ConfirmTimesOut, thread
  <2>2. NoConfirm \in Posted /\ NoConfirm.seq <= seq
    BY HotkeyAssumption DEF NoConfirm, Posted, HotkeyIInv, Numbered
  <2>3. HotkeyTypes'
    BY <2>1, <2>2 DEF HotkeyIInv, HotkeyTypes
  <2> QED BY <2>1, <2>3 DEF HotkeyIInv, Numbered, AboutIt, StillHeld
<1>3. CASE Save \/ RestoreDefault
  <2>1. \E k \in Combo : Apply(k)
    BY <1>3, HotkeyAssumption DEF Save, RestoreDefault, HotkeyIInv, HotkeyTypes
  <2> QED BY <2>1, ApplyKeepsHotkeyIInv
<1> QED
  BY <1>1, <1>2, <1>3, HandleKeepsHotkeyIInv, PollKeepsHotkeyIInv, DiesKeepsHotkeyIInv DEF Next

\* With it the hotkey has its types.
LEMMA HotkeyWhole == HotkeyIInv => TypeOK
<1> SUFFICES ASSUME HotkeyIInv PROVE TypeOK
  OBVIOUS
<1>1. \A i \in DOMAIN commands : commands[i].seq \in 0 .. seq /\ commands[i].combo \in Combo
  <2>1. DOMAIN commands = 1 .. Len(commands)
    BY DEF HotkeyIInv, Numbered
  <2>2. \A i \in 1 .. Len(commands) : commands[i].seq <= seq
    BY DEF HotkeyIInv, Numbered
  <2> QED BY <2>1, <2>2, Queues DEF HotkeyIInv
<1>2. confirm.seq \in 0 .. seq /\ confirm.combo \in Combo /\ seq \in 0 .. Requests
  BY HotkeyAssumption DEF HotkeyIInv, HotkeyTypes, Numbered, Posted
<1> QED BY <1>1, <1>2 DEF HotkeyIInv, HotkeyTypes, TypeOK

\* The queues of the two threads, the dialog and the registration fit: what is
\* registered is registered with a living thread and with nobody else.
THEOREM TypeCorrect == Spec => []TypeOK
  BY HotkeyInit, HotkeyNext, HotkeyWhole, PTL DEF Spec

\* poll_hotkey writes the settings only for a combination the thread took and
\* still holds (or held when it died), however late the answer comes and
\* however many requests were replaced or given up before.
THEOREM WrittenOnlyIfRegistered == GuiSpec => WrittenOnceRegistered
<1>1. ASSUME HotkeyIInv, [Next]_keyVars PROVE WritesRegistered
  <2> SUFFICES ASSUME settings' # settings
               PROVE  settings' = IF alive THEN registered ELSE current
    BY DEF WritesRegistered
  <2>1. PollAnswer
    BY <1>1 DEF Next, OpenDialog, CloseDialog, Record, Save, RestoreDefault, Apply, HandleCommand,
                ThreadDies, OthersTakeOrFree, ConfirmTimesOut, keyVars, panel
  <2> DEFINE reply == Head(answers)
  <2>2. answers # <<>> /\ AnswersIt(reply) /\ reply.ok /\ settings' = confirm.combo
    BY <2>1 DEF PollAnswer
  <2>3. 1 \in 1 .. Len(answers) /\ reply = answers[1]
    BY <1>1, <2>2 DEF HotkeyIInv, Numbered
  <2>4. confirm # NoConfirm /\ reply.seq = seq
    BY <1>1, <2>2 DEF AnswersIt, HotkeyIInv, Numbered
  <2> HIDE DEF reply
  <2>5. current = confirm.combo /\ (alive => registered = current)
    BY <1>1, <2>2, <2>3, <2>4 DEF HotkeyIInv, AboutIt, StillHeld
  <2> QED BY <2>2, <2>5
<1>2. GuiInit => HotkeyIInv
  BY HotkeyInit DEF GuiInit
<1>3. HotkeyIInv /\ [GuiNext]_guiVars => HotkeyIInv' /\ [WritesRegistered]_keyVars
  <2> SUFFICES ASSUME HotkeyIInv, [GuiNext]_guiVars
               PROVE  HotkeyIInv' /\ [WritesRegistered]_keyVars
    OBVIOUS
  <2>1. [Next]_keyVars
    BY DEF GuiNext, guiVars, hotkeyVars, keyVars, thread, panel
  <2> QED BY <1>1, <2>1, HotkeyNext
<1> QED
  BY <1>2, <1>3, PTL DEF GuiSpec, WrittenOnceRegistered

-----------------------------------------------------------------------------
(* The list and its menu (PanelList).                                      *)

\* PanelState, its selection aside.
ListOk(l) ==
    l \in [items : Seq(Command), query : Query \cup {List!Blank},
           apps : {"always", "asked for", "never"}, fallback : Seq(List!Row),
           usage : [Command -> Nat], selected : {l.selected}]

\* The strengthening: the rows that are shown, and the row the menu was opened
\* on, are commands, or offers of extensions.
ListIInv ==
    /\ ListOk(list) /\ usage \in [Command -> Nat]
    /\ ready \in Seq(Ext) /\ arrived \in Seq(Command)
    /\ menu # List!NoMenu => menu.row \in List!Row
    /\ List!MenuActsOnItsRow

\* A command is a pair of an extension and an id.
LEMMA Commands ==
    /\ IsFiniteSet(Command)
    /\ \A text \in Query, k \in Command : Score[text][k] \in Nat
  BY GuiAssumption

\* The fields of the panel, as the types have them.
LEMMA Fields ==
    ASSUME NEW l, ListOk(l)
    PROVE  /\ l.items \in Seq(Command) /\ Len(l.items) \in Nat
           /\ DOMAIN l.items = 1 .. Len(l.items)
           /\ \A i \in DOMAIN l.items : l.items[i] \in Command
           /\ l.fallback \in Seq(List!Row)
           /\ \A i \in DOMAIN l.fallback : l.fallback[i] \in List!Row
           /\ l.query \in Query \cup {List!Blank}
           /\ l.usage \in [Command -> Nat]
<1>1. /\ l.items \in Seq(Command) /\ l.fallback \in Seq(List!Row)
      /\ l.query \in Query \cup {List!Blank} /\ l.usage \in [Command -> Nat]
  BY DEF ListOk
<1> QED BY <1>1

\* The parts of Visible.
Hits(l) == {i \in DOMAIN l.items : List!Matches(l, l.items[i])}
Rating(l, i) == IF l.query = List!Blank THEN 0 ELSE Score[l.query][l.items[i]]
Uses(l, i) == l.usage[l.items[i]]
Before(l, i, j) ==
    \/ Rating(l, i) > Rating(l, j)
    \/ Rating(l, i) = Rating(l, j) /\ Uses(l, i) > Uses(l, j)
    \/ Rating(l, i) = Rating(l, j) /\ Uses(l, i) = Uses(l, j) /\ i < j
Above(l, i) == {j \in Hits(l) : Before(l, j, i)}
Place(l, i) == Cardinality(Above(l, i)) + 1

\* The cardinality of the model is that of the library.
LEMMA Counted == \A S : List!Cardinality(S) = Cardinality(S)
  BY DEF Cardinality, List!Cardinality

\* The order of two hits is strict and total.
LEMMA Ordered ==
    ASSUME NEW l, ListOk(l)
    PROVE  /\ \A i \in Hits(l) : i \in 1 .. Len(l.items) /\ ~Before(l, i, i)
           /\ \A i, j \in Hits(l) : i # j => Before(l, i, j) \/ Before(l, j, i)
           /\ \A i, j, k \in Hits(l) : Before(l, i, j) /\ Before(l, j, k) => Before(l, i, k)
<1>1. l.usage \in [Command -> Nat] /\ l.query \in Query \cup {List!Blank}
  BY Fields
<1>2. \A i \in Hits(l) : i \in 1 .. Len(l.items) /\ l.items[i] \in Command /\ i \in Nat
  BY Fields DEF Hits
<1>3. \A i \in Hits(l) : Rating(l, i) \in Nat /\ Uses(l, i) \in Nat
  BY <1>1, <1>2, Commands DEF Rating, Uses
<1> QED
  BY <1>2, <1>3 DEF Before

\* Every place is taken by one hit: the better a hit the fewer are above it.
LEMMA EveryPlaceTaken ==
    ASSUME NEW l, ListOk(l), NEW p \in 1 .. Cardinality(Hits(l))
    PROVE  \E i \in Hits(l) : Place(l, i) = p
<1> DEFINE H == Hits(l)
           P == 1 .. Cardinality(H)
           f == [i \in H |-> Place(l, i)]
<1>1. IsFiniteSet(H) /\ Cardinality(H) \in Nat
  <2>1. Len(l.items) \in Nat
    BY Fields
  <2>2. IsFiniteSet(1 .. Len(l.items))
    BY <2>1, FS_Interval
  <2>3. H \subseteq 1 .. Len(l.items)
    BY Ordered
  <2>4. IsFiniteSet(H)
    BY <2>2, <2>3, FS_Subset
  <2> QED BY <2>4, FS_CardinalityType
<1>2. \A i \in H : IsFiniteSet(Above(l, i)) /\ Cardinality(Above(l, i)) \in Nat
  <2> SUFFICES ASSUME NEW i \in H
               PROVE  IsFiniteSet(Above(l, i)) /\ Cardinality(Above(l, i)) \in Nat
    OBVIOUS
  <2>1. Above(l, i) \subseteq H
    BY DEF Above
  <2>2. IsFiniteSet(Above(l, i))
    BY <1>1, <2>1, FS_Subset
  <2> QED BY <2>2, FS_CardinalityType
<1>3. ASSUME NEW i \in H, NEW j \in H, Before(l, i, j)
      PROVE  Place(l, i) < Place(l, j)
  <2>1. Above(l, i) \subseteq Above(l, j)
    BY <1>3, Ordered DEF Above
  <2>2. i \in Above(l, j) /\ i \notin Above(l, i)
    BY <1>3, Ordered DEF Above
  <2>3. /\ Cardinality(Above(l, i)) <= Cardinality(Above(l, j))
        /\ Cardinality(Above(l, i)) # Cardinality(Above(l, j))
    BY <1>2, <2>1, <2>2, FS_Subset
  <2> QED BY <1>2, <2>3 DEF Place
<1>4. \A i \in H : Place(l, i) \in P
  <2> SUFFICES ASSUME NEW i \in H PROVE Place(l, i) \in P
    OBVIOUS
  <2>1. Above(l, i) \subseteq H /\ i \notin Above(l, i)
    BY Ordered DEF Above
  <2>2. /\ Cardinality(Above(l, i)) <= Cardinality(H)
        /\ Cardinality(Above(l, i)) # Cardinality(H)
    BY <1>1, <2>1, FS_Subset
  <2> QED BY <1>1, <1>2, <2>2 DEF Place
<1>5. f \in Injection(H, P)
  <2>1. f \in [H -> P]
    BY <1>4
  <2>2. ASSUME NEW i \in H, NEW j \in H, f[i] = f[j] PROVE i = j
    <3>1. SUFFICES ASSUME i # j PROVE FALSE
      OBVIOUS
    <3>2. Place(l, i) = Place(l, j) /\ Place(l, i) \in Nat /\ Place(l, j) \in Nat
      BY <1>2, <2>2 DEF Place
    <3> QED BY <1>3, <3>1, <3>2, Ordered
  <2> QED BY <2>1, <2>2 DEF Injection, IsInjective
<1>6. IsFiniteSet(P) /\ Cardinality(P) = Cardinality(H)
  BY <1>1, FS_Interval
<1>7. f \in Surjection(H, P)
  BY <1>5, <1>6, FS_Injection
<1>8. \E i \in H : f[i] = p
  BY <1>7 DEF Surjection
<1> QED BY <1>8

\* Every row that is shown is a row.
LEMMA RowsShown ==
    ASSUME NEW l, ListOk(l), NEW p \in DOMAIN List!Shown(l)
    PROVE  List!Shown(l)[p] \in List!Row
<1>1. CASE List!Shown(l) = l.fallback
  BY <1>1, Fields
<1>2. CASE List!Shown(l) = List!Visible(l)
  <2>1. List!Visible(l) =
            [n \in 1 .. Cardinality(Hits(l)) |->
                [of |-> l.items[CHOOSE i \in Hits(l) : Place(l, i) = n], offer |-> List!Blank]]
    BY Counted DEF List!Visible, Hits, Place, Above, Before, Rating, Uses
  <2>2. p \in 1 .. Cardinality(Hits(l))
    BY <1>2, <2>1
  <2> DEFINE i == CHOOSE n \in Hits(l) : Place(l, n) = p
  <2>3. i \in Hits(l)
    BY <2>2, EveryPlaceTaken
  <2>4. List!Shown(l)[p] = [of |-> l.items[i], offer |-> List!Blank]
    BY <1>2, <2>1, <2>2
  <2> HIDE DEF i
  <2>5. l.items[i] \in Command
    BY <2>3, Fields DEF Hits
  <2> QED BY <2>4, <2>5 DEF List!Row
<1> QED
  BY <1>1, <1>2 DEF List!Shown

\* What changes a list keeps its fields as they must be.
LEMMA ClampedOk ==
    ASSUME NEW l, ListOk(l)
    PROVE  ListOk(List!Clamped(l))
<1> DEFINE n == Len(List!Shown(l))
           at == IF n = 0 THEN 0 ELSE IF l.selected \in 1 .. n THEN l.selected ELSE 1
<1>1. List!Clamped(l) = [l EXCEPT !.selected = at]
  BY DEF List!Clamped
<1> HIDE DEF at
<1> QED BY <1>1 DEF ListOk

\* A text or a filter that changes leaves the rows as they must be.
LEMMA ChangedOk ==
    ASSUME NEW l, ListOk(l)
    PROVE  /\ \A text \in Query \cup {List!Blank} : ListOk(List!SetQuery(l, text))
           /\ \A apps \in {"always", "asked for", "never"} : ListOk(List!SetApps(l, apps))
           /\ \A counts \in [Command -> Nat] : ListOk(List!SetUsage(l, counts))
           /\ \A rows : (l.query # List!Blank => rows \in Seq(List!Row)) =>
                 ListOk(List!SetFallback(l, rows))
           /\ ListOk(List!ClearFallback(l)) /\ ListOk(List!Reset(l))
           /\ \A at : ListOk([l EXCEPT !.selected = at])
<1>1. ASSUME NEW text \in Query \cup {List!Blank}
      PROVE  ListOk(List!SetQuery(l, text))
  <2>1. ListOk([l EXCEPT !.query = text])
    BY DEF ListOk
  <2> QED BY <2>1, ClampedOk DEF List!SetQuery
<1>2. ASSUME NEW apps \in {"always", "asked for", "never"}
      PROVE  ListOk(List!SetApps(l, apps))
  <2>1. ListOk([l EXCEPT !.apps = apps])
    BY DEF ListOk
  <2> QED BY <2>1, ClampedOk DEF List!SetApps
<1>3. ASSUME NEW counts \in [Command -> Nat]
      PROVE  ListOk(List!SetUsage(l, counts))
  <2>1. ListOk([l EXCEPT !.usage = counts])
    BY DEF ListOk
  <2> QED BY <2>1, ClampedOk DEF List!SetUsage
<1>4. ASSUME NEW rows, l.query # List!Blank => rows \in Seq(List!Row)
      PROVE  ListOk(List!SetFallback(l, rows))
  <2>1. CASE l.query = List!Blank
    BY <2>1 DEF List!SetFallback
  <2>2. CASE l.query # List!Blank
    <3>1. ListOk([l EXCEPT !.fallback = rows])
      BY <1>4, <2>2 DEF ListOk
    <3> QED BY <2>2, <3>1, ClampedOk DEF List!SetFallback
  <2> QED BY <2>1, <2>2
<1>5. ListOk(List!ClearFallback(l))
  <2>1. <<>> \in Seq(List!Row)
    OBVIOUS
  <2>2. ListOk([l EXCEPT !.fallback = <<>>])
    BY <2>1 DEF ListOk
  <2> QED BY <2>2, ClampedOk DEF List!ClearFallback
<1>6. ListOk(List!Reset(l))
  <2>1. <<>> \in Seq(List!Row)
    OBVIOUS
  <2>2. ListOk([l EXCEPT !.query = List!Blank, !.fallback = <<>>, !.selected = 1])
    BY <2>1 DEF ListOk
  <2> QED BY <2>2, ClampedOk DEF List!Reset
<1>7. ASSUME NEW at PROVE ListOk([l EXCEPT !.selected = at])
  BY DEF ListOk
<1> QED BY <1>1, <1>2, <1>3, <1>4, <1>5, <1>6, <1>7

\* A new list has a row for each place.
LEMMA NewListOk ==
    ASSUME NEW items \in Seq(Command)
    PROVE  ListOk(List!NewList(items))
<1> DEFINE l == [items |-> items, query |-> List!Blank, apps |-> "always", fallback |-> <<>>,
                 usage |-> List!NoUses, selected |-> 0]
<1>1. List!NoUses \in [Command -> Nat] /\ <<>> \in Seq(List!Row)
  BY DEF List!NoUses
<1>2. ListOk(l)
  BY <1>1 DEF ListOk
<1> HIDE DEF l
<1>3. ListOk(List!Clamped(l))
  BY <1>2, ClampedOk
<1> QED BY <1>3 DEF List!NewList, l

\* The offers of the extensions for a text are rows.
LEMMA OffersAreRows ==
    ASSUME NEW templates \in Seq(Ext), NEW text \in Query
    PROVE  [i \in DOMAIN templates |-> [of |-> List!Offered(templates[i]), offer |-> text]]
               \in Seq(List!Row)
<1>1. Len(templates) \in Nat /\ DOMAIN templates = 1 .. Len(templates)
      /\ \A i \in 1 .. Len(templates) : templates[i] \in Ext
  OBVIOUS
<1>2. \A i \in 1 .. Len(templates) :
          [of |-> List!Offered(templates[i]), offer |-> text] \in List!Row
  BY <1>1 DEF List!Row
<1> QED BY <1>1, <1>2

\* rebuild_root_from_arrived.
LEMMA RebuiltOk ==
    ASSUME ListIInv, NEW items \in Seq(Command)
    PROVE  ListOk(List!Rebuilt(items))
<1> DEFINE l == List!SetApps(List!SetQuery(List!NewList(items), list.query), list.apps)
           kept == IF list.selected = 0 THEN l
                   ELSE List!SelectByIdentity(l, List!Shown(list)[list.selected].of)
<1>1. list.query \in Query \cup {List!Blank} /\ list.apps \in {"always", "asked for", "never"}
  BY DEF ListIInv, ListOk
<1>2. ListOk(List!SetQuery(List!NewList(items), list.query))
  BY <1>1, NewListOk, ChangedOk
<1>3. ListOk(l)
  BY <1>1, <1>2, ChangedOk
<1> HIDE DEF l
<1>4. ListOk(kept)
  <2>1. kept = l \/ \E at : kept = [l EXCEPT !.selected = at]
    BY DEF List!SelectByIdentity
  <2>2. \A at : ListOk([l EXCEPT !.selected = at])
    BY <1>3, ChangedOk
  <2> HIDE DEF kept
  <2> QED BY <1>3, <2>1, <2>2
<1> HIDE DEF kept
<1>5. ListOk(List!SetUsage(kept, usage))
  BY <1>4, ChangedOk DEF ListIInv
<1> QED BY <1>5 DEF List!Rebuilt, kept, l

\* sync_fallback.
LEMMA SyncedOk ==
    ASSUME ListIInv, NEW l, ListOk(l)
    PROVE  ListOk(List!Synced(l))
<1>1. List!Synced(l) \in {l, List!ClearFallback(l), List!SetFallback(l, List!Render(l.query))}
  BY DEF List!Synced
<1>2. l.query # List!Blank => List!Render(l.query) \in Seq(List!Row)
  BY Fields, OffersAreRows DEF List!Render, ListIInv
<1> QED BY <1>1, <1>2, ChangedOk

\* The panel is empty at first.
LEMMA ListInit == List!Init => ListIInv
<1> SUFFICES ASSUME List!Init PROVE ListIInv
  OBVIOUS
<1>1. <<>> \in Seq(Command) /\ <<>> \in Seq(Ext)
  OBVIOUS
<1>3. ListOk(list)
  BY <1>1, NewListOk DEF List!Init
<1>2. did = "nothing" /\ menu = List!NoMenu
  BY DEF List!Init
<1> QED
  BY <1>1, <1>2, <1>3 DEF List!Init, ListIInv, List!MenuActsOnItsRow

\* Arrivals of commands and of templates.
LEMMA ArrivalsKeepListIInv ==
    ASSUME ListIInv, NEW e \in Ext,
           \/ \E brought \in List!Offers(e) : List!Arrive(e, brought)
           \/ List!TemplatesArrive(e)
    PROVE  ListIInv'
<1>1. ASSUME NEW brought \in List!Offers(e), List!Arrive(e, brought)
      PROVE  ListIInv'
  <2>1. /\ arrived' = arrived \o brought /\ list' = List!Rebuilt(arrived')
        /\ UNCHANGED <<usage, ready, menu, did>>
    BY <1>1 DEF List!Arrive
  <2> DEFINE own == {k \in Command : k[1] = e}
  <2>2. IsFiniteSet(own) /\ Cardinality(own) \in Nat
    <3>1. IsFiniteSet(own)
      BY Commands, FS_Subset
    <3> QED BY <3>1, FS_CardinalityType
  <2>3. PICK n \in 0 .. Cardinality(own) : brought \in [1 .. n -> own]
    BY Counted DEF List!Offers
  <2>4. n \in Nat /\ brought \in [1 .. n -> Command]
    BY <2>2, <2>3
  <2>5. brought \in Seq(Command)
    BY <2>4
  <2>6. arrived' \in Seq(Command)
    BY <2>1, <2>5 DEF ListIInv
  <2>7. ListOk(list')
    BY <2>1, <2>6, RebuiltOk
  <2> QED BY <2>1, <2>6, <2>7 DEF ListIInv, List!MenuActsOnItsRow
<1>2. CASE List!TemplatesArrive(e)
  <2> DEFINE rows == [i \in DOMAIN ready' |-> [of |-> List!Offered(ready'[i]), offer |-> list.query]]
  <2>1. /\ ready' = Append(ready, e)
        /\ list' = list \/ list' = List!SetFallback(list, rows)
        /\ UNCHANGED <<usage, arrived, menu, did>>
    BY <1>2 DEF List!TemplatesArrive
  <2>2. ready' \in Seq(Ext)
    BY <2>1 DEF ListIInv
  <2>3. list.query # List!Blank => rows \in Seq(List!Row)
    BY <2>2, Fields, OffersAreRows DEF ListIInv
  <2> HIDE DEF rows
  <2>4. ListOk(List!SetFallback(list, rows))
    BY <2>3, ChangedOk DEF ListIInv
  <2>5. ListOk(list')
    BY <2>1, <2>4 DEF ListIInv
  <2> QED BY <2>1, <2>2, <2>5 DEF ListIInv, List!MenuActsOnItsRow
<1> QED BY <1>1, <1>2

\* record_usage.
LEMMA RecordedOk ==
    ASSUME ListIInv, NEW row, NEW l, ListOk(l), List!Recorded(row, l)
    PROVE  usage' \in [Command -> Nat] /\ ListOk(list')
<1>1. usage' = List!Counted(row) /\ list' = List!SetUsage(l, usage')
  BY DEF List!Recorded
<1>2. usage' \in [Command -> Nat]
  BY <1>1 DEF List!Counted, ListIInv
<1> QED BY <1>1, <1>2, ChangedOk

\* An entry of the menu acts only where a row with the id it was opened on has
\* the place: that row, or one of another extension.
LEMMA ActivateKeepsListIInv ==
    ASSUME ListIInv, NEW default \in BOOLEAN, List!Activate(default)
    PROVE  ListIInv'
<1> DEFINE there == List!Shown(list)[menu.at]
<1>1. /\ menu # List!NoMenu /\ menu' = List!NoMenu /\ UNCHANGED <<ready, arrived>>
      /\ \/ UNCHANGED <<list, usage, did>>
         \/ /\ menu.at \in DOMAIN List!Shown(list) /\ there.of[2] = menu.row.of[2]
            /\ \/ List!Recorded(there, [list EXCEPT !.selected = menu.at])
               \/ UNCHANGED <<list, usage>>
            /\ did' = List!ActsOn(there)
  BY DEF List!Activate
<1>2. CASE UNCHANGED <<list, usage, did>>
  BY <1>1, <1>2 DEF ListIInv, ListOk, List!MenuActsOnItsRow
<1>3. CASE did' # did \/ list' # list \/ usage' # usage
  <2>1. /\ menu.at \in DOMAIN List!Shown(list) /\ there.of[2] = menu.row.of[2]
        /\ \/ List!Recorded(there, [list EXCEPT !.selected = menu.at])
           \/ UNCHANGED <<list, usage>>
        /\ did' = List!ActsOn(there)
    BY <1>1, <1>3
  <2>2. usage' \in [Command -> Nat] /\ ListOk(list')
    <3>1. ListOk([list EXCEPT !.selected = menu.at])
      BY ChangedOk DEF ListIInv
    <3>2. CASE UNCHANGED <<list, usage>>
      BY <3>2 DEF ListIInv, ListOk
    <3>3. CASE List!Recorded(there, [list EXCEPT !.selected = menu.at])
      BY <3>1, <3>3, RecordedOk
    <3> QED BY <2>1, <3>2, <3>3
  <2>3. there \in List!Row /\ menu.row \in List!Row
    BY <1>1, <2>1, RowsShown DEF ListIInv
  <2>4. there.of \in List!Named /\ menu.row.of \in List!Named
    BY <2>3 DEF List!Row, List!Named
  <2>5. /\ did' \in {"what was meant", "a namesake"}
        /\ did' = "a namesake" => there.of # menu.row.of
    BY <2>1 DEF List!ActsOn
  <2>6. List!MenuActsOnItsRow'
    BY <2>1, <2>4, <2>5 DEF List!MenuActsOnItsRow
  <2> QED BY <1>1, <2>2, <2>6 DEF ListIInv
<1> QED BY <1>2, <1>3

\* The keys that move in the list and open its menu.
LEMMA KeysKeepListIInv ==
    ASSUME ListIInv,
           \/ \E i \in 1 .. List!Cardinality(Command) : List!Select(i) \/ List!OpenMenu(i)
           \/ List!Confirm \/ List!HideAndShow \/ List!Settings
           \/ \E text \in Query \cup {List!Blank} : List!Draw(text)
    PROVE  ListIInv'
<1> USE DEF List!MenuActsOnItsRow
<1>1. ASSUME NEW i, List!Select(i) \/ List!OpenMenu(i)
      PROVE  ListIInv'
  <2>1. /\ list' = [list EXCEPT !.selected = i] /\ i \in DOMAIN List!Shown(list)
        /\ UNCHANGED <<usage, ready, arrived, did>>
        /\ menu' = menu \/ menu'.row = List!Shown(list)[i]
    BY <1>1 DEF List!Select, List!OpenMenu
  <2>2. ListOk([list EXCEPT !.selected = i])
    BY ChangedOk DEF ListIInv
  <2>3. List!Shown(list)[i] \in List!Row
    BY <2>1, RowsShown DEF ListIInv
  <2>4. ListOk(list')
    BY <2>1, <2>2
  <2> QED BY <2>1, <2>3, <2>4 DEF ListIInv
<1>2. CASE List!Confirm
  <2>1. /\ List!Recorded(List!Shown(list)[list.selected], list)
        /\ did' \in {"what was meant", "another text"} /\ UNCHANGED <<ready, arrived, menu>>
    BY <1>2 DEF List!Confirm
  <2>2. usage' \in [Command -> Nat] /\ ListOk(list')
    BY <2>1, RecordedOk DEF ListIInv
  <2> QED BY <2>1, <2>2 DEF ListIInv
<1>3. CASE List!HideAndShow
  <2>1. /\ list' = List!Reset(list) /\ menu' = List!NoMenu
        /\ UNCHANGED <<usage, ready, arrived, did>>
    BY <1>3 DEF List!HideAndShow
  <2>2. ListOk(list')
    BY <2>1, ChangedOk DEF ListIInv
  <2> QED BY <2>1, <2>2 DEF ListIInv
<1>4. CASE List!Settings
  <2>1. /\ UNCHANGED <<menu, did>>
        /\ \/ /\ \E apps \in {"always", "asked for", "never"} : list' = List!SetApps(list, apps)
              /\ UNCHANGED <<usage, ready, arrived>>
           \/ ready' = <<>> /\ arrived' = <<>> /\ UNCHANGED <<list, usage>>
           \/ /\ usage' = List!NoUses /\ list' = List!SetUsage(list, usage')
              /\ UNCHANGED <<ready, arrived>>
    BY <1>4 DEF List!Settings
  <2>2. usage' \in [Command -> Nat] /\ ready' \in Seq(Ext) /\ arrived' \in Seq(Command)
    <3>1. <<>> \in Seq(Command) /\ <<>> \in Seq(Ext) /\ List!NoUses \in [Command -> Nat]
      BY DEF List!NoUses
    <3> QED BY <2>1, <3>1 DEF ListIInv
  <2>3. ListOk(list')
    BY <2>1, <2>2, ChangedOk DEF ListIInv
  <2> QED BY <2>1, <2>2, <2>3 DEF ListIInv
<1>5. ASSUME NEW text \in Query \cup {List!Blank}, List!Draw(text)
      PROVE  ListIInv'
  <2>1. /\ list' = List!Synced(List!SetQuery(list, text))
        /\ UNCHANGED <<usage, ready, arrived, menu, did>>
    BY <1>5 DEF List!Draw
  <2>2. ListOk(List!SetQuery(list, text))
    BY ChangedOk DEF ListIInv
  <2>3. ListOk(list')
    BY <2>1, <2>2, SyncedOk
  <2> QED BY <2>1, <2>3 DEF ListIInv
<1> QED BY <1>1, <1>2, <1>3, <1>4, <1>5

\* Every step keeps the invariant of the list.
LEMMA ListNext ==
    ASSUME ListIInv, List!Next \/ UNCHANGED listVars
    PROVE  ListIInv'
<1>1. CASE UNCHANGED listVars
  BY <1>1 DEF listVars, ListIInv, ListOk, List!MenuActsOnItsRow
<1>2. CASE List!Done
  <2>1. arrived' = <<>> /\ UNCHANGED <<list, usage, ready, menu, did>>
    BY <1>2 DEF List!Done
  <2>2. <<>> \in Seq(Command)
    OBVIOUS
  <2> QED BY <2>1, <2>2 DEF ListIInv, ListOk, List!MenuActsOnItsRow
<1>3. CASE List!Next
  BY <1>2, <1>3, ArrivalsKeepListIInv, ActivateKeepsListIInv, KeysKeepListIInv DEF List!Next
<1> QED BY <1>1, <1>3

\* The context menu acts on the row it was opened on, or on a row that another
\* extension gave the same id, or not at all, for any number of extensions,
\* texts and uses, whatever arrives, is typed or counted while it is open
\* (activate_ctx_menu in ctx_menu.rs).
THEOREM MenuStaysOnItsRow == GuiSpec => []MenuActsOnItsRow
<1> DEFINE I == part = "list" => ListIInv
<1>1. GuiInit => I
  BY ListInit DEF GuiInit, ListStart
<1>2. I /\ [GuiNext]_guiVars => I'
  <2> SUFFICES ASSUME I, [GuiNext]_guiVars PROVE I'
    OBVIOUS
  <2>1. part' = part /\ (part = "list" => List!Next \/ UNCHANGED listVars)
    BY DEF GuiNext, guiVars
  <2> QED BY <2>1, ListNext
<1>3. I => MenuActsOnItsRow
  BY DEF MenuActsOnItsRow, ListIInv
<1> QED
  BY <1>1, <1>2, <1>3, PTL DEF GuiSpec

-----------------------------------------------------------------------------
(* The window and the tray (WindowFlow).                                   *)

\* Within 300 ms of the button that goes down on the icon of a shown panel, and
\* before the Toggle that is taken for it, a panel that is hidden was hidden by
\* that click, and the mark of this is still there.
WindowIInv ==
    /\ trayEvents \in Seq({"Toggle", "OpenSettings"})
    /\ click = "quick" /\ ~windowVisible => lastFocusLoss

\* A step of a frame: the panel is hidden by the lost focus, or the click is
\* forgotten.
LEMMA FrameKeepsWindowIInv ==
    ASSUME WindowIInv, Window!Frame
    PROVE  WindowIInv' /\ Window!HidesOnTrayClick
<1> USE DEF WindowIInv, Window!HidesOnTrayClick, Window!TakesToggleOf
<1>1. Len(trayEvents) \in Nat
  OBVIOUS
<1>2. CASE Window!PollTray
  <2>1. CASE trayEvents = <<>>
    BY <1>2, <2>1 DEF Window!PollTray, Window!Still, Window!events, Window!looks
  <2>2. CASE trayEvents # <<>> /\ Head(trayEvents) = "Toggle"
    <3>1. /\ trayEvents' = Tail(trayEvents) /\ click' = "none"
          /\ IF Window!KeepsHidden THEN Window!Still ELSE Window!Toggle
      BY <1>2, <2>2 DEF Window!PollTray
    <3>2. trayEvents' \in Seq({"Toggle", "OpenSettings"})
      BY <2>2, <3>1
    <3>3. CASE windowVisible
      BY <3>1, <3>2, <3>3 DEF Window!KeepsHidden, Window!Toggle, Window!Hide, Window!HideOr, Window!HideNow
    <3>4. CASE ~windowVisible
      <4>1. click = "quick" => ~windowVisible'
        BY <3>1, <3>4 DEF Window!KeepsHidden, Window!Still, Window!looks
      <4> QED BY <3>1, <3>2, <4>1
    <3> QED BY <3>3, <3>4
  <2>3. CASE trayEvents # <<>> /\ Head(trayEvents) = "OpenSettings"
    <3>1. /\ trayEvents' = Tail(trayEvents) /\ click' = click
          /\ UNCHANGED lastFocusLoss /\ (windowVisible' \/ UNCHANGED windowVisible)
      BY <1>2, <2>3 DEF Window!PollTray, Window!Still, Window!looks, Window!ShowAt
    <3>2. trayEvents' \in Seq({"Toggle", "OpenSettings"})
      BY <2>3, <3>1
    <3> QED BY <3>1, <3>2
  <2> QED BY <1>2, <2>1, <2>2, <2>3 DEF Window!PollTray
<1>3. CASE Window!HandleFocusLoss
  <2>1. /\ UNCHANGED <<trayEvents, click>>
        /\ lastFocusLoss' = TRUE \/ UNCHANGED <<windowVisible, lastFocusLoss>>
    BY <1>3 DEF Window!HandleFocusLoss, Window!events
  <2> QED BY <1>1, <2>1
<1>4. CASE Window!HealDesync \/ Window!EndFrame
  <2>1. /\ UNCHANGED <<trayEvents, lastFocusLoss>>
        /\ windowVisible' = TRUE \/ UNCHANGED <<windowVisible, click>>
    BY <1>4 DEF Window!HealDesync, Window!EndFrame, Window!events, Window!looks
  <2> QED BY <1>1, <2>1
<1>5. CASE Window!PollHotkey
  <2>1. /\ UNCHANGED trayEvents
        /\ click' = "none" \/ UNCHANGED <<windowVisible, click, lastFocusLoss>>
    BY <1>5 DEF Window!PollHotkey, Window!Still, Window!looks
  <2> QED BY <1>1, <2>1
<1>6. CASE Window!PollInvoke \/ Window!HandleKeys \/ Window!Chrome
  <2>1. UNCHANGED trayEvents /\ click' = IF windowVisible' THEN click ELSE "none"
    BY <1>6 DEF Window!PollInvoke, Window!HandleKeys, Window!Chrome, Window!events
  <2> QED BY <1>1, <2>1
<1> QED
  BY <1>2, <1>3, <1>4, <1>5, <1>6 DEF Window!Frame

\* Every step of the window that hides it is not a click on the tray icon of a
\* hidden one.
LEMMA WindowNext ==
    ASSUME WindowIInv, Window!Next \/ UNCHANGED windowVars
    PROVE  WindowIInv' /\ (Window!Next => Window!HidesOnTrayClick)
<1> USE DEF WindowIInv, Window!HidesOnTrayClick, Window!TakesToggleOf
<1>1. Len(trayEvents) \in Nat
  OBVIOUS
<1>2. CASE UNCHANGED windowVars
  BY <1>1, <1>2 DEF windowVars
<1>3. CASE Window!UserActs \/ Window!TimePasses
  <2>1. /\ UNCHANGED <<trayEvents, windowVisible>>
        /\ click' # "quick" \/ UNCHANGED <<lastFocusLoss, click>>
    BY <1>3 DEF Window!UserActs, Window!TimePasses, Window!events, Window!looks
  <2> QED BY <1>1, <2>1
<1>4. CASE Window!ThreadsSend
  <2>1. /\ UNCHANGED <<windowVisible, lastFocusLoss>>
        /\ click' # "quick" \/ UNCHANGED click \/ windowVisible
        /\ \/ UNCHANGED trayEvents
           \/ \E e \in {"Toggle", "OpenSettings"} : trayEvents' = Append(trayEvents, e)
    BY <1>4 DEF Window!ThreadsSend, Window!Press, Window!Release, Window!events, Window!looks
  <2>2. trayEvents' \in Seq({"Toggle", "OpenSettings"})
    BY <2>1
  <2> QED BY <1>1, <2>1, <2>2
<1> QED
  BY <1>2, <1>3, <1>4, FrameKeepsWindowIInv DEF Window!Next

\* A click on the icon of a panel that is shown hides it, or asks for that until
\* the system has done with the window, and does not open it again, when its
\* Toggle is taken within 300 ms of the button that went down: it finds the panel
\* shown, or hidden by the focus the click took, and the mark of that still fresh
\* (poll_tray and handle_focus_loss in lifecycle.rs).
THEOREM TrayClickStaysHidden == GuiSpec => TrayClickHides
<1> DEFINE I == part = "window" => WindowIInv
           A == [part = "window" => Window!HidesOnTrayClick]_<<part, windowVars>>
<1>1. GuiInit => I
  <2>1. Window!Init => WindowIInv
    <3>1. <<>> \in Seq({"Toggle", "OpenSettings"})
      OBVIOUS
    <3> QED BY <3>1 DEF Window!Init, WindowIInv
  <2> QED BY <2>1 DEF GuiInit, WindowStart
<1>2. I /\ [GuiNext]_guiVars => I' /\ A
  <2> SUFFICES ASSUME I, [GuiNext]_guiVars PROVE I' /\ A
    OBVIOUS
  <2>1. part' = part /\ (part = "window" => Window!Next \/ UNCHANGED windowVars)
    BY DEF GuiNext, guiVars
  <2>2. I'
    BY <2>1, WindowNext
  <2>3. part = "window" => Window!HidesOnTrayClick \/ UNCHANGED <<part, windowVars>>
    BY <2>1, WindowNext
  <2> QED BY <2>2, <2>3
<1> QED
  BY <1>1, <1>2, PTL DEF GuiSpec, TrayClickHides

-----------------------------------------------------------------------------
(* The dialog of a result (ResultFlow).                                    *)

\* The command under way is the one whose parameters were kept, and an answer
\* is the answer of a command under way.
ResultIInv ==
    /\ Result!ConfirmRepeatsWhatAsked
    /\ flight # Result!None => last = flight
    /\ answer # "none" => flight # Result!None

\* Every step keeps the invariant of the results.
LEMMA ResultNext ==
    ASSUME ResultIInv, Result!Next \/ UNCHANGED resultVars
    PROVE  ResultIInv'
<1> USE DEF ResultIInv, Result!ConfirmRepeatsWhatAsked
<1>1. CASE UNCHANGED resultVars
  BY <1>1 DEF resultVars
<1>2. CASE Result!Confirm \/ Result!AnswerDialog
  <2>1. \/ UNCHANGED <<flight, answer, last>>
        \/ flight' = last' /\ answer' = "none"
    BY <1>2 DEF Result!Confirm, Result!AnswerDialog, Result!Dispatch, Result!Start,
                Result!invokeVars
  <2>2. resultDialog' = asked'
    BY <1>2 DEF Result!Confirm, Result!AnswerDialog
  <2> QED BY <2>1, <2>2
<1>3. CASE Result!PollInvoke
  BY <1>3 DEF Result!PollInvoke
<1>4. CASE Result!Answers
  BY <1>4 DEF Result!Answers, Result!shown
<1>5. CASE Result!PollHostRequests \/ Result!Background \/ Result!Window
  BY <1>5 DEF Result!PollHostRequests, Result!Background, Result!Window, Result!invokeVars
<1>6. ASSUME NEW e \in Ext,
             Result!PageTakes(e) \/ Result!PageReturns(e) \/ Result!Asks(e) \/ Result!Evict(e)
      PROVE  ResultIInv'
  BY <1>6 DEF Result!PageTakes, Result!PageReturns, Result!Asks, Result!Evict,
              Result!invokeVars, Result!shown
<1> QED
  BY <1>1, <1>2, <1>3, <1>4, <1>5, <1>6 DEF Result!Next

\* apply_action opens the dialog with the command that was started last, and
\* that is the command whose answer asks, whatever commands were refused, pages
\* fetched, clients lost or answers read since (host_actions.rs, invoke.rs).
THEOREM QuestionsStayAsked == GuiSpec => []ConfirmRepeatsWhatAsked
<1> DEFINE I == part = "result" => ResultIInv
<1>1. GuiInit => I
  BY DEF GuiInit, ResultStart, Result!Init, ResultIInv, Result!ConfirmRepeatsWhatAsked
<1>2. I /\ [GuiNext]_guiVars => I'
  <2> SUFFICES ASSUME I, [GuiNext]_guiVars PROVE I'
    OBVIOUS
  <2>1. part' = part /\ (part = "result" => Result!Next \/ UNCHANGED resultVars)
    BY DEF GuiNext, guiVars
  <2> QED BY <2>1, ResultNext
<1>3. I => ConfirmRepeatsWhatAsked
  BY DEF ConfirmRepeatsWhatAsked, ResultIInv
<1> QED
  BY <1>1, <1>2, <1>3, PTL DEF GuiSpec

-----------------------------------------------------------------------------
(* The settings (SettingsFlow).                                            *)

ScriptStep ==
    [do : {"save", "toast"}, settings : Settings!Settings, toast : Settings!Toast]

\* What the session may not lose: the fields of the file it does not know.
Unknown == IF running /\ origin = "file" /\ config \in Settings!Config
           THEN config.unknown ELSE {}

\* The settings that may be in the window, or about to be saved by a handler:
\* what the session has read and does not know is in all of them alike, and
\* the extensions have seen them unless a mark is set.
Current ==
    {s \in Settings!Settings :
        /\ origin = "file" => s.unknown = settingsSettings.unknown
        /\ ~dirty => s.engines = aggregated}

\* The strengthening of both properties: what a handler has still to save
\* agrees with the settings in the window in what extensions see and in what is
\* not known, and a .tmp is there only where it is about to be renamed.
SettingsIInv ==
    /\ config \in Settings!Config \cup {Settings!NoFile, Settings!Damaged}
    /\ backup \in Settings!Config \cup {Settings!NoFile, Settings!Damaged}
    /\ script \in Seq(ScriptStep) /\ (script # <<>> => running)
    /\ settingsSettings \in Current /\ Unknown \subseteq settingsSettings.unknown
    /\ \A i \in 1 .. Len(script) : script[i].do = "save" => script[i].settings \in Current
    /\ tmp => script # <<>> /\ script[1].do = "save" /\ ~script[1].settings.read_only

\* What a file of settings holds.
LEMMA Files ==
    /\ Settings!NoFile \notin Settings!Config /\ Settings!Damaged \notin Settings!Config
    /\ Settings!NoFile # Settings!Damaged
    /\ Settings!Defaults \in Settings!Settings
    /\ \A f \in Settings!Config \cup {Settings!Damaged} :
          Settings!ParseJson(f) \in Settings!Settings
    /\ \A f \in Settings!Config : Settings!ParseJson(f).unknown = f.unknown
    /\ \A s \in Settings!Settings :
          Settings!ToJson(s) \in Settings!Config /\ Settings!ToJson(s).unknown = s.unknown
<1> USE DEF Settings!NoFile, Settings!Damaged, Settings!Config, Settings!Settings,
            Settings!Defaults, Settings!Written, Settings!Preference
<1>1. /\ Settings!NoFile \notin Settings!Config /\ Settings!Damaged \notin Settings!Config
      /\ Settings!NoFile # Settings!Damaged /\ Settings!Defaults \in Settings!Settings
  OBVIOUS
<1>2. \A v \in Settings!Written : /\ Settings!ReadPreference(v) \in Settings!Preference
                                  /\ Settings!ReadEngines(v) \in Settings!Preference
  BY DEF Settings!ReadPreference, Settings!ReadEngines
<1>3. ASSUME NEW f \in Settings!Config
      PROVE  /\ Settings!ParseJson(f) \in Settings!Settings
             /\ Settings!ParseJson(f).unknown = f.unknown
  BY <1>1, <1>2 DEF Settings!ParseJson, Settings!SCHEMA_VERSION
<1>4. Settings!ParseJson(Settings!Damaged) \in Settings!Settings
  BY <1>1 DEF Settings!ParseJson
<1>5. ASSUME NEW s \in Settings!Settings
      PROVE  /\ Settings!ToJson(s) \in Settings!Config
             /\ Settings!ToJson(s).unknown = s.unknown
  BY DEF Settings!ToJson, Settings!SCHEMA_VERSION
<1> QED BY <1>1, <1>3, <1>4, <1>5

\* The steps of a handler: up to one change before the final, and a toast.
LEMMA Steps ==
    ASSUME NEW first \in ScriptStep, NEW final \in ScriptStep, NEW end \in ScriptStep,
           NEW more \in BOOLEAN
    PROVE  /\ <<final>> \in Seq(ScriptStep) /\ \A i \in 1 .. Len(<<final>>) : <<final>>[i] = final
           /\ LET s == (IF more THEN <<first>> ELSE <<>>) \o <<final, end>> IN
              s \in Seq(ScriptStep) /\ \A i \in 1 .. Len(s) : s[i] \in {first, final, end}
<1> DEFINE s == (IF more THEN <<first>> ELSE <<>>) \o <<final, end>>
<1> DEFINE start == IF more THEN <<first>> ELSE <<>>
           rest == <<final, end>>
<1>1. /\ start \in Seq(ScriptStep) /\ rest \in Seq(ScriptStep)
      /\ \A i \in 1 .. Len(start) : start[i] = first
      /\ \A i \in 1 .. Len(rest) : rest[i] \in {final, end}
  <2>1. CASE more
    BY <2>1
  <2>2. CASE ~more
    BY <2>2
  <2> QED BY <2>1, <2>2
<1> HIDE DEF start, rest
<1>2. s \in Seq(ScriptStep) /\ \A i \in 1 .. Len(s) : s[i] \in {first, final, end}
  BY <1>1
<1> QED BY <1>2

\* What the settings make of a file.
LEMMA Made ==
    ASSUME NEW s \in Settings!Settings, NEW t \in Settings!Toast
    PROVE  /\ Settings!Saved(s) \in ScriptStep /\ Settings!Saved(s).settings = s
           /\ Settings!Shown(t) \in ScriptStep /\ Settings!Shown(t).do # "save"
  BY Files DEF Settings!Saved, Settings!Shown, ScriptStep, Settings!Toast

\* A step of the handler is done.
LEMMA StepDone ==
    ASSUME SettingsIInv, script # <<>>
    PROVE  /\ script[1] \in ScriptStep /\ script[1].settings \in Settings!Settings
           /\ script[1].do = "save" => script[1].settings \in Current
           /\ Tail(script) \in Seq(ScriptStep)
           /\ \A i \in 1 .. Len(Tail(script)) :
                 i + 1 \in 1 .. Len(script) /\ Tail(script)[i] = script[i + 1]
<1>1. /\ script \in Seq(ScriptStep) /\ 1 \in 1 .. Len(script) /\ script[1] \in ScriptStep
      /\ Tail(script) \in Seq(ScriptStep)
      /\ \A i \in 1 .. Len(Tail(script)) :
            i + 1 \in 1 .. Len(script) /\ Tail(script)[i] = script[i + 1]
  BY DEF SettingsIInv
<1> QED BY <1>1 DEF SettingsIInv, ScriptStep

\* The settings are saved, or saving fails.
LEMMA SaveKeepsSettingsIInv ==
    ASSUME SettingsIInv,
           \/ Settings!SaveRefused \/ Settings!SaveWritesTmp \/ Settings!SaveFails
           \/ Settings!ShowToast
    PROVE  SettingsIInv'
<1> DEFINE s == script[1].settings
<1>1. /\ script # <<>>
      /\ UNCHANGED <<config, backup, running, dirty, aggregated, origin>>
      /\ \/ /\ script[1].do = "save" /\ settingsSettings' = s /\ script' = Tail(script)
            /\ s.read_only \/ ~tmp'
         \/ /\ script[1].do = "save" /\ settingsSettings' = s /\ script' = script
            /\ ~s.read_only
         \/ /\ script[1].do = "toast" /\ UNCHANGED settingsSettings /\ script' = Tail(script)
      /\ tmp' = tmp \/ script' = script \/ ~tmp'
  BY DEF Settings!SaveRefused, Settings!SaveWritesTmp, Settings!SaveFails, Settings!ShowToast,
         Settings!Step, Settings!StepDone
<1>2. /\ s \in Settings!Settings
      /\ script[1].do = "save" => s \in Current
      /\ Tail(script) \in Seq(ScriptStep)
      /\ \A i \in 1 .. Len(Tail(script)) :
            i + 1 \in 1 .. Len(script) /\ Tail(script)[i] = script[i + 1]
  BY <1>1, StepDone
<1>3. Unknown' = Unknown
  BY <1>1 DEF Unknown
<1>4. /\ settingsSettings'.unknown = settingsSettings.unknown \/ origin # "file"
      /\ settingsSettings' \in Current
  BY <1>1, <1>2 DEF SettingsIInv, Current
<1>5. Current' = Current
  BY <1>1, <1>4 DEF Current
<1>6. Unknown' \subseteq settingsSettings'.unknown
  BY <1>1, <1>3, <1>4 DEF SettingsIInv, Unknown
<1>7. \A i \in 1 .. Len(script') : script'[i].do = "save" => script'[i].settings \in Current
  BY <1>1, <1>2 DEF SettingsIInv
<1>8. tmp' => script' # <<>> /\ script'[1].do = "save" /\ ~script'[1].settings.read_only
  <2>1. CASE script' = script
    BY <1>1, <2>1 DEF SettingsIInv
  <2>2. CASE script' # script
    BY <1>1, <2>2 DEF SettingsIInv
  <2> QED BY <2>1, <2>2
<1> QED
  BY <1>1, <1>2, <1>4, <1>5, <1>6, <1>7, <1>8 DEF SettingsIInv

\* What is renamed into place has what the file had.
LEMMA RenameKeepsSettingsIInv ==
    ASSUME SettingsIInv, Settings!SaveRenames
    PROVE  SettingsIInv' /\ Settings!KeepsUnknown
<1> DEFINE s == script[1].settings
<1>1. /\ tmp /\ ~tmp' /\ script' = Tail(script)
      /\ UNCHANGED <<backup, running, settingsSettings, dirty, aggregated, origin>>
      /\ config' = Settings!ToJson(s)
  BY DEF Settings!SaveRenames, Settings!Step, Settings!StepDone
<1>2. script # <<>> /\ script[1].do = "save"
  BY <1>1 DEF SettingsIInv
<1>3. /\ s \in Settings!Settings /\ s \in Current
      /\ Tail(script) \in Seq(ScriptStep)
      /\ \A i \in 1 .. Len(Tail(script)) :
            i + 1 \in 1 .. Len(script) /\ Tail(script)[i] = script[i + 1]
  BY <1>2, StepDone
<1>4. config' \in Settings!Config /\ config'.unknown = s.unknown
  BY <1>1, <1>3, Files
<1>5. Current' = Current
  BY <1>1 DEF Current
<1>6. Unknown' \subseteq settingsSettings'.unknown /\ Settings!KeepsUnknown
  BY <1>1, <1>3, <1>4 DEF SettingsIInv, Current, Unknown, Settings!KeepsUnknown
<1>7. \A i \in 1 .. Len(script') : script'[i].do = "save" => script'[i].settings \in Current
  BY <1>1, <1>3 DEF SettingsIInv
<1> QED
  BY <1>1, <1>2, <1>3, <1>4, <1>5, <1>6, <1>7 DEF SettingsIInv

\* A handler begins: nothing is left of the one before, and no .tmp is there.
LEMMA HandlerKeepsSettingsIInv ==
    ASSUME SettingsIInv, NEW steps, Settings!Handle(steps),
           steps \in Seq(ScriptStep),
           \A i \in 1 .. Len(steps) : steps[i].do = "save" => steps[i].settings \in Current',
           settingsSettings' = settingsSettings,
           backup' \in Settings!Config \cup {Settings!NoFile, Settings!Damaged},
           origin' = origin \/ origin' = "backup",
           dirty' = dirty \/ dirty'
    PROVE  SettingsIInv'
<1>1. /\ script = <<>> /\ script' = steps /\ running
      /\ UNCHANGED <<config, tmp, running, aggregated>>
  BY DEF Settings!Handle
<1>2. settingsSettings' \in Current'
  BY <1>1 DEF SettingsIInv, Current
<1>3. Unknown' \subseteq settingsSettings'.unknown
  BY <1>1 DEF SettingsIInv, Unknown
<1> QED
  BY <1>1, <1>2, <1>3 DEF SettingsIInv

\* A preference, engines, or what starts with the system is changed.
LEMMA ChangeKeepsSettingsIInv ==
    ASSUME SettingsIInv,
           \/ \E value \in Settings!Preference :
                 Settings!ApplyPreference(value) \/ Settings!ApplyAggregated(value)
           \/ \E ok \in BOOLEAN : Settings!ApplyAutostart(ok)
    PROVE  SettingsIInv'
<1> DEFINE w == settingsSettings
<1>1. w \in Settings!Settings /\ w \in Current
  BY DEF SettingsIInv, Current
<1>2. ASSUME NEW value \in Settings!Preference, Settings!ApplyPreference(value)
      PROVE  SettingsIInv'
  <2> DEFINE s == [w EXCEPT !.theme = value]
  <2>1. s \in Settings!Settings /\ s.unknown = w.unknown /\ s.engines = w.engines
    BY <1>1 DEF Settings!Settings
  <2>2. /\ Settings!Handle(<<Settings!Saved(s)>>)
        /\ UNCHANGED <<backup, settingsSettings, dirty, origin>> /\ UNCHANGED aggregated
    BY <1>2 DEF Settings!ApplyPreference, Settings!Handle
  <2>3. s \in Current'
    BY <1>1, <2>1, <2>2 DEF Current
  <2> HIDE DEF s
  <2>4. "none" \in Settings!Toast
    BY DEF Settings!Toast
  <2>5. /\ <<Settings!Saved(s)>> \in Seq(ScriptStep)
        /\ \A i \in 1 .. Len(<<Settings!Saved(s)>>) : <<Settings!Saved(s)>>[i].settings = s
    BY <2>1, <2>4, Made, Steps
  <2> QED
    BY <2>2, <2>3, <2>5, HandlerKeepsSettingsIInv DEF SettingsIInv
<1>3. ASSUME NEW value \in Settings!Preference, Settings!ApplyAggregated(value)
      PROVE  SettingsIInv'
  <2> DEFINE s == [w EXCEPT !.engines = value]
  <2>1. s \in Settings!Settings /\ s.unknown = w.unknown
    BY <1>1 DEF Settings!Settings
  <2>2. /\ Settings!Handle(<<Settings!Saved(s)>>) /\ dirty'
        /\ UNCHANGED <<backup, settingsSettings, origin>>
    BY <1>3 DEF Settings!ApplyAggregated
  <2>3. s \in Current'
    BY <1>1, <2>1, <2>2 DEF Current
  <2> HIDE DEF s
  <2>4. "none" \in Settings!Toast
    BY DEF Settings!Toast
  <2>5. /\ <<Settings!Saved(s)>> \in Seq(ScriptStep)
        /\ \A i \in 1 .. Len(<<Settings!Saved(s)>>) : <<Settings!Saved(s)>>[i].settings = s
    BY <2>1, <2>4, Made, Steps
  <2> QED
    BY <2>2, <2>3, <2>5, HandlerKeepsSettingsIInv DEF SettingsIInv
<1>4. ASSUME NEW ok \in BOOLEAN, Settings!ApplyAutostart(ok)
      PROVE  SettingsIInv'
  <2> DEFINE s == [w EXCEPT !.autostart = ~w.autostart]
             step == IF ok THEN Settings!Saved(s) ELSE Settings!Shown("autostart failed")
  <2>1. /\ s \in Settings!Settings /\ s.unknown = w.unknown /\ s.engines = w.engines
    BY <1>1 DEF Settings!Settings
  <2>2. /\ Settings!Handle(<<step>>)
        /\ UNCHANGED <<backup, settingsSettings, dirty, origin>> /\ UNCHANGED aggregated
    BY <1>4 DEF Settings!ApplyAutostart, Settings!Handle
  <2>3. s \in Current'
    BY <1>1, <2>1, <2>2 DEF Current
  <2> HIDE DEF s
  <2>4. step \in ScriptStep /\ (step.do = "save" => step.settings \in Current')
    BY <2>1, <2>3, Made DEF Settings!Toast
  <2> HIDE DEF step
  <2>5. /\ <<step>> \in Seq(ScriptStep) /\ \A i \in 1 .. Len(<<step>>) : <<step>>[i] = step
    BY <2>4
  <2> QED
    BY <2>2, <2>4, <2>5, HandlerKeepsSettingsIInv DEF SettingsIInv
<1> QED BY <1>2, <1>3, <1>4

\* The settings are reset.
LEMMA ResetKeepsSettingsIInv ==
    ASSUME SettingsIInv, Settings!ApplyResetAppearance
    PROVE  SettingsIInv'
<1> DEFINE s == [settingsSettings EXCEPT !.theme = "default"]
           more == settingsSettings.theme # "default"
           steps == (IF more THEN <<Settings!Saved(s)>> ELSE <<>>)
                    \o <<Settings!Saved(s), Settings!Shown("reset")>>
<1>1. settingsSettings \in Settings!Settings /\ settingsSettings \in Current
  BY DEF SettingsIInv, Current
<1>2. /\ s \in Settings!Settings /\ s.unknown = settingsSettings.unknown
      /\ s.engines = settingsSettings.engines
  BY <1>1 DEF Settings!Settings, Settings!Preference
<1>3. /\ Settings!Handle(steps)
      /\ UNCHANGED <<backup, settingsSettings, dirty, origin>> /\ UNCHANGED aggregated
  BY DEF Settings!ApplyResetAppearance, Settings!Handle
<1>4. s \in Current'
  BY <1>1, <1>2, <1>3 DEF Current
<1> HIDE DEF s
<1>5. /\ Settings!Saved(s) \in ScriptStep /\ Settings!Saved(s).settings = s
      /\ Settings!Shown("reset") \in ScriptStep /\ Settings!Shown("reset").do # "save"
  BY <1>2, Made DEF Settings!Toast
<1> DEFINE save == Settings!Saved(s)
           toast == Settings!Shown("reset")
<1> HIDE DEF save, toast, more
<1>6. save \in ScriptStep /\ toast \in ScriptStep /\ more \in BOOLEAN
  BY <1>5 DEF save, toast, more
<1>7. /\ steps \in Seq(ScriptStep)
      /\ \A i \in 1 .. Len(steps) : steps[i] \in {save, toast}
  BY <1>6, Steps DEF save, toast
<1>8. \A i \in 1 .. Len(steps) : steps[i].do = "save" => steps[i].settings \in Current'
  BY <1>4, <1>5, <1>7 DEF save, toast
<1> QED
  BY <1>3, <1>7, <1>8, HandlerKeepsSettingsIInv DEF SettingsIInv

\* The settings are exported.
LEMMA ExportKeepsSettingsIInv ==
    ASSUME SettingsIInv, NEW ok \in BOOLEAN, Settings!ExportSettingsBackup(ok)
    PROVE  SettingsIInv'
<1> DEFINE step == Settings!Shown(IF ok THEN "exported" ELSE "export failed")
<1>1. settingsSettings \in Settings!Settings
  BY DEF SettingsIInv, Current
<1>2. /\ Settings!Handle(<<step>>) /\ UNCHANGED <<settingsSettings, dirty, origin>>
      /\ backup' = backup \/ backup' = Settings!ExportBackup(settingsSettings)
  BY DEF Settings!ExportSettingsBackup
<1>3. Settings!ExportBackup(settingsSettings) \in Settings!Config
  BY <1>1, Files DEF Settings!ExportBackup, Settings!Config
<1>4. step \in ScriptStep /\ step.do # "save"
  BY <1>1, Made DEF Settings!Toast
<1> HIDE DEF step
<1>5. /\ <<step>> \in Seq(ScriptStep) /\ \A i \in 1 .. Len(<<step>>) : <<step>>[i] = step
  BY <1>4
<1> QED
  BY <1>2, <1>3, <1>4, <1>5, HandlerKeepsSettingsIInv DEF SettingsIInv

\* What is imported goes back to the backup, and is marked.
LEMMA ImportKeepsSettingsIInv ==
    ASSUME SettingsIInv, Settings!ImportSettingsBackup
    PROVE  SettingsIInv'
<1>1. settingsSettings \in Settings!Settings
  BY DEF SettingsIInv, Current
<1>2. CASE backup \in {Settings!NoFile, Settings!Damaged}
  <2> DEFINE step == Settings!Shown("import failed")
  <2>1. /\ Settings!Handle(<<step>>)
        /\ UNCHANGED <<settingsSettings, dirty, origin, backup>>
    BY <1>2 DEF Settings!ImportSettingsBackup
  <2>2. step \in ScriptStep /\ step.do # "save"
    BY <1>1, Made DEF Settings!Toast
  <2> HIDE DEF step
  <2>3. <<step>> \in Seq(ScriptStep) /\ \A i \in 1 .. Len(<<step>>) : <<step>>[i] = step
    BY <2>2
  <2> QED
    BY <2>1, <2>2, <2>3, HandlerKeepsSettingsIInv DEF SettingsIInv
<1>3. CASE backup \notin {Settings!NoFile, Settings!Damaged}
  <2> DEFINE new == Settings!ImportBackup(backup, settingsSettings)
             mid == [settingsSettings EXCEPT !.theme = new.theme]
             more == settingsSettings.theme # new.theme
             steps == (IF more THEN <<Settings!Saved(mid)>> ELSE <<>>)
                      \o <<Settings!Saved(new), Settings!Shown("imported")>>
  <2>1. /\ Settings!Handle(steps)
        /\ UNCHANGED <<settingsSettings, backup>> /\ dirty' /\ origin' = "backup"
    BY <1>3 DEF Settings!ImportSettingsBackup
  <2>2. Settings!ParseJson(backup) \in Settings!Settings
    BY <1>3, Files DEF SettingsIInv
  <2>3. new \in Settings!Settings /\ mid \in Settings!Settings
    BY <1>1, <2>2 DEF Settings!ImportBackup, Settings!Settings
  <2>4. new \in Current' /\ mid \in Current'
    BY <2>1, <2>3 DEF Current
  <2> HIDE DEF new, mid, more
  <2> DEFINE first == Settings!Saved(mid)
             final == Settings!Saved(new)
             end == Settings!Shown("imported")
  <2>5. /\ first \in ScriptStep /\ first.settings = mid
        /\ final \in ScriptStep /\ final.settings = new
        /\ end \in ScriptStep /\ end.do # "save" /\ more \in BOOLEAN
    BY <2>3, Made DEF Settings!Toast, more
  <2> HIDE DEF first, final, end
  <2>6. steps \in Seq(ScriptStep) /\ \A i \in 1 .. Len(steps) : steps[i] \in {first, final, end}
    BY <2>5, Steps DEF first, final, end
  <2>7. \A i \in 1 .. Len(steps) : steps[i].do = "save" => steps[i].settings \in Current'
    BY <2>4, <2>5, <2>6
  <2> QED
    BY <2>1, <2>6, <2>7, HandlerKeepsSettingsIInv DEF SettingsIInv
<1> QED BY <1>2, <1>3

\* Outside a handler: the session begins and ends, files are replaced, the page
\* is turned and left.
LEMMA SessionKeepsSettingsIInv ==
    ASSUME SettingsIInv,
           \/ \E readable \in BOOLEAN : Settings!Start(readable)
           \/ Settings!Crash \/ Settings!TurnPage \/ Settings!Frame
           \/ \E file \in Settings!Config \cup {Settings!Damaged} :
                 Settings!OthersWrite(file) \/ Settings!CopyBackup(file)
    PROVE  SettingsIInv'
<1>1. ASSUME NEW readable \in BOOLEAN, Settings!Start(readable)
      PROVE  SettingsIInv'
  <2>1. /\ running' /\ script' = <<>> /\ ~dirty' /\ UNCHANGED <<config, tmp, backup>>
        /\ settingsSettings' = Settings!Load(readable)
        /\ aggregated' = settingsSettings'.engines
        /\ origin' = IF readable /\ config \notin {Settings!NoFile, Settings!Damaged}
                     THEN "file" ELSE "default"
        /\ ~running
    BY <1>1 DEF Settings!Start
  <2>2. settingsSettings' \in Settings!Settings
    BY <2>1, Files DEF Settings!Load, SettingsIInv
  <2>3. settingsSettings' \in Current'
    BY <2>1, <2>2 DEF Current
  <2>4. Unknown' \subseteq settingsSettings'.unknown
    BY <2>1, Files DEF Unknown, Settings!Load, SettingsIInv
  <2> QED BY <2>1, <2>3, <2>4 DEF SettingsIInv
<1>2. CASE Settings!Crash
  <2>1. /\ ~running' /\ ~tmp' /\ script' = <<>>
        /\ UNCHANGED <<config, backup, settingsSettings, dirty, aggregated, origin>>
    BY <1>2 DEF Settings!Crash
  <2>2. Current' = Current /\ Unknown' = {}
    BY <2>1 DEF Current, Unknown
  <2> QED BY <2>1, <2>2 DEF SettingsIInv
<1>3. CASE Settings!TurnPage
  <2>1. UNCHANGED <<running, tmp, script, config, backup, settingsSettings, dirty, aggregated,
                    origin>>
    BY <1>3 DEF Settings!TurnPage
  <2>2. Current' = Current /\ Unknown' = Unknown
    BY <2>1 DEF Current, Unknown
  <2> QED BY <2>1, <2>2 DEF SettingsIInv
<1>4. CASE Settings!Frame
  <2>1. /\ UNCHANGED <<running, tmp, script, config, backup, settingsSettings, origin>>
        /\ script = <<>>
        /\ \/ UNCHANGED <<dirty, aggregated>>
           \/ aggregated' = settingsSettings.engines
    BY <1>4 DEF Settings!Frame
  <2>2. settingsSettings' \in Current' /\ Unknown' = Unknown
    BY <2>1 DEF Current, Unknown, SettingsIInv
  <2> QED BY <2>1, <2>2 DEF SettingsIInv
<1>5. ASSUME NEW file \in Settings!Config \cup {Settings!Damaged},
             Settings!OthersWrite(file) \/ Settings!CopyBackup(file)
      PROVE  SettingsIInv'
  <2>1. /\ UNCHANGED <<running, tmp, script, settingsSettings, dirty, aggregated, origin>>
        /\ \/ config' = file /\ backup' = backup /\ ~running
           \/ config' = config /\ backup' = file
    BY <1>5 DEF Settings!OthersWrite, Settings!CopyBackup, Settings!session
  <2>2. Current' = Current /\ (Unknown' = Unknown \/ Unknown' = {})
    BY <2>1 DEF Current, Unknown
  <2> QED BY <2>1, <2>2 DEF SettingsIInv
<1> QED BY <1>1, <1>2, <1>3, <1>4, <1>5

\* Every step keeps the invariant of the settings.
LEMMA SettingsNext ==
    ASSUME SettingsIInv, Settings!Next \/ UNCHANGED settingsVars
    PROVE  SettingsIInv'
<1>1. CASE UNCHANGED settingsVars
  <2>1. Current' = Current /\ Unknown' = Unknown
    BY <1>1 DEF settingsVars, Current, Unknown
  <2> QED BY <1>1, <2>1 DEF settingsVars, SettingsIInv
<1>2. /\ [schema |-> 2, theme |-> "odd", engines |-> "odd", autostart |-> FALSE,
          unknown |-> {"newer"}] \in Settings!Config
      /\ \A n \in {1, 2} : [schema |-> n, theme |-> "other", engines |-> "other",
                             autostart |-> FALSE, unknown |-> {}] \in Settings!Config
  BY DEF Settings!Config, Settings!Written, Settings!Preference
<1>3. CASE Settings!Next
  BY <1>2, <1>3, SaveKeepsSettingsIInv, RenameKeepsSettingsIInv, ChangeKeepsSettingsIInv,
     ResetKeepsSettingsIInv, ExportKeepsSettingsIInv, ImportKeepsSettingsIInv,
     SessionKeepsSettingsIInv
  DEF Settings!Next
<1> QED BY <1>1, <1>3

\* The invariant of the settings holds when the program starts.
LEMMA SettingsInit == Settings!Init => SettingsIInv
<1> SUFFICES ASSUME Settings!Init PROVE SettingsIInv
  OBVIOUS
<1>1. settingsSettings \in Current
  BY Files DEF Settings!Init, Current, Settings!Defaults
<1>2. Unknown = {}
  BY DEF Settings!Init, Unknown
<1> QED BY <1>1, <1>2 DEF Settings!Init, SettingsIInv

\* However settings are changed, saved, reset or imported, a save writes what
\* this version does not know as it read it: no sequence of saves, failures and
\* crashes loses a field of the file, for any number of sessions (settings.rs).
THEOREM UnknownStays == GuiSpec => UnknownSurvives
<1> DEFINE I == part = "settings" => SettingsIInv
<1>1. GuiInit => I
  BY SettingsInit DEF GuiInit, SettingsStart
<1>2. I /\ [GuiNext]_guiVars =>
         I' /\ [part = "settings" => Settings!KeepsUnknown]_<<part, settingsVars>>
  <2> SUFFICES ASSUME I, [GuiNext]_guiVars
               PROVE  I' /\ [part = "settings" => Settings!KeepsUnknown]_<<part, settingsVars>>
    OBVIOUS
  <2>1. part' = part /\ (part = "settings" => Settings!Next \/ UNCHANGED settingsVars)
    BY DEF GuiNext, guiVars
  <2>2. ASSUME SettingsIInv, Settings!Next PROVE Settings!KeepsUnknown
    <3>1. CASE Settings!SaveRenames
      BY <2>2, <3>1, RenameKeepsSettingsIInv
    <3>2. CASE ~Settings!SaveRenames
      <4>1. ~running \/ config' = config
        BY <2>2, <3>2 DEF Settings!Next, Settings!Start, Settings!Crash, Settings!OthersWrite,
           Settings!SaveRefused, Settings!SaveWritesTmp, Settings!SaveFails,
           Settings!ShowToast, Settings!ApplyPreference, Settings!ApplyAggregated,
           Settings!ApplyAutostart, Settings!ApplyResetAppearance,
           Settings!ExportSettingsBackup, Settings!CopyBackup,
           Settings!ImportSettingsBackup, Settings!TurnPage, Settings!Frame,
           Settings!Handle, Settings!session
      <4> QED BY <4>1 DEF Settings!KeepsUnknown
    <3> QED BY <3>1, <3>2
  <2>3. I'
    BY <2>1, SettingsNext
  <2>4. part = "settings" => Settings!KeepsUnknown \/ UNCHANGED <<part, settingsVars>>
    BY <2>1, <2>2
  <2> QED BY <2>3, <2>4
<1> QED
  BY <1>1, <1>2, PTL DEF GuiSpec, UnknownSurvives

-----------------------------------------------------------------------------
(* The material of the window (Material).                                  *)

\* A material that the compositor shows without glass before it is still being
\* counted down, and a system without materials never shows one.
MaterialIInv ==
    /\ active \in BOOLEAN /\ supported \in BOOLEAN /\ countdown \in Nat
    /\ active => supported
    /\ ~supported => dwm = "none"
    /\ Material!MaterialGoesAway

\* What refresh_backdrop leaves is as good, for the end of the frame to count.
LEMMA Refreshed ==
    ASSUME MaterialIInv, NEW backing, NEW picture
    PROVE  LET after == Material!RefreshBackdrop(backing, picture) IN
           /\ after.active \in BOOLEAN /\ after.countdown \in Nat
           /\ after.active => supported
           /\ ~supported => after.dwm = "none"
           /\ ~after.active /\ after.countdown = 0 => after.dwm = "none"
<1> DEFINE wanted == Material!Effective(backing, picture)
<1>1. Countdown \in Nat \ {0}
  BY GuiAssumption
<1>2. CASE wanted = "none"
  BY <1>1, <1>2 DEF Material!RefreshBackdrop, MaterialIInv, Material!MaterialGoesAway
<1>3. CASE wanted # "none"
  BY <1>3 DEF Material!RefreshBackdrop, MaterialIInv, Material!MaterialGoesAway
<1> QED BY <1>2, <1>3

\* A frame ends with what was changed in it in effect.
LEMMA FrameEnds ==
    ASSUME NEW after, UNCHANGED supported, supported \in BOOLEAN,
           after.active \in BOOLEAN, after.countdown \in Nat,
           after.active => supported,
           ~supported => after.dwm = "none",
           ~after.active /\ after.countdown = 0 => after.dwm = "none",
           Material!EndOfFrame(after)
    PROVE  MaterialIInv'
  BY DEF Material!EndOfFrame, MaterialIInv, Material!MaterialGoesAway

\* Every step keeps what the windows were told.
LEMMA MaterialNext ==
    ASSUME MaterialIInv, Material!Next \/ UNCHANGED materialVars
    PROVE  MaterialIInv'
<1>1. CASE UNCHANGED materialVars \/ Material!SystemTheme
  BY <1>1 DEF materialVars, Material!SystemTheme, MaterialIInv, Material!MaterialGoesAway
<1>2. CASE Material!Frame \/ \E t \in Material!Theme \cup {"system"} : Material!ApplyThemePref(t)
  <2>1. PICK line : /\ Material!EndOfFrame([Material!Unchanged EXCEPT !.border = line])
                    /\ UNCHANGED supported
    <3>1. CASE Material!Frame
      <4>1. Material!Unchanged = [Material!Unchanged EXCEPT !.border = border]
        BY DEF Material!Unchanged
      <4> QED BY <3>1, <4>1 DEF Material!Frame
    <3>2. CASE \E t \in Material!Theme \cup {"system"} : Material!ApplyThemePref(t)
      BY <3>2 DEF Material!ApplyThemePref, Material!Changing
    <3> QED BY <1>2, <3>1, <3>2
  <2> DEFINE after == [Material!Unchanged EXCEPT !.border = line]
  <2>2. after.active = active /\ after.countdown = countdown /\ after.dwm = dwm
    BY DEF Material!Unchanged
  <2> HIDE DEF after
  <2> QED BY <2>1, <2>2, FrameEnds DEF MaterialIInv, Material!MaterialGoesAway, after
<1>3. CASE \/ Material!FirstFrame \/ Material!ApplyBackgroundPath
           \/ \E k \in Material!Kind : Material!ApplyBackdrop(k)
  <2>1. PICK backing, picture :
            Material!EndOfFrame(Material!RefreshBackdrop(backing, picture)) /\ UNCHANGED supported
    BY <1>3 DEF Material!FirstFrame, Material!ApplyBackgroundPath, Material!ApplyBackdrop,
                Material!Changing
  <2> QED BY <2>1, Refreshed, FrameEnds DEF MaterialIInv
<1>4. CASE Material!ApplyResetAppearance
  <2> DEFINE there == Material!RefreshBackdrop("mica", FALSE)
             after == [there EXCEPT !.border = IF supported THEN system ELSE @]
  <2>1. Material!EndOfFrame(after) /\ UNCHANGED supported
    BY <1>4 DEF Material!ApplyResetAppearance, Material!Changing
  <2>2. /\ after.active = there.active /\ after.countdown = there.countdown
        /\ after.dwm = there.dwm
    BY DEF Material!RefreshBackdrop
  <2> HIDE DEF after
  <2> QED BY <2>1, <2>2, Refreshed, FrameEnds DEF MaterialIInv
<1> QED
  BY <1>1, <1>2, <1>3, <1>4 DEF Material!Next

\* Once the settings page is left, the extensions were aggregated with the
\* settings as they are; and the compositor shows no material behind a panel
\* that has been solid for the frames that are counted, whatever the user and
\* the system change meanwhile (mod.rs, settings_actions.rs).
THEOREM ChangesTakeEffect == GuiSpec => []SettingsTakeEffect
<1> DEFINE I == /\ part = "settings" => SettingsIInv
                /\ part = "material" => MaterialIInv
<1>1. GuiInit => I
  <2>1. ASSUME Material!Init PROVE MaterialIInv
    <3>1. countdown = 0 /\ countdown \in Nat
      BY <2>1 DEF Material!Init
    <3>2. dwm = "none" /\ active = FALSE /\ supported \in BOOLEAN
      BY <2>1 DEF Material!Init
    <3>3. active \in BOOLEAN /\ ~active
      BY <3>2
    <3> QED BY <3>1, <3>2, <3>3 DEF MaterialIInv, Material!MaterialGoesAway
  <2>2. GuiInit => /\ part = "settings" => Settings!Init
                   /\ part = "material" => Material!Init
    BY DEF GuiInit, SettingsStart, MaterialStart
  <2> QED BY <2>1, <2>2, SettingsInit
<1>2. I /\ [GuiNext]_guiVars => I'
  <2> SUFFICES ASSUME I, [GuiNext]_guiVars PROVE I'
    OBVIOUS
  <2>1. /\ part' = part
        /\ part = "settings" => Settings!Next \/ UNCHANGED settingsVars
        /\ part = "material" => Material!Next \/ UNCHANGED materialVars
    BY DEF GuiNext, guiVars
  <2> QED BY <2>1, SettingsNext, MaterialNext
<1>3. I => SettingsTakeEffect
  BY DEF SettingsTakeEffect, SettingsIInv, Current, Settings!AppliedOnLeaving, MaterialIInv
<1> QED
  BY <1>1, <1>2, <1>3, PTL DEF GuiSpec

-----------------------------------------------------------------------------
(* What is computed step by step.                                           *)

\* A set of numbers that is not empty has a least one.
LEMMA LeastNat ==
    ASSUME NEW T, T \subseteq Nat, T # {}
    PROVE  \E m \in T : \A n \in T : m <= n
<1> DEFINE R == OpToRel(<, Nat)
<1>1. IsWellFoundedOn(R, Nat)
  BY NatLessThanWellFounded
<1>2. \A m, n \in Nat : n < m => <<n, m>> \in R
  BY DEF OpToRel
<1> HIDE DEF R
<1>3. PICK m \in T : \A n \in T : ~(<<n, m>> \in R)
  BY <1>1, WFMin
<1>4. \A n \in T : ~(n < m)
  BY <1>2, <1>3
<1>5. m \in Nat /\ \A n \in T : n \in Nat
  OBVIOUS
<1> QED
  BY <1>4, <1>5

\* Induction: a set with 0 and every successor has all numbers.
LEMMA NatInd ==
    ASSUME NEW T, 0 \in T, \A n \in Nat : n \in T => n + 1 \in T
    PROVE  Nat \subseteq T
<1> SUFFICES ASSUME Nat \ T # {} PROVE FALSE
  OBVIOUS
<1>1. PICK m \in Nat \ T : \A n \in Nat \ T : m <= n
  BY LeastNat
<1>2. m # 0 /\ m - 1 \in Nat /\ m - 1 \notin Nat \ T
  BY <1>1
<1> QED BY <1>1, <1>2

\* f is computed step by step, up to end.
RunsBy(f, start, step1, end) ==
    f = [i \in 0 .. end |-> IF i = 0 THEN start ELSE step1[<<f[i - 1], i>>]]

\* What is computed element by element exists, and stays in the set the steps
\* stay in.
LEMMA Recursion ==
    ASSUME NEW D, NEW start \in D, NEW step1 \in [D \X Nat -> D], NEW end \in Nat
    PROVE  \E f \in [0 .. end -> D] : RunsBy(f, start, step1, end)
<1> DEFINE Runs(f, n) ==
             f = [i \in 0 .. n |-> IF i = 0 THEN start ELSE step1[<<f[i - 1], i>>]]
           T == {n \in Nat : \E f \in [0 .. n -> D] : Runs(f, n)}
<1>1. 0 \in T
  <2> DEFINE f == [i \in 0 .. 0 |-> start]
  <2>1. f \in [0 .. 0 -> D] /\ Runs(f, 0)
    OBVIOUS
  <2> QED BY <2>1
<1>2. ASSUME NEW n \in Nat, n \in T PROVE n + 1 \in T
  <2>1. PICK f \in [0 .. n -> D] : Runs(f, n)
    BY <1>2
  <2> DEFINE h == [i \in 0 .. n + 1 |-> IF i \in 0 .. n THEN f[i] ELSE step1[<<f[n], n + 1>>]]
  <2>2. h \in [0 .. n + 1 -> D]
    <3>1. f[n] \in D /\ <<f[n], n + 1>> \in D \X Nat
      OBVIOUS
    <3> QED BY <3>1
  <2>3. \A i \in 0 .. n + 1 : h[i] = IF i = 0 THEN start ELSE step1[<<h[i - 1], i>>]
    <3> SUFFICES ASSUME NEW i \in 0 .. n + 1
                 PROVE  h[i] = IF i = 0 THEN start ELSE step1[<<h[i - 1], i>>]
      OBVIOUS
    <3>1. CASE i \in 0 .. n
      <4>1. h[i] = f[i] /\ (i # 0 => h[i - 1] = f[i - 1])
        BY <3>1
      <4>2. f[i] = IF i = 0 THEN start ELSE step1[<<f[i - 1], i>>]
        BY <2>1, <3>1
      <4> HIDE DEF h
      <4> QED BY <4>1, <4>2
    <3>2. CASE i = n + 1
      <4>1. i # 0 /\ i - 1 = n /\ h[i - 1] = f[n] /\ h[i] = step1[<<f[n], i>>]
        BY <3>2
      <4> HIDE DEF h
      <4> QED BY <4>1
    <3> QED BY <3>1, <3>2
  <2> HIDE DEF h
  <2>4. Runs(h, n + 1)
    BY <2>2, <2>3
  <2> HIDE DEF Runs
  <2>5. \E f0 \in [0 .. n + 1 -> D] : Runs(f0, n + 1)
    BY <2>2, <2>4
  <2> QED BY <2>5
<1> HIDE DEF T
<1>3. end \in T
  BY <1>1, <1>2, NatInd
<1> QED
  BY <1>3 DEF T, RunsBy

-----------------------------------------------------------------------------
(* The log (LogFiles), for every number of files kept and every size.       *)

Names == [Log!Slot -> Log!File \cup {Log!None}]

\* What ToSet says of the lines of a file.
LEMMA Lines == \A s : Log!ToSet(s) = {s[j] : j \in DOMAIN s}
  BY DEF Log!ToSet

\* One more line.
LEMMA OneMore ==
    ASSUME NEW s \in Seq(1 .. MaxLines), NEW k \in 1 .. MaxLines
    PROVE  /\ Append(s, k) \in Seq(1 .. MaxLines) /\ Len(Append(s, k)) = Len(s) + 1
           /\ Log!ToSet(Append(s, k)) = Log!ToSet(s) \cup {k}
<1> DEFINE more == Append(s, k)
<1>1. /\ more \in Seq(1 .. MaxLines) /\ Len(more) = Len(s) + 1 /\ DOMAIN more = 1 .. Len(s) + 1
      /\ DOMAIN s = 1 .. Len(s) /\ Len(s) \in Nat
      /\ \A j \in 1 .. Len(s) : more[j] = s[j]
      /\ more[Len(s) + 1] = k
  OBVIOUS
<1> HIDE DEF more
<1>2. Log!ToSet(more) = Log!ToSet(s) \cup {k}
  <2>1. \A j \in 1 .. Len(s) + 1 : j \in 1 .. Len(s) \/ j = Len(s) + 1
    BY <1>1
  <2>2. \A j \in 1 .. Len(s) : j \in 1 .. Len(s) + 1
    BY <1>1
  <2>3. Len(s) + 1 \in 1 .. Len(s) + 1
    BY <1>1
  <2> QED BY <1>1, <2>1, <2>2, <2>3, Lines
<1> QED BY <1>1, <1>2 DEF more

\* A rung of the rotation invents no file; dd-run.log is touched by the last
\* one only, which leaves it under one of two names.  With no file held, the
\* rung is the rename it is meant to be.
LEMMA ShiftOk ==
    ASSUME NEW names \in Names, NEW n \in 0 .. Keep - 2
    PROVE  /\ Log!Shift(names, n) \in Names
           /\ \A m \in Log!Slot : \/ Log!Shift(names, n)[m] = Log!None
                                  \/ \E k \in Log!Slot : Log!Shift(names, n)[m] = names[k]
           /\ n # 0 => Log!Shift(names, n)[0] = names[0]
           /\ n = 0 /\ names[0] # Log!None =>
                 names[0] \in {Log!Shift(names, n)[0], Log!Shift(names, n)[1]}
           /\ foreign = Log!None =>
                 Log!Shift(names, n) = [names EXCEPT ![n + 1] = names[n], ![n] = Log!None]
<1> DEFINE freed == IF names[n + 1] = foreign THEN names
                    ELSE [names EXCEPT ![n + 1] = Log!None]
           after == IF freed[n] \in {Log!None, foreign} \/ freed[n + 1] # Log!None
                    THEN freed
                    ELSE [freed EXCEPT ![n + 1] = freed[n], ![n] = Log!None]
<1>1. /\ Keep \in Nat /\ n \in Log!Slot /\ n + 1 \in Log!Slot /\ n # n + 1 /\ 0 \in Log!Slot
      /\ n \in Nat /\ (n = 0 => n + 1 = 1 /\ 1 \in Log!Slot) /\ 0 # n + 1
  BY GuiAssumption DEF Log!Slot
<1>2. Log!Shift(names, n) = after
  BY DEF Log!Shift
<1>3. freed \in Names /\ \A m \in Log!Slot : freed[m] = names[m] \/ (m = n + 1 /\ freed[m] = Log!None)
  BY <1>1 DEF Names
<1>4. foreign = Log!None => freed[n + 1] = Log!None
  BY <1>1 DEF Names
<1> HIDE DEF freed
<1>5. freed[n] = names[n] /\ freed[0] = names[0]
  BY <1>1, <1>3
<1>6. CASE freed[n] \in {Log!None, foreign} \/ freed[n + 1] # Log!None
  <2>1. after = freed
    BY <1>6
  <2>2. foreign = Log!None => freed = [names EXCEPT ![n + 1] = names[n], ![n] = Log!None]
    BY <1>1, <1>3, <1>4, <1>5, <1>6 DEF Names
  <2> HIDE DEF after
  <2> QED BY <1>1, <1>2, <1>3, <1>5, <2>1, <2>2
<1>7. CASE ~(freed[n] \in {Log!None, foreign} \/ freed[n + 1] # Log!None)
  <2>1. after = [freed EXCEPT ![n + 1] = freed[n], ![n] = Log!None]
    BY <1>7
  <2> HIDE DEF after
  <2>2. after \in Names
    BY <1>1, <1>3, <2>1 DEF Names
  <2>3. /\ after[n] = Log!None /\ after[n + 1] = names[n]
        /\ \A m \in Log!Slot : m # n /\ m # n + 1 => after[m] = names[m]
    BY <1>1, <1>3, <1>5, <2>1 DEF Names
  <2>4. foreign = Log!None => after = [names EXCEPT ![n + 1] = names[n], ![n] = Log!None]
    BY <1>1, <2>2, <2>3 DEF Names
  <2> QED BY <1>1, <1>2, <2>2, <2>3, <2>4
<1> QED BY <1>6, <1>7

\* The rungs of a rotation, one after the other.
LEMMA Rungs ==
    ASSUME NEW names \in Names
    PROVE  \E rung \in [0 .. Keep - 1 -> Names] :
              /\ rung[0] = names /\ rung[Keep - 1] = Log!Rotated(names)
              /\ \A i \in 1 .. Keep - 1 : rung[i] = Log!Shift(rung[i - 1], Keep - 1 - i)
<1> DEFINE start == names
           end == Keep - 1
           Step(p, i) == IF i \in 1 .. end THEN Log!Shift(p, Keep - 1 - i) ELSE p
           step1 == [p \in Names \X Nat |-> Step(p[1], p[2])]
           Runs(f) == f = [i \in 0 .. Keep - 1 |->
                             IF i = 0 THEN names ELSE Log!Shift(f[i - 1], Keep - 1 - i)]
<1>1. end \in Nat /\ Keep \in Nat
  BY GuiAssumption
<1>2. ASSUME NEW p \in Names, NEW i \in Nat PROVE Step(p, i) \in Names
  <2>1. CASE i \in 1 .. end
    <3>1. Keep - 1 - i \in 0 .. Keep - 2
      BY <1>1, <2>1
    <3>2. Log!Shift(p, Keep - 1 - i) \in Names
      BY <3>1, ShiftOk
    <3> QED BY <2>1, <3>2
  <2>2. CASE i \notin 1 .. end
    BY <2>2
  <2> QED BY <2>1, <2>2
<1>3. step1 \in [Names \X Nat -> Names]
  BY <1>2
<1>4. \A p \in Names, i \in Nat : step1[<<p, i>>] = Step(p, i)
  OBVIOUS
<1> HIDE DEF step1
<1>5. PICK f \in [0 .. end -> Names] : RunsBy(f, start, step1, end)
  <2>1. start \in Names
    OBVIOUS
  <2> HIDE DEF start, end
  <2> QED BY <1>1, <1>3, <2>1, Recursion
<1>6. ASSUME NEW i \in 0 .. Keep - 1, i # 0
      PROVE  f[i] = Log!Shift(f[i - 1], Keep - 1 - i)
  <2>1. i - 1 \in 0 .. end /\ i \in 0 .. end /\ i \in Nat /\ i \in 1 .. end
    BY <1>1, <1>6
  <2>2. f[i] = step1[<<f[i - 1], i>>] /\ f[i - 1] \in Names
    BY <1>5, <1>6, <2>1 DEF RunsBy
  <2> QED BY <2>1, <2>2, <1>4
<1>7. f[0] = names
  BY <1>1, <1>5 DEF RunsBy
<1>8. Runs(f)
  <2>1. f = [i \in 0 .. end |-> IF i = 0 THEN start ELSE step1[<<f[i - 1], i>>]]
    BY <1>5 DEF RunsBy
  <2> QED BY <2>1, <1>6, <1>7
<1> DEFINE rung == CHOOSE g : Runs(g)
<1>9. Runs(rung)
  BY <1>8
<1>10. Log!Rotated(names) = rung[Keep - 1]
  BY DEF Log!Rotated
<1> HIDE DEF rung
<1>11. rung[0] = names /\ \A i \in 1 .. Keep - 1 : rung[i] = Log!Shift(rung[i - 1], Keep - 1 - i)
  BY <1>1, <1>9
<1>12. ASSUME NEW k \in Nat PROVE k \in 0 .. end => rung[k] \in Names
  <2> DEFINE T == {j \in Nat : j \in 0 .. end => rung[j] \in Names}
  <2>1. 0 \in T
    BY <1>11
  <2>2. ASSUME NEW j \in Nat, j \in T PROVE j + 1 \in T
    <3> SUFFICES ASSUME j + 1 \in 0 .. end PROVE rung[j + 1] \in Names
      OBVIOUS
    <3>1. j \in 0 .. end /\ j + 1 \in 1 .. Keep - 1 /\ (j + 1) - 1 = j /\ j + 1 \in 1 .. end
      BY <1>1
    <3>2. rung[j] \in Names
      BY <2>2, <3>1
    <3>3. rung[j + 1] = Step(rung[j], j + 1)
      BY <1>11, <3>1
    <3> HIDE DEF Step
    <3> QED BY <1>2, <3>2, <3>3
  <2> HIDE DEF T
  <2>3. k \in T
    BY <2>1, <2>2, NatInd
  <2> QED BY <2>3 DEF T
<1>13. rung \in [0 .. Keep - 1 -> Names]
  <2>1. \A k \in 0 .. Keep - 1 : rung[k] \in Names
    BY <1>1, <1>12
  <2>2. rung = [k \in 0 .. Keep - 1 |-> rung[k]]
    BY <1>9
  <2> QED BY <2>1, <2>2
<1> QED BY <1>10, <1>11, <1>13

\* A rotation invents no file and leaves dd-run.log where it is or one name
\* further; with no file held every file moves one name further, and the
\* oldest goes.
LEMMA RotatedOk ==
    ASSUME NEW names \in Names
    PROVE  /\ Log!Rotated(names) \in Names
           /\ \A m \in Log!Slot : \/ Log!Rotated(names)[m] = Log!None
                                  \/ \E k \in Log!Slot : Log!Rotated(names)[m] = names[k]
           /\ names[0] # Log!None =>
                 names[0] \in {Log!Rotated(names)[0], Log!Rotated(names)[1]}
           /\ foreign = Log!None =>
                 /\ Log!Rotated(names)[0] = Log!None
                 /\ \A m \in Log!Slot \ {0} : Log!Rotated(names)[m] = names[m - 1]
<1>1. PICK rung \in [0 .. Keep - 1 -> Names] :
          /\ rung[0] = names /\ rung[Keep - 1] = Log!Rotated(names)
          /\ \A i \in 1 .. Keep - 1 : rung[i] = Log!Shift(rung[i - 1], Keep - 1 - i)
  BY Rungs
<1> DEFINE FromNames(p) == \A m \in Log!Slot : \/ p[m] = Log!None
                                               \/ \E k \in Log!Slot : p[m] = names[k]
           Moved(p, i) == \A m \in Log!Slot :
                             p[m] = IF m > Keep - 1 - i THEN names[m - 1]
                                    ELSE IF i # 0 /\ m = Keep - 1 - i THEN Log!None
                                    ELSE names[m]
           Good(i) == /\ FromNames(rung[i])
                      /\ i # Keep - 1 => rung[i][0] = names[0]
                      /\ foreign = Log!None => Moved(rung[i], i)
           T == {i \in Nat : i \in 0 .. Keep - 1 => Good(i)}
<1>2. Keep \in Nat /\ Keep - 1 \in Nat /\ Keep - 1 # 0 /\ Log!Slot = 0 .. Keep - 1
  BY GuiAssumption DEF Log!Slot
<1>3. 0 \in T
  BY <1>1, <1>2
<1>4. ASSUME NEW i \in Nat, i \in T PROVE i + 1 \in T
  <2> SUFFICES ASSUME i + 1 \in 0 .. Keep - 1 PROVE Good(i + 1)
    OBVIOUS
  <2> DEFINE n == Keep - 1 - (i + 1)
             p == rung[i]
             shifted == Log!Shift(p, n)
  <2>1. /\ i \in 0 .. Keep - 1 /\ i # Keep - 1 /\ n \in 0 .. Keep - 2 /\ p \in Names
        /\ (i + 1) - 1 = i /\ i + 1 \in 1 .. Keep - 1 /\ n + 1 = Keep - 1 - i
        /\ (i + 1 # Keep - 1 => n # 0)
    BY <1>2
  <2>2. Good(i)
    BY <1>4, <2>1
  <2>3. rung[i + 1] = shifted
    BY <1>1, <2>1
  <2>4. /\ shifted \in Names
        /\ \A m \in Log!Slot : \/ shifted[m] = Log!None
                               \/ \E k \in Log!Slot : shifted[m] = p[k]
        /\ n # 0 => shifted[0] = p[0]
        /\ foreign = Log!None => shifted = [p EXCEPT ![n + 1] = p[n], ![n] = Log!None]
    BY <2>1, ShiftOk
  <2> HIDE DEF shifted
  <2>5. FromNames(shifted)
    BY <2>2, <2>4
  <2>6. i + 1 # Keep - 1 => shifted[0] = names[0]
    BY <2>1, <2>2, <2>4
  <2>7. foreign = Log!None => Moved(shifted, i + 1)
    <3> SUFFICES ASSUME foreign = Log!None, NEW m \in Log!Slot
                 PROVE  shifted[m] = IF m > n THEN names[m - 1]
                                     ELSE IF m = n THEN Log!None ELSE names[m]
      BY <2>1
    <3>1. \A k \in Log!Slot : p[k] = IF k > n + 1 THEN names[k - 1]
                                     ELSE IF i # 0 /\ k = n + 1 THEN Log!None
                                     ELSE names[k]
      BY <2>1, <2>2
    <3>2. n \in Log!Slot /\ n + 1 \in Log!Slot /\ n \in Nat /\ m \in Nat
      BY <1>2, <2>1
    <3>3. p[n] = names[n]
      BY <3>1, <3>2
    <3> HIDE DEF n, p
    <3>4. shifted[m] = IF m = n THEN Log!None ELSE IF m = n + 1 THEN p[n] ELSE p[m]
      BY <2>1, <2>4, <3>2 DEF Names
    <3>5. CASE m > n + 1
      BY <3>1, <3>2, <3>4, <3>5
    <3>6. CASE m = n + 1
      BY <3>2, <3>3, <3>4, <3>6
    <3>7. CASE m <= n
      BY <3>1, <3>2, <3>4, <3>7
    <3> QED BY <3>2, <3>5, <3>6, <3>7
  <2> QED BY <2>1, <2>3, <2>5, <2>6, <2>7
<1>5. Good(Keep - 1) /\ Good(Keep - 2)
  <2> HIDE DEF Good
  <2>1. \A i \in Nat : i \in 0 .. Keep - 1 => Good(i)
    <3> HIDE DEF T
    <3>1. Nat \subseteq T
      BY <1>3, <1>4, NatInd
    <3> QED BY <3>1 DEF T
  <2> QED BY <1>2, <2>1
<1> DEFINE after == Log!Rotated(names)
<1>6. names[0] # Log!None => names[0] \in {after[0], after[1]}
  <2>1. /\ Keep - 2 \in 0 .. Keep - 1 /\ rung[Keep - 2] \in Names /\ Keep - 2 # Keep - 1
        /\ Keep - 1 \in 1 .. Keep - 1 /\ (Keep - 1) - 1 = Keep - 2
        /\ Keep - 1 - (Keep - 1) = 0 /\ 0 \in 0 .. Keep - 2
    BY <1>2, GuiAssumption
  <2>2. after = Log!Shift(rung[Keep - 2], 0) /\ rung[Keep - 2][0] = names[0]
    BY <1>1, <1>5, <2>1
  <2> HIDE DEF after
  <2> QED BY <2>1, <2>2, ShiftOk
<1>7. after \in Names /\ FromNames(after)
  BY <1>1, <1>2, <1>5
<1>8. foreign = Log!None =>
         after[0] = Log!None /\ \A m \in Log!Slot \ {0} : after[m] = names[m - 1]
  <2> SUFFICES ASSUME foreign = Log!None
               PROVE  after[0] = Log!None /\ \A m \in Log!Slot \ {0} : after[m] = names[m - 1]
    OBVIOUS
  <2>1. Moved(after, Keep - 1)
    BY <1>1, <1>5
  <2>2. Keep - 1 - (Keep - 1) = 0 /\ 0 \in Log!Slot /\ \A m \in Log!Slot \ {0} : m > 0
    BY <1>2
  <2> HIDE DEF after
  <2> QED BY <1>2, <2>1, <2>2
<1> HIDE DEF after, FromNames
<1> QED BY <1>6, <1>7, <1>8 DEF after, FromNames

\* What no file is without: the lines of a file have been logged, there are at
\* most as many files with lines as there are lines, and a name is given to a
\* file together with its first line.
Accounted ==
    /\ \A f \in Log!File : \A i \in Log!ToSet(lines[f]) : i \in 1 .. logged
    /\ Cardinality({f \in Log!File : lines[f] # <<>>}) <= logged
    /\ \A n \in Log!Slot : slot[n] # Log!None => slot[n] = handle \/ lines[slot[n]] # <<>>

\* The newest line is where the handle points, and that is a named file until
\* two reopenings in a row are refused.
AtHand ==
    /\ refused <= logged
    /\ logged > 0 => logged \in Log!ToSet(lines[handle])
    /\ refused = 0 => handle = slot[0]
    /\ refused = 1 => handle \in {slot[0], slot[1]}

\* With the file system doing what it is asked, each predecessor is older than
\* what it takes to fill the files before it, and what is gone is older than
\* all of them.
Orderly ==
    /\ foreign = Log!None /\ refused = 0
    /\ \A n \in Log!Slot \ {0} : slot[n] # Log!None =>
          /\ slot[n] # slot[0]
          /\ \A i \in Log!ToSet(lines[slot[n]]) :
                logged - i >= Len(lines[slot[0]]) + (n - 1) * Size
    /\ \A i \in 1 .. logged : i \in Log!Kept \/ logged - i >= (Keep - 1) * Size

LogIInv == Log!TypeOK /\ Accounted /\ AtHand /\ (calm => Orderly)

\* The types, taken apart.
LEMMA LogTypes ==
    ASSUME Log!TypeOK
    PROVE  /\ slot \in Names /\ Log!File = 1 .. MaxLines + 1 /\ Log!None = 0
           /\ Log!Slot = 0 .. Keep - 1 /\ 0 \in Log!Slot /\ 1 \in Log!Slot
           /\ Keep \in Nat /\ Keep >= 2 /\ Size \in Nat \ {0} /\ MaxLines \in Nat
           /\ logged \in 0 .. MaxLines /\ logged \in Nat /\ handle \in Log!File
           /\ handle # Log!None
           /\ \A n \in Log!Slot : slot[n] # Log!None => slot[n] \in Log!File
           /\ \A f \in Log!File : lines[f] \in Seq(1 .. MaxLines) /\ Len(lines[f]) \in Nat
<1>1. Keep \in Nat /\ Keep >= 2 /\ Size \in Nat \ {0} /\ MaxLines \in Nat
  BY GuiAssumption
<1>2. /\ slot \in Names /\ logged \in 0 .. MaxLines /\ handle \in Log!File
      /\ \A f \in Log!File : lines[f] \in Seq(1 .. MaxLines)
  BY DEF Log!TypeOK, Names
<1>3. \A f \in Log!File : Len(lines[f]) \in Nat
  BY <1>2
<1>4. Log!File = 1 .. MaxLines + 1 /\ Log!None = 0 /\ Log!Slot = 0 .. Keep - 1
  BY DEF Log!File, Log!None, Log!Slot
<1> QED BY <1>1, <1>2, <1>3, <1>4 DEF Names

\* A rotation finds a file nobody uses: there is one more than there are lines.
LEMMA UnusedOk ==
    ASSUME LogIInv, logged < MaxLines, lines[handle] # <<>>
    PROVE  /\ Log!Unused \in Log!File /\ Log!Unused # handle /\ lines[Log!Unused] = <<>>
           /\ \A n \in Log!Slot : slot[n] # Log!Unused
<1> DEFINE Full == {f \in Log!File : lines[f] # <<>>}
           end == MaxLines + 1
<1>1. /\ Log!File = 1 .. end /\ end \in Nat /\ logged \in Nat /\ MaxLines \in Nat
      /\ Cardinality(Full) <= logged
  BY LogTypes DEF LogIInv, Accounted
<1>2. IsFiniteSet(Log!File) /\ Cardinality(Log!File) = end
  <2>1. 1 \in Int /\ end \in Int
    BY <1>1
  <2> HIDE DEF end
  <2>2. IsFiniteSet(1 .. end) /\ Cardinality(1 .. end) = IF 1 > end THEN 0 ELSE end - 1 + 1
    BY <2>1, FS_Interval
  <2>3. end >= 1
    BY <1>1 DEF end
  <2> QED BY <1>1, <2>2, <2>3
<1> HIDE DEF Full
<1>3. Full # Log!File
  <2>1. end > logged
    BY <1>1
  <2> HIDE DEF end
  <2> QED BY <1>1, <1>2, <2>1
<1>4. PICK f \in Log!File : lines[f] = <<>>
  BY <1>3 DEF Full
<1>5. f # handle
  BY <1>4
<1>6. \A n \in Log!Slot : slot[n] # f
  <2>1. f # Log!None
    BY <1>1 DEF Log!None
  <2>2. \A n \in Log!Slot : slot[n] # Log!None => slot[n] = handle \/ lines[slot[n]] # <<>>
    BY DEF LogIInv, Accounted
  <2> QED BY <1>4, <1>5, <2>1, <2>2
<1>7. \E g \in Log!File : g # handle /\ lines[g] = <<>> /\ \A n \in Log!Slot : slot[n] # g
  BY <1>4, <1>5, <1>6
<1> QED BY <1>7 DEF Log!Unused

\* The opening.
LEMMA LogInit == Log!Init => LogIInv
<1> SUFFICES ASSUME Log!Init PROVE LogIInv
  OBVIOUS
<1>1. /\ Keep \in Nat /\ Keep >= 2 /\ MaxLines \in Nat
  BY GuiAssumption
<1>2. <<>> \in Seq(1 .. MaxLines) /\ \A j : j \notin DOMAIN <<>>
  OBVIOUS
<1>3. /\ slot = [n \in Log!Slot |-> IF n = 0 THEN 1 ELSE Log!None]
      /\ lines = [f \in Log!File |-> <<>>] /\ handle = 1 /\ foreign = Log!None
      /\ logged = 0 /\ refused = 0 /\ calm = TRUE
  BY DEF Log!Init
<1>4. calm \in BOOLEAN
  BY <1>3
<1>5. 1 \in Log!File /\ 0 \in Log!Slot /\ logged \in 0 .. MaxLines /\ refused \in 0 .. MaxLines
  BY <1>1, <1>3 DEF Log!File, Log!Slot
<1>6. Log!TypeOK
  BY <1>2, <1>3, <1>4, <1>5 DEF Log!TypeOK
<1>7. Accounted
  <2>1. {f \in Log!File : lines[f] # <<>>} = {}
    BY <1>3
  <2>2. Cardinality({f \in Log!File : lines[f] # <<>>}) = 0
    BY <2>1, FS_EmptySet
  <2>3. \A f \in Log!File : Log!ToSet(lines[f]) = {}
    BY <1>2, <1>3, Lines
  <2>4. \A n \in Log!Slot : slot[n] # Log!None => slot[n] = handle
    BY <1>3
  <2> QED BY <1>3, <2>2, <2>3, <2>4 DEF Accounted
<1>8. AtHand
  <2>1. slot[0] = 1 /\ ~(logged > 0) /\ refused # 1 /\ refused <= logged
    BY <1>3, <1>5
  <2> QED BY <1>3, <2>1 DEF AtHand
<1>9. Orderly
  <2>1. \A n \in Log!Slot \ {0} : slot[n] = Log!None
    BY <1>3
  <2>2. \A i \in 1 .. logged : FALSE
    BY <1>3
  <2> QED BY <1>3, <2>1, <2>2 DEF Orderly
<1> QED BY <1>6, <1>7, <1>8, <1>9 DEF LogIInv

\* A line more in some file: the counts, and where the newest line is.
LEMMA AppendOk ==
    ASSUME LogIInv, logged < MaxLines, NEW f \in Log!File, Log!Append1(f)
    PROVE  /\ logged' = logged + 1 /\ logged' \in Nat /\ logged' \in 0 .. MaxLines /\ handle' = f
           /\ DOMAIN lines' = Log!File
           /\ \A g \in Log!File : lines'[g] \in Seq(1 .. MaxLines)
           /\ Log!ToSet(lines'[f]) = Log!ToSet(lines[f]) \cup {logged'}
           /\ Len(lines'[f]) = Len(lines[f]) + 1 /\ lines'[f] # <<>>
           /\ \A g \in Log!File : g # f => lines'[g] = lines[g]
           /\ \A g \in Log!File : \A i \in Log!ToSet(lines'[g]) : i \in 1 .. logged'
           /\ Cardinality({g \in Log!File : lines'[g] # <<>>}) <= logged'
<1>1. /\ lines[f] \in Seq(1 .. MaxLines) /\ Len(lines[f]) \in Nat /\ logged \in Nat
      /\ logged \in 0 .. MaxLines /\ Log!File = 1 .. MaxLines + 1 /\ MaxLines \in Nat
      /\ DOMAIN lines = Log!File /\ \A g \in Log!File : lines[g] \in Seq(1 .. MaxLines)
  BY LogTypes DEF LogIInv, Log!TypeOK
<1>2. /\ logged' = logged + 1 /\ handle' = f
      /\ lines' = [lines EXCEPT ![f] = Append(@, logged + 1)]
  BY DEF Log!Append1
<1> DEFINE next == logged + 1
           more == Append(lines[f], next)
           Full == {g \in Log!File : lines[g] # <<>>}
           all == {g \in Log!File : lines'[g] # <<>>}
<1>3. next \in 1 .. MaxLines /\ next \in Nat /\ next \in 0 .. MaxLines
  BY <1>1
<1>4. /\ DOMAIN lines' = Log!File /\ lines'[f] = more
      /\ \A g \in Log!File : g # f => lines'[g] = lines[g]
  BY <1>1, <1>2
<1> HIDE DEF next
<1>5. /\ more \in Seq(1 .. MaxLines) /\ Len(more) = Len(lines[f]) + 1
      /\ Log!ToSet(more) = Log!ToSet(lines[f]) \cup {next}
  <2> DEFINE s == lines[f]
  <2>1. s \in Seq(1 .. MaxLines)
    BY <1>1
  <2> HIDE DEF s
  <2>2. /\ Append(s, next) \in Seq(1 .. MaxLines) /\ Len(Append(s, next)) = Len(s) + 1
        /\ Log!ToSet(Append(s, next)) = Log!ToSet(s) \cup {next}
    BY <1>3, <2>1, OneMore
  <2> QED BY <2>2 DEF s
<1> HIDE DEF more
<1>6. more # <<>>
  BY <1>1, <1>5
<1>7. \A g \in Log!File : \A i \in Log!ToSet(lines'[g]) : i \in 1 .. next
  <2>1. \A g \in Log!File : \A i \in Log!ToSet(lines[g]) : i \in 1 .. logged
    BY DEF LogIInv, Accounted
  <2>2. \A i \in 1 .. logged : i \in 1 .. next
    BY <1>1 DEF next
  <2>3. next \in 1 .. next
    BY <1>3
  <2> QED BY <1>4, <1>5, <2>1, <2>2, <2>3
<1>8. Cardinality(all) <= next
  <2>1. Cardinality(Full) <= logged
    BY DEF LogIInv, Accounted
  <2>2. IsFiniteSet(Log!File)
    BY <1>1, FS_Interval
  <2>3. IsFiniteSet(Full)
    BY <2>2, FS_Subset
  <2>4. /\ Cardinality(Full) \in Nat /\ IsFiniteSet(Full \cup {f})
        /\ Cardinality(Full \cup {f}) = IF f \in Full THEN Cardinality(Full)
                                        ELSE Cardinality(Full) + 1
    BY <2>3, FS_AddElement, FS_CardinalityType
  <2>5. all = Full \cup {f}
    BY <1>4, <1>6
  <2> HIDE DEF all, Full
  <2> QED BY <1>1, <2>1, <2>4, <2>5 DEF next
<1> HIDE DEF all
<1> QED BY <1>1, <1>2, <1>3, <1>4, <1>5, <1>6, <1>7, <1>8 DEF next, all

\* A line for a file that is large enough: nothing moves.
LEMMA PlainOk ==
    ASSUME LogIInv, logged < MaxLines, Log!Append1(handle), UNCHANGED <<slot, refused, calm, foreign>>
    PROVE  LogIInv'
<1>1. /\ slot \in Names /\ 0 \in Log!Slot /\ Log!Slot = 0 .. Keep - 1 /\ Keep \in Nat
      /\ handle \in Log!File /\ logged \in Nat /\ Size \in Nat \ {0} /\ handle # Log!None
      /\ \A n \in Log!Slot : slot[n] # Log!None => slot[n] \in Log!File
      /\ \A f \in Log!File : Len(lines[f]) \in Nat
  BY LogTypes DEF LogIInv
<1>2. /\ logged' = logged + 1 /\ logged' \in 0 .. MaxLines /\ handle' = handle
      /\ DOMAIN lines' = Log!File
      /\ \A g \in Log!File : lines'[g] \in Seq(1 .. MaxLines)
      /\ Log!ToSet(lines'[handle]) = Log!ToSet(lines[handle]) \cup {logged'}
      /\ Len(lines'[handle]) = Len(lines[handle]) + 1 /\ lines'[handle] # <<>>
      /\ \A g \in Log!File : g # handle => lines'[g] = lines[g]
      /\ \A g \in Log!File : \A i \in Log!ToSet(lines'[g]) : i \in 1 .. logged'
      /\ Cardinality({g \in Log!File : lines'[g] # <<>>}) <= logged'
  BY <1>1, AppendOk
<1>3. slot' = slot /\ refused' = refused /\ calm' = calm /\ foreign' = foreign
  OBVIOUS
<1>4. Log!TypeOK'
  BY <1>1, <1>2, <1>3 DEF Log!TypeOK, LogIInv
<1>5. Accounted'
  <2>1. \A n \in Log!Slot : slot[n] # Log!None => slot[n] = handle \/ lines'[slot[n]] # <<>>
    BY <1>1, <1>2 DEF LogIInv, Accounted
  <2> QED BY <1>2, <1>3, <2>1 DEF Accounted
<1>6. AtHand'
  <2>1. refused \in Nat
    BY DEF LogIInv, Log!TypeOK
  <2> QED BY <1>1, <1>2, <1>3, <2>1 DEF LogIInv, AtHand
<1>7. ASSUME calm PROVE Orderly'
  <2>1. Orderly /\ handle = slot[0]
    BY <1>7 DEF LogIInv, AtHand, Orderly
  <2>2. ASSUME NEW n \in Log!Slot \ {0}, slot[n] # Log!None
        PROVE  /\ slot[n] # slot[0]
               /\ \A i \in Log!ToSet(lines'[slot[n]]) :
                     logged' - i >= Len(lines'[slot[0]]) + (n - 1) * Size
    <3>1. slot[n] # handle /\ lines'[slot[n]] = lines[slot[n]]
      BY <1>1, <1>2, <2>1, <2>2 DEF Orderly
    <3> DEFINE rest == (n - 1) * Size
    <3>2. \A i \in Log!ToSet(lines[slot[n]]) : logged - i >= Len(lines[handle]) + rest
      BY <2>1, <2>2 DEF Orderly
    <3>3. rest \in Nat
      BY <1>1
    <3>4. \A i \in Log!ToSet(lines[slot[n]]) : i \in Nat
      BY <1>1, <2>2 DEF LogIInv, Accounted
    <3> HIDE DEF rest
    <3>5. \A i \in Log!ToSet(lines'[slot[n]]) : logged' - i >= Len(lines'[handle]) + rest
      BY <1>1, <1>2, <3>1, <3>2, <3>3, <3>4
    <3> QED BY <2>1, <3>1, <3>5 DEF rest
  <2>3. ASSUME NEW i \in 1 .. logged'
        PROVE  i \in (Log!Kept)' \/ logged' - i >= (Keep - 1) * Size
    <3>1. CASE i = logged'
      <4>1. slot'[0] # Log!None /\ i \in Log!ToSet(lines'[slot'[0]])
        BY <1>1, <1>2, <1>3, <2>1, <3>1
      <4> QED BY <1>1, <2>3, <4>1 DEF Log!Kept
    <3>2. CASE i \in 1 .. logged /\ i \in Log!Kept
      <4>1. PICK n \in Log!Slot : slot[n] # Log!None /\ i \in Log!ToSet(lines[slot[n]])
        BY <3>2 DEF Log!Kept
      <4>2. slot[n] \in Log!File /\ i \in Log!ToSet(lines'[slot[n]])
        BY <1>1, <1>2, <4>1
      <4> QED BY <1>3, <2>3, <4>1, <4>2 DEF Log!Kept
    <3>3. CASE i \in 1 .. logged /\ logged - i >= (Keep - 1) * Size
      <4> DEFINE all == (Keep - 1) * Size
      <4>1. all \in Int
        BY <1>1
      <4>2. logged - i >= all
        BY <3>3
      <4> HIDE DEF all
      <4>3. logged' - i >= all
        BY <1>1, <1>2, <2>3, <4>1, <4>2
      <4> QED BY <4>3 DEF all
    <3>4. i \in 1 .. logged \/ i = logged'
      BY <1>1, <1>2
    <3> QED BY <2>1, <3>1, <3>2, <3>3, <3>4 DEF Orderly
  <2> QED BY <1>3, <2>1, <2>2, <2>3 DEF Orderly
<1> QED BY <1>3, <1>4, <1>5, <1>6, <1>7 DEF LogIInv

\* A line for a file that is full, after a rotation that found a foreign hand
\* on a file, or whose reopening was refused.
LEMMA RotateOk ==
    ASSUME LogIInv, logged < MaxLines, ~(Len(lines[handle]) < Size),
           NEW f \in Log!File, Log!Append1(f), NEW names, names = Log!Rotated(slot),
           foreign' = foreign, calm' \in BOOLEAN,
           \/ /\ names[0] = Log!None /\ f = Log!Unused
              /\ slot' = [names EXCEPT ![0] = f] /\ refused' = 0
           \/ names[0] = f /\ slot' = names /\ refused' = 0
           \/ f = handle /\ slot' = names /\ refused' = refused + 1
    PROVE  Log!TypeOK' /\ Accounted' /\ AtHand'
<1>1. /\ slot \in Names /\ 0 \in Log!Slot /\ 1 \in Log!Slot /\ Keep \in Nat
      /\ handle \in Log!File /\ logged \in Nat /\ Size \in Nat \ {0} /\ handle # Log!None
      /\ \A n \in Log!Slot : slot[n] # Log!None => slot[n] \in Log!File
      /\ \A g \in Log!File : lines[g] \in Seq(1 .. MaxLines) /\ Len(lines[g]) \in Nat
      /\ MaxLines \in Nat /\ Log!File = 1 .. MaxLines + 1 /\ Log!None = 0
  BY LogTypes DEF LogIInv
<1>2. /\ logged' = logged + 1 /\ logged' \in 0 .. MaxLines /\ handle' = f
      /\ DOMAIN lines' = Log!File
      /\ \A g \in Log!File : lines'[g] \in Seq(1 .. MaxLines)
      /\ Log!ToSet(lines'[f]) = Log!ToSet(lines[f]) \cup {logged'}
      /\ lines'[f] # <<>>
      /\ \A g \in Log!File : g # f => lines'[g] = lines[g]
      /\ \A g \in Log!File : \A i \in Log!ToSet(lines'[g]) : i \in 1 .. logged'
      /\ Cardinality({g \in Log!File : lines'[g] # <<>>}) <= logged'
  BY AppendOk
<1>3. /\ names \in Names
      /\ \A m \in Log!Slot : names[m] = Log!None \/ \E k \in Log!Slot : names[m] = slot[k]
      /\ slot[0] # Log!None => slot[0] \in {names[0], names[1]}
  BY <1>1, RotatedOk
<1>4. lines[handle] # <<>>
  BY <1>1
<1>5. \A k \in Log!Slot : slot[k] # Log!None => lines[slot[k]] # <<>>
  BY <1>4 DEF LogIInv, Accounted
<1>6. \A m \in Log!Slot : names[m] # Log!None => names[m] \in Log!File /\ lines'[names[m]] # <<>>
  BY <1>1, <1>2, <1>3, <1>5
<1>7. refused \in Nat /\ refused <= logged /\ foreign \in Log!File \cup {Log!None}
  BY DEF LogIInv, AtHand, Log!TypeOK
<1>8. refused' \in 0 .. MaxLines /\ refused' <= logged' /\ refused' \in Nat
  <2>1. refused' = 0 \/ refused' = refused + 1
    OBVIOUS
  <2> DEFINE more == refused + 1
  <2>2. more \in 0 .. MaxLines /\ more <= logged + 1 /\ more \in Nat
    BY <1>1, <1>7
  <2>3. 0 \in 0 .. MaxLines /\ 0 <= logged + 1
    BY <1>1
  <2>4. refused' = 0 \/ refused' = more
    BY <2>1
  <2> HIDE DEF more
  <2> QED BY <1>2, <2>2, <2>3, <2>4
<1>9. slot' \in Names /\ \A m \in Log!Slot : slot'[m] = names[m] \/ slot'[m] = f
  <2>1. slot' = names \/ slot' = [names EXCEPT ![0] = f]
    OBVIOUS
  <2> DEFINE put == [names EXCEPT ![0] = f]
  <2>2. put \in Names /\ \A m \in Log!Slot : put[m] = names[m] \/ put[m] = f
    BY <1>1, <1>3 DEF Names
  <2>3. slot' = names \/ slot' = put
    BY <2>1
  <2> HIDE DEF put
  <2> QED BY <1>3, <2>2, <2>3
<1>10. Log!TypeOK'
  BY <1>2, <1>7, <1>8, <1>9 DEF Log!TypeOK, Names
<1>11. Accounted'
  <2>1. \A m \in Log!Slot : slot'[m] # Log!None => slot'[m] = handle' \/ lines'[slot'[m]] # <<>>
    BY <1>2, <1>6, <1>9
  <2> QED BY <1>2, <2>1 DEF Accounted
<1>12. AtHand'
  <2>1. logged' \in Log!ToSet(lines'[handle'])
    BY <1>2
  <2>2. CASE slot'[0] = f /\ refused' = 0
    BY <1>2, <1>8, <2>1, <2>2 DEF AtHand
  <2>3. CASE f = handle /\ slot' = names /\ refused' = refused + 1
    <3>1. refused' # 0 /\ (refused' = 1 => refused = 0)
      BY <1>7, <2>3
    <3>2. refused = 0 => handle = slot[0]
      BY DEF LogIInv, AtHand
    <3>3. refused' = 1 => handle' \in {slot'[0], slot'[1]}
      BY <1>1, <1>2, <1>3, <2>3, <3>1, <3>2
    <3> QED BY <1>8, <2>1, <3>1, <3>3 DEF AtHand
  <2>4. (slot'[0] = f /\ refused' = 0) \/ (f = handle /\ slot' = names /\ refused' = refused + 1)
    BY <1>1, <1>3 DEF Names
  <2> QED BY <2>2, <2>3, <2>4
<1> QED BY <1>10, <1>11, <1>12

\* With no file held the new file takes the place of those before it, and what
\* is forgotten is as old as Keep - 1 full files.
LEMMA RotateInOrder ==
    ASSUME LogIInv, Orderly, logged < MaxLines, ~(Len(lines[handle]) < Size),
           NEW f \in Log!File, f = Log!Unused, Log!Append1(f),
           NEW names, names = Log!Rotated(slot), slot' = [names EXCEPT ![0] = f],
           foreign' = foreign, refused' = 0
    PROVE  Orderly'
<1>1. /\ slot \in Names /\ 0 \in Log!Slot /\ 1 \in Log!Slot /\ Keep \in Nat /\ Keep >= 2
      /\ handle \in Log!File /\ logged \in Nat /\ Size \in Nat \ {0} /\ handle # Log!None
      /\ \A n \in Log!Slot : slot[n] # Log!None => slot[n] \in Log!File
      /\ \A g \in Log!File : lines[g] \in Seq(1 .. MaxLines) /\ Len(lines[g]) \in Nat
      /\ MaxLines \in Nat /\ Log!File = 1 .. MaxLines + 1 /\ Log!None = 0
      /\ Log!Slot = 0 .. Keep - 1
  BY LogTypes DEF LogIInv
<1>2. /\ logged' = logged + 1
      /\ Log!ToSet(lines'[f]) = Log!ToSet(lines[f]) \cup {logged'}
      /\ Len(lines'[f]) = Len(lines[f]) + 1
      /\ \A g \in Log!File : g # f => lines'[g] = lines[g]
  BY AppendOk
<1>3. lines[handle] # <<>> /\ handle = slot[0] /\ Len(lines[handle]) >= Size
  BY <1>1 DEF Orderly, LogIInv, AtHand
<1>4. f # handle /\ lines[f] = <<>> /\ \A n \in Log!Slot : slot[n] # f
  BY <1>3, UnusedOk
<1>5. foreign = Log!None
  BY DEF Orderly
<1>6. /\ names \in Names /\ names[0] = Log!None
      /\ \A m \in Log!Slot \ {0} : names[m] = slot[m - 1]
  BY <1>1, <1>5, RotatedOk
<1>7. slot'[0] = f /\ \A m \in Log!Slot \ {0} : slot'[m] = slot[m - 1] /\ m - 1 \in Log!Slot
  BY <1>1, <1>6 DEF Names
<1>8. Len(lines'[slot'[0]]) = 1
  BY <1>2, <1>4, <1>7
<1>9. \A n \in Log!Slot : slot[n] # Log!None =>
         \A i \in Log!ToSet(lines[slot[n]]) : i \in 1 .. logged
  BY <1>1 DEF LogIInv, Accounted
<1>10. \A n \in Log!Slot : slot[n] # Log!None => lines'[slot[n]] = lines[slot[n]]
  BY <1>1, <1>2, <1>4
<1>11. ASSUME NEW n \in Log!Slot \ {0}, slot[n] # Log!None, NEW i \in Log!ToSet(lines[slot[n]])
       PROVE  logged - i >= n * Size
  <2> DEFINE rest == (n - 1) * Size
             all == n * Size
  <2>1. logged - i >= Len(lines[slot[0]]) + rest
    BY <1>11 DEF Orderly
  <2>2. rest \in Nat /\ all = rest + Size
    BY <1>1
  <2>3. i \in Nat
    BY <1>9, <1>11
  <2> HIDE DEF rest, all
  <2>4. logged - i >= all
    BY <1>1, <1>3, <2>1, <2>2, <2>3
  <2> QED BY <2>4 DEF all
<1>12. ASSUME NEW n \in Log!Slot \ {0}, slot'[n] # Log!None
       PROVE  /\ slot'[n] # slot'[0]
              /\ \A i \in Log!ToSet(lines'[slot'[n]]) :
                    logged' - i >= Len(lines'[slot'[0]]) + (n - 1) * Size
  <2> DEFINE k == n - 1
             rest == (n - 1) * Size
  <2>1. /\ k \in Log!Slot /\ slot'[n] = slot[k] /\ slot[k] # Log!None
        /\ lines'[slot'[n]] = lines[slot[k]] /\ rest \in Nat
    BY <1>1, <1>7, <1>10, <1>12
  <2>2. slot'[n] # slot'[0]
    BY <1>4, <1>7, <2>1
  <2>3. ASSUME NEW i \in Log!ToSet(lines[slot[k]]) PROVE logged - i >= rest /\ i \in Nat
    <3>1. i \in 1 .. logged
      BY <1>9, <2>1
    <3>2. CASE k = 0
      <4>1. rest = 0
        BY <1>1, <3>2
      <4> HIDE DEF rest
      <4> QED BY <1>1, <3>1, <4>1
    <3>3. CASE k # 0
      <4>1. k \in Log!Slot \ {0} /\ i \in Nat /\ rest = k * Size
        BY <1>1, <2>1, <3>1, <3>3
      <4> HIDE DEF k, rest
      <4>2. logged - i >= k * Size
        BY <1>11, <2>1, <4>1
      <4> QED BY <4>1, <4>2
    <3> QED BY <3>2, <3>3
  <2> HIDE DEF rest
  <2>4. \A i \in Log!ToSet(lines'[slot'[n]]) : logged' - i >= 1 + rest
    BY <1>1, <1>2, <2>1, <2>3
  <2> QED BY <1>8, <2>2, <2>4 DEF rest
<1>13. ASSUME NEW i \in 1 .. logged'
       PROVE  i \in (Log!Kept)' \/ logged' - i >= (Keep - 1) * Size
  <2> DEFINE all == (Keep - 1) * Size
  <2>1. all \in Int
    BY <1>1
  <2>2. CASE i = logged'
    <3>1. slot'[0] # Log!None
      BY <1>1, <1>7
    <3>2. i \in Log!ToSet(lines'[slot'[0]])
      BY <1>2, <1>7, <2>2
    <3> QED BY <1>1, <1>13, <3>1, <3>2 DEF Log!Kept
  <2>3. CASE i \in 1 .. logged /\ logged - i >= all
    <3> HIDE DEF all
    <3>1. logged' - i >= all
      BY <1>1, <1>2, <2>1, <2>3
    <3> QED BY <3>1 DEF all
  <2>4. CASE i \in 1 .. logged /\ i \in Log!Kept
    <3>1. PICK n \in Log!Slot : slot[n] # Log!None /\ i \in Log!ToSet(lines[slot[n]])
      BY <2>4 DEF Log!Kept
    <3>2. CASE n = Keep - 1
      <4>1. n \in Log!Slot \ {0} /\ all = n * Size
        BY <1>1, <3>2
      <4>2. logged - i >= all
        BY <1>11, <3>1, <4>1
      <4> QED BY <2>3, <2>4, <4>2
    <3>3. CASE n # Keep - 1
      <4>1. n + 1 \in Log!Slot \ {0} /\ (n + 1) - 1 = n
        BY <1>1, <3>3
      <4>2. slot'[n + 1] = slot[n] /\ lines'[slot[n]] = lines[slot[n]]
        BY <1>7, <1>10, <3>1, <4>1
      <4>3. n + 1 \in Log!Slot /\ slot'[n + 1] # Log!None /\ i \in Log!ToSet(lines'[slot'[n + 1]])
        BY <3>1, <4>1, <4>2
      <4> QED BY <1>13, <4>3 DEF Log!Kept
    <3> QED BY <3>2, <3>3
  <2>5. i \in 1 .. logged \/ i = logged'
    BY <1>1, <1>2
  <2>6. i \in 1 .. logged => i \in Log!Kept \/ logged - i >= all
    BY DEF Orderly
  <2> QED BY <2>2, <2>3, <2>4, <2>5, <2>6
<1> QED BY <1>5, <1>12, <1>13 DEF Orderly

\* Every step keeps the invariant.
LEMMA LogNext ==
    ASSUME LogIInv, Log!Next \/ UNCHANGED logVars
    PROVE  LogIInv'
<1>1. CASE UNCHANGED logVars
  BY <1>1 DEF logVars, LogIInv, Log!TypeOK, Accounted, AtHand, Orderly, Log!Kept
<1>2. CASE Log!Foreign
  <2>1. UNCHANGED <<slot, lines, handle, logged, refused>> /\ ~calm'
    BY <1>2 DEF Log!Foreign, LogIInv, Orderly
  <2>2. foreign' \in Log!File \cup {Log!None}
    BY <1>2, LogTypes DEF Log!Foreign, LogIInv
  <2>3. calm' \in BOOLEAN
    BY <1>2 DEF Log!Foreign, LogIInv, Log!TypeOK
  <2> QED BY <2>1, <2>2, <2>3 DEF LogIInv, Log!TypeOK, Accounted, AtHand
<1>3. CASE Log!WriteLine
  <2> DEFINE names == Log!Rotated(slot)
  <2>1. logged < MaxLines /\ foreign' = foreign
    BY <1>3 DEF Log!WriteLine
  <2>2. calm \in BOOLEAN /\ handle \in Log!File /\ slot \in Names /\ Size \in Nat \ {0}
    BY LogTypes DEF LogIInv, Log!TypeOK
  <2>3. CASE Len(lines[handle]) < Size
    BY <1>3, <2>3, PlainOk DEF Log!WriteLine
  <2>4. CASE ~(Len(lines[handle]) < Size)
    <3>1. names \in Names /\ (foreign = Log!None => names[0] = Log!None)
      BY <2>2, RotatedOk
    <3>2. lines[handle] # <<>>
      BY <2>2, <2>4
    <3>3. Log!Unused \in Log!File
      BY <2>1, <3>2, UnusedOk
    <3>4. \/ /\ names[0] = Log!None /\ slot' = [names EXCEPT ![0] = Log!Unused]
             /\ Log!Append1(Log!Unused) /\ refused' = 0 /\ calm' = calm
          \/ /\ names[0] # Log!None /\ slot' = names /\ Log!Append1(names[0])
             /\ refused' = 0 /\ calm' = calm
          \/ slot' = names /\ Log!Append1(handle) /\ refused' = refused + 1 /\ ~calm' /\ calm' = FALSE
      BY <1>3, <2>4 DEF Log!WriteLine
    <3> HIDE DEF names
    <3>5. names = Log!Rotated(slot)
      BY DEF names
    <3>6. CASE /\ names[0] = Log!None /\ slot' = [names EXCEPT ![0] = Log!Unused]
               /\ Log!Append1(Log!Unused) /\ refused' = 0 /\ calm' = calm
      <4> DEFINE f == Log!Unused
      <4>1. /\ f \in Log!File /\ Log!Append1(f) /\ f = Log!Unused /\ calm' \in BOOLEAN
            /\ slot' = [names EXCEPT ![0] = f]
        BY <2>2, <3>3, <3>6
      <4> HIDE DEF f
      <4>2. Log!TypeOK' /\ Accounted' /\ AtHand'
        BY <2>1, <2>4, <3>5, <3>6, <4>1, RotateOk
      <4>3. Orderly => Orderly'
        BY <2>1, <2>4, <3>5, <3>6, <4>1, RotateInOrder
      <4> QED BY <3>6, <4>2, <4>3 DEF LogIInv
    <3>7. CASE /\ names[0] # Log!None /\ slot' = names /\ Log!Append1(names[0])
               /\ refused' = 0 /\ calm' = calm
      <4> DEFINE f == names[0]
      <4>1. f \in Log!File /\ Log!Append1(f) /\ f = names[0] /\ calm' \in BOOLEAN
        BY <2>2, <3>1, <3>7, LogTypes DEF Names, LogIInv
      <4> HIDE DEF f
      <4>2. Log!TypeOK' /\ Accounted' /\ AtHand'
        BY <2>1, <2>4, <3>5, <3>7, <4>1, RotateOk
      <4>3. ~calm'
        BY <3>1, <3>7 DEF LogIInv, Orderly
      <4> QED BY <4>2, <4>3 DEF LogIInv
    <3>8. CASE slot' = names /\ Log!Append1(handle) /\ refused' = refused + 1 /\ ~calm' /\ calm' = FALSE
      <4>1. calm' \in BOOLEAN
        BY <3>8
      <4> DEFINE f == handle
      <4>2. f \in Log!File /\ Log!Append1(f) /\ f = handle
        BY <2>2, <3>8
      <4> HIDE DEF f
      <4>3. Log!TypeOK' /\ Accounted' /\ AtHand'
        BY <2>1, <2>4, <3>5, <3>8, <4>1, <4>2, RotateOk
      <4> QED BY <3>8, <4>3 DEF LogIInv
    <3> QED BY <3>4, <3>6, <3>7, <3>8
  <2> QED BY <2>3, <2>4
<1> QED BY <1>1, <1>2, <1>3 DEF Log!Next

\* As long as the file system does what it is asked, the last Keep - 1 files'
\* worth of lines are on disk; and whoever holds which file open, the newest
\* line can be read in a named file until two reopenings in a row are refused,
\* for every number of files kept, every size and every number of lines
\* (file_log.rs).
THEOREM LogStaysKept == GuiSpec => []LogIsKept
<1> DEFINE I == part = "log" => LogIInv
<1>1. GuiInit => I
  <2>1. GuiInit => (part = "log" => Log!Init)
    BY DEF GuiInit, LogStart
  <2> QED BY <2>1, LogInit
<1>2. I /\ [GuiNext]_guiVars => I'
  <2> SUFFICES ASSUME I, [GuiNext]_guiVars PROVE I'
    OBVIOUS
  <2>1. part' = part /\ (part = "log" => Log!Next \/ UNCHANGED logVars)
    BY DEF GuiNext, guiVars
  <2> QED BY <2>1, LogNext
<1>3. I => LogIsKept
  <2> SUFFICES ASSUME LogIInv PROVE Log!OnlyTheOldestGoes /\ Log!LatestIsKept
    BY DEF LogIsKept
  <2>1. /\ 0 \in Log!Slot /\ 1 \in Log!Slot /\ handle # Log!None /\ logged \in Nat
        /\ Keep \in Nat /\ Size \in Nat
    BY LogTypes DEF LogIInv
  <2>2. ASSUME calm, NEW i \in 1 .. logged, logged - i < (Keep - 1) * Size
        PROVE  i \in Log!Kept
    <3> DEFINE all == (Keep - 1) * Size
    <3>1. all \in Int /\ logged - i < all
      BY <2>1, <2>2
    <3>2. i \in Log!Kept \/ logged - i >= all
      BY <2>2 DEF LogIInv, Orderly
    <3> HIDE DEF all
    <3> QED BY <2>1, <3>1, <3>2
  <2>3. ASSUME logged > 0, refused < 2 PROVE logged \in Log!Kept
    <3>1. refused \in Nat
      BY DEF LogIInv, Log!TypeOK
    <3>2. PICK n \in Log!Slot : handle = slot[n]
      BY <2>1, <2>3, <3>1 DEF LogIInv, AtHand
    <3>3. slot[n] # Log!None /\ logged \in Log!ToSet(lines[slot[n]]) /\ logged \in 1 .. logged
      BY <2>1, <2>3, <3>2 DEF LogIInv, AtHand
    <3> QED BY <3>3 DEF Log!Kept
  <2> QED BY <2>2, <2>3 DEF Log!OnlyTheOldestGoes, Log!LatestIsKept
<1> QED
  BY <1>1, <1>2, <1>3, PTL DEF GuiSpec

-----------------------------------------------------------------------------
(* The size of the panel (PanelSize).                                       *)

\* What is set and what is kept are sizes, and that of the base is not kept.
LEMMA ExtentSizes ==
    ASSUME Extent!TypeOK, NEW p
    PROVE  /\ Extent!TargetSize(p) \in Extent!Sizes
           /\ Extent!Persisted(p) \in {"none", "dragged", "large"}
  BY DEF Extent!TypeOK, Extent!TargetSize, Extent!Persisted, Extent!Sizes

\* A panel that is hidden, on some page.
LEMMA ExtentHides ==
    ASSUME Extent!TypeOK, NEW p \in {"root", "settings"}, NEW kept \in BOOLEAN,
           Extent!HideAs(p, kept), busy' \in BOOLEAN,
           extentPc' \in {"out", "poll", "keys", "size", "draw"}
    PROVE  Extent!TypeOK'
<1>1. /\ extentVisible' = FALSE /\ extentPage' = p /\ keep' = kept
      /\ panelSize' = Extent!Persisted(p)
      /\ UNCHANGED <<shownSize, settingsSized, resizePending, extentOs, extentCmd>>
  BY DEF Extent!HideAs
<1>2. panelSize' \in {"none", "dragged", "large"}
  BY <1>1, ExtentSizes
<1> QED BY <1>1, <1>2 DEF Extent!TypeOK, Extent!Sizes

\* Every step keeps the types of the sizes.
LEMMA ExtentNext ==
    ASSUME Extent!TypeOK, Extent!Next \/ UNCHANGED extentVars
    PROVE  Extent!TypeOK'
<1>1. CASE UNCHANGED extentVars
  BY <1>1 DEF extentVars, Extent!TypeOK, Extent!Sizes
<1>2. CASE Extent!Logic
  <2>1. extentPc' \in {"out", "poll", "keys", "size", "draw"}
    BY <1>2 DEF Extent!Logic
  <2>2. CASE Extent!Show
    <3>1. PICK p \in {"root", "settings"} : extentPage' = p
      BY <2>2 DEF Extent!Show, Extent!TypeOK
    <3>2. Extent!TargetSize(p) \in Extent!Sizes
      BY ExtentSizes
    <3>3. /\ extentVisible' = TRUE /\ settingsSized' = (p = "settings")
          /\ shownSize' = Extent!TargetSize(p)
          /\ extentCmd' = [Extent!Quiet EXCEPT !.size = Extent!TargetSize(p)]
          /\ UNCHANGED <<keep, panelSize, resizePending, extentOs, busy>>
      BY <2>2, <3>1 DEF Extent!Show
    <3> QED BY <2>1, <3>1, <3>2, <3>3 DEF Extent!TypeOK, Extent!Quiet, Extent!Sizes
  <2>3. CASE Extent!HideAs(extentPage, FALSE) /\ UNCHANGED busy
    BY <2>1, <2>3, ExtentHides DEF Extent!TypeOK
  <2>4. CASE Extent!Idle
    BY <2>1, <2>4 DEF Extent!Idle, Extent!TypeOK, Extent!Sizes
  <2> QED BY <1>2, <2>2, <2>3, <2>4 DEF Extent!Logic
<1>3. CASE Extent!PollInvoke
  <2>1. extentPc' = "keys"
    BY <1>3 DEF Extent!PollInvoke
  <2>2. CASE /\ busy' = FALSE
             /\ Extent!HideAs("root", FALSE) \/ Extent!HideAs(extentPage, TRUE)
    BY <2>1, <2>2, ExtentHides DEF Extent!TypeOK
  <2>3. CASE Extent!Idle
    BY <2>1, <2>3 DEF Extent!Idle, Extent!TypeOK, Extent!Sizes
  <2> QED BY <1>3, <2>2, <2>3 DEF Extent!PollInvoke
<1>4. CASE Extent!HandleKeys
  <2>1. extentPc' = "size"
    BY <1>4 DEF Extent!HandleKeys
  <2>2. CASE Extent!HideAs(extentPage, FALSE) /\ UNCHANGED busy
    BY <2>1, <2>2, ExtentHides DEF Extent!TypeOK
  <2>3. CASE Extent!Idle \/ Extent!OpenOrBack
    BY <2>1, <2>3 DEF Extent!Idle, Extent!OpenOrBack, Extent!TypeOK, Extent!Sizes
  <2>4. CASE /\ busy' = TRUE
             /\ UNCHANGED <<extentVisible, extentPage, keep, shownSize, panelSize, settingsSized,
                            resizePending, extentOs, extentCmd>>
    BY <2>1, <2>4 DEF Extent!TypeOK, Extent!Sizes
  <2> QED BY <1>4, <2>2, <2>3, <2>4 DEF Extent!HandleKeys
<1>5. CASE Extent!FollowPage
  <2>1. /\ extentPc' = "draw" /\ settingsSized' = (extentPage = "settings")
        /\ extentCmd' \in [size : Extent!Sizes \cup {"-"}, min : {"-", "base", "large"}]
        /\ panelSize' \in {panelSize, Extent!Persisted(extentPage)}
        /\ shownSize' \in {shownSize, extentOs.size} /\ resizePending' \in BOOLEAN
        /\ UNCHANGED <<extentVisible, extentPage, keep, extentOs, busy>>
    BY <1>5, ExtentSizes DEF Extent!FollowPage, Extent!TypeOK
  <2>2. Extent!Persisted(extentPage) \in {"none", "dragged", "large"}
    BY ExtentSizes
  <2> QED BY <2>1, <2>2 DEF Extent!TypeOK, Extent!Sizes
<1>6. CASE Extent!Click
  BY <1>6 DEF Extent!Click, Extent!OpenOrBack, Extent!TypeOK, Extent!Sizes
<1>7. CASE Extent!EndFrame \/ Extent!UserDrags
  BY <1>7 DEF Extent!EndFrame, Extent!UserDrags, Extent!Quiet, Extent!TypeOK, Extent!Sizes
<1> QED
  BY <1>1, <1>2, <1>3, <1>4, <1>5, <1>6, <1>7 DEF Extent!Next

-----------------------------------------------------------------------------
(* The types of the other parts.                                            *)

\* Every step keeps the types of the material.
LEMMA MaterialTypes ==
    ASSUME Material!TypeOK, Material!Next \/ UNCHANGED materialVars
    PROVE  Material!TypeOK'
<1> DEFINE Sound(after) ==
             /\ after.dwm \in Material!Kind /\ after.active \in BOOLEAN
             /\ after.border \in Material!Theme \cup {"off"} /\ after.countdown \in 0 .. Countdown
<1>1. Countdown \in Nat \ {0}
  BY GuiAssumption
<1>2. ASSUME NEW backing \in Material!Kind, NEW picture \in BOOLEAN
      PROVE  Sound(Material!RefreshBackdrop(backing, picture))
  <2> DEFINE wanted == Material!Effective(backing, picture)
  <2>1. wanted \in Material!Kind
    BY <1>2 DEF Material!Effective, Material!Kind
  <2>2. Material!InForce(theme) \in Material!Theme
    BY DEF Material!InForce, Material!TypeOK
  <2>3. /\ dwm \in Material!Kind /\ active \in BOOLEAN /\ supported \in BOOLEAN
        /\ border \in Material!Theme \cup {"off"} /\ countdown \in 0 .. Countdown
        /\ Countdown \in 0 .. Countdown
    BY <1>1 DEF Material!TypeOK
  <2>4. Material!RefreshBackdrop(backing, picture) =
          IF wanted = "none"
          THEN [dwm |-> dwm, active |-> FALSE,
                border |-> IF active THEN "off" ELSE border,
                countdown |-> IF active THEN Countdown ELSE countdown]
          ELSE [dwm |-> IF supported THEN wanted ELSE dwm, active |-> supported,
                border |-> CASE supported -> Material!InForce(theme)
                             [] ~supported /\ active -> "off"
                             [] OTHER -> border,
                countdown |-> countdown]
    BY DEF Material!RefreshBackdrop
  <2> HIDE DEF wanted
  <2>5. CASE wanted = "none"
    BY <2>3, <2>4, <2>5
  <2>6. CASE wanted # "none"
    <3>1. CASE supported
      BY <2>1, <2>2, <2>3, <2>4, <2>6, <3>1
    <3>2. CASE ~supported
      BY <2>1, <2>2, <2>3, <2>4, <2>6, <3>2
    <3> QED BY <3>1, <3>2
  <2> QED BY <2>5, <2>6
<1>3. ASSUME NEW after, Sound(after), Material!EndOfFrame(after)
      PROVE  /\ dwm' \in Material!Kind /\ active' \in BOOLEAN
             /\ border' \in Material!Theme \cup {"off"} /\ countdown' \in 0 .. Countdown
             /\ materialPanel' \in {"solid", "glass"} /\ presented' \in {"solid", "glass"}
             /\ materialPanel' = "glass" <=> active'
  BY <1>1, <1>3 DEF Material!EndOfFrame, Material!TypeOK, Material!Kind
<1>4. CASE UNCHANGED materialVars
  BY <1>4 DEF materialVars, Material!TypeOK
<1>5. CASE Material!SystemTheme
  <2>1. (CHOOSE t \in Material!Theme : t # system) \in Material!Theme
    BY DEF Material!Theme
  <2> QED BY <1>5, <2>1 DEF Material!SystemTheme, Material!TypeOK
<1>6. Sound(Material!Unchanged)
  BY DEF Material!Unchanged, Material!TypeOK
<1>7. CASE Material!Frame
  BY <1>3, <1>6, <1>7 DEF Material!Frame, Material!TypeOK
<1>8. CASE Material!FirstFrame
  BY <1>2, <1>3, <1>8 DEF Material!FirstFrame, Material!TypeOK
<1>9. ASSUME NEW kind \in Material!Kind, Material!ApplyBackdrop(kind) PROVE Material!TypeOK'
  BY <1>2, <1>3, <1>9 DEF Material!ApplyBackdrop, Material!Changing, Material!TypeOK
<1>10. CASE Material!ApplyBackgroundPath
  <2>1. (~image) \in BOOLEAN
    OBVIOUS
  <2> QED BY <1>2, <1>3, <1>10, <2>1 DEF Material!ApplyBackgroundPath, Material!Changing,
                                          Material!TypeOK
<1>11. ASSUME NEW t \in Material!Theme \cup {"system"}, Material!ApplyThemePref(t)
       PROVE  Material!TypeOK'
  <2> DEFINE after == [Material!Unchanged EXCEPT
                         !.border = IF active THEN Material!InForce(t) ELSE border]
  <2>1. Sound(after)
    BY <1>6 DEF Material!Unchanged, Material!InForce, Material!TypeOK
  <2>2. /\ Material!EndOfFrame(after) /\ theme' = t
        /\ UNCHANGED <<system, supported, backdrop, image>>
    BY <1>11 DEF Material!ApplyThemePref, Material!Changing
  <2> HIDE DEF after
  <2> QED BY <1>3, <2>1, <2>2 DEF Material!TypeOK
<1>12. CASE Material!ApplyResetAppearance
  <2> DEFINE there == Material!RefreshBackdrop("mica", FALSE)
             after == [there EXCEPT !.border = IF supported THEN system ELSE @]
  <2>1. "mica" \in Material!Kind /\ FALSE \in BOOLEAN
    BY DEF Material!Kind
  <2>2. Sound(there)
    BY <1>2, <2>1
  <2>3. /\ after.dwm = there.dwm /\ after.active = there.active
        /\ after.countdown = there.countdown
        /\ after.border \in {system, there.border}
    BY DEF Material!RefreshBackdrop
  <2>4. /\ Material!EndOfFrame(after) /\ backdrop' = "mica" /\ image' = FALSE
        /\ theme' = "system" /\ UNCHANGED <<system, supported>>
    BY <1>12 DEF Material!ApplyResetAppearance, Material!Changing
  <2> HIDE DEF there, after
  <2>5. Sound(after)
    BY <2>2, <2>3 DEF Material!TypeOK
  <2> QED BY <1>3, <2>1, <2>4, <2>5 DEF Material!TypeOK
<1> QED
  BY <1>4, <1>5, <1>7, <1>8, <1>9, <1>10, <1>11, <1>12 DEF Material!Next

-----------------------------------------------------------------------------
(* The window (WindowFlow): its types.                                      *)

\* The parts of the panel that show, hide or leave it.
WindowLooks ==
    /\ {windowVisible, panelOpen, everFocused, lastFocusLoss, resetOnShow} \subseteq BOOLEAN
    /\ {nativeResize, hidePending} \subseteq BOOLEAN
    /\ since \in {"none", "running", "expired"}
    /\ windowPage \in {"home", "away"}
    /\ windowCmd \in [visible : {"-", "yes", "no"}, loop : BOOLEAN]

\* The rest of the window.
WindowRest ==
    /\ windowPc \in {"out", "tray", "focus", "heal", "invoke", "keys", "chrome", "end"}
    /\ hotkey \in BOOLEAN /\ trayClick \in BOOLEAN
    /\ trayEvents \in Seq({"Toggle", "OpenSettings"}) /\ Len(trayEvents) <= TrayCap
    /\ invoke \in {"none", "running"} \cup Window!Result
    /\ windowOs \in [visible : BOOLEAN, focused : BOOLEAN, loop : BOOLEAN, button : BOOLEAN]
    /\ press \in {"no", "held", "flagged"} /\ click \in {"none", "quick", "late"}

\* Showing, hiding and asking to be hidden keep the types of what they change.
LEMMA WindowHides ==
    ASSUME WindowLooks, windowPage' \in {"home", "away"}, lastFocusLoss' \in BOOLEAN,
           \/ Window!Still
           \/ Window!HideOr(TRUE)
           \/ Window!HideOr(FALSE)
           \/ \E p \in {"home", "away"} : Window!ShowAt(p)
    PROVE  WindowLooks'
<1>1. CASE Window!Still
  BY <1>1 DEF Window!Still, Window!looks, Window!chrome, WindowLooks
<1>2. CASE \E p \in {"home", "away"} : Window!ShowAt(p)
  BY <1>2 DEF Window!ShowAt, Window!chrome, WindowLooks
<1>3. ASSUME NEW kept \in BOOLEAN, Window!HideOr(kept)
      PROVE  WindowLooks'
  <2>1. (~kept) \in BOOLEAN /\ (resetOnShow /\ ~kept) \in BOOLEAN
    OBVIOUS
  <2>2. CASE nativeResize
    BY <1>3, <2>1, <2>2 DEF Window!HideOr, WindowLooks
  <2>3. CASE ~nativeResize
    BY <1>3, <2>1, <2>3 DEF Window!HideOr, Window!HideNow, WindowLooks
  <2> QED BY <2>2, <2>3
<1> QED
  BY <1>1, <1>2, <1>3

\* The hotkey and the tray show or hide.
LEMMA WindowToggles == WindowLooks /\ Window!Toggle => WindowLooks'
<1> SUFFICES ASSUME WindowLooks, Window!Toggle PROVE WindowLooks'
  OBVIOUS
<1>1. CASE windowVisible
  BY <1>1, WindowHides DEF Window!Toggle, Window!Hide, WindowLooks
<1>2. CASE ~windowVisible
  <2>1. Window!ReopensAt \in {"home", "away"}
    BY DEF Window!ReopensAt, WindowLooks
  <2>2. Window!ShowAt(Window!ReopensAt)
    BY <1>2 DEF Window!Toggle
  <2>3. windowPage' \in {"home", "away"} /\ lastFocusLoss' = lastFocusLoss
    BY <2>1, <2>2 DEF Window!ShowAt
  <2> QED BY <2>1, <2>2, <2>3, WindowHides DEF WindowLooks
<1> QED BY <1>1, <1>2

\* Every step keeps the types of the window.
LEMMA WindowTypes ==
    ASSUME Window!TypeOK, Window!Next \/ UNCHANGED windowVars
    PROVE  Window!TypeOK'
<1>a. Window!TypeOK <=> WindowLooks /\ WindowRest
  BY DEF Window!TypeOK, WindowLooks, WindowRest
<1>b. Window!TypeOK' <=> WindowLooks' /\ WindowRest'
  BY DEF Window!TypeOK, WindowLooks, WindowRest
<1>c. WindowLooks /\ WindowRest
  BY <1>a
<1>d. TrayCap \in Nat
  BY GuiAssumption
<1>1. CASE UNCHANGED windowVars
  BY <1>1, <1>b, <1>c DEF windowVars, WindowLooks, WindowRest
<1>2. CASE Window!PollHotkey
  <2>1. WindowLooks'
    <3>1. CASE Window!Still /\ UNCHANGED windowPage
      BY <3>1, <1>c, WindowHides DEF Window!Still, Window!looks, WindowLooks
    <3>2. CASE Window!Toggle
      BY <3>2, <1>c, WindowToggles
    <3> QED BY <1>2, <3>1, <3>2 DEF Window!PollHotkey
  <2>2. WindowRest'
    BY <1>2, <1>c DEF Window!PollHotkey, WindowRest
  <2> QED BY <1>b, <2>1, <2>2
<1>3. CASE Window!PollTray
  <2>1. WindowLooks'
    <3>1. CASE Window!Still /\ windowPage' \in {windowPage, "away"}
      BY <3>1, <1>c, WindowHides DEF Window!Still, Window!looks, WindowLooks
    <3>2. CASE Window!Toggle
      BY <3>2, <1>c, WindowToggles
    <3>3. CASE Window!ShowAt("away")
      BY <3>3, <1>c, WindowHides DEF Window!ShowAt, WindowLooks
    <3> QED BY <1>3, <3>1, <3>2, <3>3 DEF Window!PollTray
  <2>2. UNCHANGED trayEvents \/ (trayEvents # <<>> /\ trayEvents' = Tail(trayEvents))
    BY <1>3 DEF Window!PollTray, Window!events
  <2>3. trayEvents' \in Seq({"Toggle", "OpenSettings"}) /\ Len(trayEvents') <= TrayCap
    BY <1>c, <1>d, <2>2 DEF WindowRest
  <2>4. windowPc' \in {windowPc, "focus"} /\ hotkey' = hotkey /\ trayClick' \in {trayClick, FALSE}
    BY <1>3 DEF Window!PollTray, Window!events
  <2>7. click' \in {click, "none"}
    BY <1>3 DEF Window!PollTray
  <2>6. UNCHANGED <<invoke, windowOs, press>>
    BY <1>3 DEF Window!PollTray
  <2>5. WindowRest'
    <3>1. windowPc' \in {"out", "tray", "focus", "heal", "invoke", "keys", "chrome", "end"}
      BY <1>c, <2>4 DEF WindowRest
    <3>2. hotkey' \in BOOLEAN /\ trayClick' \in BOOLEAN
      BY <1>c, <2>4 DEF WindowRest
    <3>3. click' \in {"none", "quick", "late"} /\ press' \in {"no", "held", "flagged"}
      BY <1>c, <2>6, <2>7 DEF WindowRest
    <3>4. /\ invoke' \in {"none", "running"} \cup Window!Result
          /\ windowOs' \in [visible : BOOLEAN, focused : BOOLEAN, loop : BOOLEAN, button : BOOLEAN]
      BY <1>c, <2>6 DEF WindowRest
    <3> QED BY <2>3, <3>1, <3>2, <3>3, <3>4 DEF WindowRest
  <2> QED BY <1>b, <2>1, <2>5
<1>4. CASE Window!HandleFocusLoss
  <2>1. WindowLooks'
    <3>1. CASE Window!Hide /\ lastFocusLoss' = TRUE
      BY <1>4, <3>1, <1>c, WindowHides DEF Window!HandleFocusLoss, Window!Hide, WindowLooks
    <3>2. CASE /\ everFocused' = (everFocused \/ (windowVisible /\ windowOs.focused))
               /\ UNCHANGED <<windowVisible, panelOpen, lastFocusLoss, resetOnShow, Window!chrome, windowCmd>>
      <4>1. everFocused' \in BOOLEAN
        BY <3>2
      <4> QED BY <1>4, <3>2, <4>1, <1>c DEF Window!HandleFocusLoss, Window!chrome, WindowLooks
    <3> QED BY <1>4, <3>1, <3>2 DEF Window!HandleFocusLoss
  <2>2. WindowRest'
    BY <1>4, <1>c DEF Window!HandleFocusLoss, Window!events, WindowRest
  <2> QED BY <1>b, <2>1, <2>2
<1>5. CASE Window!HealDesync
  <2>1. WindowLooks'
    BY <1>5, <1>c DEF Window!HealDesync, Window!chrome, WindowLooks
  <2>2. WindowRest'
    BY <1>5, <1>c DEF Window!HealDesync, Window!events, WindowRest
  <2> QED BY <1>b, <2>1, <2>2
<1>6. CASE Window!PollInvoke
  <2>1. WindowLooks'
    <3>1. /\ windowPage' \in {windowPage, "home", "away"} /\ lastFocusLoss' = lastFocusLoss
          /\ Window!Still \/ Window!HideOr(TRUE) \/ Window!HideOr(FALSE)
      BY <1>6, <1>c DEF Window!PollInvoke, Window!Still, Window!looks, Window!Hide,
                       Window!HideKeepState, WindowLooks
    <3>2. windowPage' \in {"home", "away"} /\ lastFocusLoss' \in BOOLEAN
      BY <3>1, <1>c DEF WindowLooks
    <3> QED BY <3>1, <3>2, <1>c, WindowHides
  <2>2. WindowRest'
    BY <1>6, <1>c DEF Window!PollInvoke, Window!events, WindowRest
  <2> QED BY <1>b, <2>1, <2>2
<1>7. CASE Window!HandleKeys
  <2>1. WindowLooks'
    <3>1. /\ windowPage' \in {windowPage, "home", "away"} /\ lastFocusLoss' = lastFocusLoss
          /\ Window!Still \/ Window!HideOr(TRUE) \/ Window!HideOr(FALSE)
      BY <1>7, <1>c DEF Window!HandleKeys, Window!Still, Window!looks, Window!Hide,
                       Window!HideKeepState, WindowLooks
    <3>2. windowPage' \in {"home", "away"} /\ lastFocusLoss' \in BOOLEAN
      BY <3>1, <1>c DEF WindowLooks
    <3> QED BY <3>1, <3>2, <1>c, WindowHides
  <2>2. WindowRest'
    BY <1>7, <1>c DEF Window!HandleKeys, Window!events, WindowRest
  <2> QED BY <1>b, <2>1, <2>2
<1>8. CASE Window!Chrome
  <2>1. WindowLooks'
    <3>1. CASE Window!HideNow(TRUE) /\ nativeResize' = FALSE /\ since' = "none" /\ hidePending' = FALSE
      BY <1>8, <3>1, <1>c DEF Window!Chrome, Window!HideNow, Window!Still, Window!looks, WindowLooks
    <3>2. CASE ~(Window!HideNow(TRUE) /\ nativeResize' = FALSE /\ since' = "none" /\ hidePending' = FALSE)
      BY <1>8, <3>2, <1>c DEF Window!Chrome, Window!Still, Window!looks, Window!chrome, WindowLooks
    <3> QED BY <3>1, <3>2
  <2>2. WindowRest'
    BY <1>8, <1>c DEF Window!Chrome, Window!events, WindowRest
  <2> QED BY <1>b, <2>1, <2>2
<1>9. CASE Window!EndFrame
  <2>1. WindowLooks'
    BY <1>9, <1>c DEF Window!EndFrame, Window!Quiet, Window!looks, Window!chrome, WindowLooks
  <2>2. windowOs' \in [visible : BOOLEAN, focused : BOOLEAN, loop : BOOLEAN, button : BOOLEAN]
    BY <1>9, <1>c DEF Window!EndFrame, WindowRest, WindowLooks
  <2>3. WindowRest'
    BY <1>9, <1>c, <2>2 DEF Window!EndFrame, Window!events, WindowRest
  <2> QED BY <1>b, <2>1, <2>3
<1>10. CASE Window!UserActs
  <2>1. WindowLooks'
    BY <1>10, <1>c DEF Window!UserActs, Window!looks, Window!chrome, WindowLooks
  <2>2. windowOs' \in [visible : BOOLEAN, focused : BOOLEAN, loop : BOOLEAN, button : BOOLEAN]
    BY <1>10, <1>c DEF Window!UserActs, WindowRest
  <2>3. WindowRest'
    BY <1>10, <1>c, <2>2 DEF Window!UserActs, Window!events, WindowRest
  <2> QED BY <1>b, <2>1, <2>3
<1>11. CASE Window!TimePasses
  <2>1. WindowLooks'
    BY <1>11, <1>c DEF Window!TimePasses, WindowLooks
  <2>2. WindowRest'
    BY <1>11, <1>c DEF Window!TimePasses, Window!events, WindowRest
  <2> QED BY <1>b, <2>1, <2>2
<1>12. CASE Window!ThreadsSend
  <2>1. WindowLooks'
    BY <1>12, <1>c DEF Window!ThreadsSend, Window!looks, Window!chrome, WindowLooks
  <2>2. \/ UNCHANGED trayEvents
        \/ /\ Len(trayEvents) < TrayCap
           /\ \E e \in {"Toggle", "OpenSettings"} : trayEvents' = Append(trayEvents, e)
    BY <1>12 DEF Window!ThreadsSend, Window!Press, Window!Release, Window!events
  <2>3. trayEvents' \in Seq({"Toggle", "OpenSettings"}) /\ Len(trayEvents') <= TrayCap
    BY <1>c, <1>d, <2>2 DEF WindowRest
  <2>4. /\ UNCHANGED <<windowPc, invoke>> /\ hotkey' \in {hotkey, TRUE} /\ trayClick' \in {trayClick, TRUE}
        /\ press' \in {press, "no", "held", "flagged"} /\ click' \in {click, "none", "quick"}
        /\ windowOs' \in {windowOs, [windowOs EXCEPT !.focused = FALSE]}
    BY <1>12 DEF Window!ThreadsSend, Window!Press, Window!Release, Window!events
  <2>5. windowOs' \in [visible : BOOLEAN, focused : BOOLEAN, loop : BOOLEAN, button : BOOLEAN]
    BY <1>c, <2>4 DEF WindowRest
  <2>6. WindowRest'
    BY <1>c, <2>3, <2>4, <2>5 DEF WindowRest
  <2> QED BY <1>b, <2>1, <2>6
<1> QED
  BY <1>1, <1>2, <1>3, <1>4, <1>5, <1>6, <1>7, <1>8, <1>9, <1>10, <1>11, <1>12
  DEF Window!Next, Window!Frame

-----------------------------------------------------------------------------
(* What becomes of a result (ResultFlow): its types.                        *)

\* The clients, and the command under way.
ResultFlight ==
    /\ client \in [Ext -> {"warm", "out", "stub"}]
    /\ pageBusy \subseteq {e \in Ext : client[e] = "out"}
    /\ {flight, last} \subseteq Result!Call \cup {Result!None}
    /\ flight # Result!None => client[flight.ext] = "out" /\ flight.ext \notin pageBusy
    /\ answer \in {"none", "Error", "Crashed"} \cup Result!Kind

\* What the extensions have asked the host to do.
ResultQueues == \A e \in Ext : requests[e] \in Seq(Result!Request) /\ Len(requests[e]) <= Backlog

\* What is shown.
ResultShows ==
    /\ resultVisible \in BOOLEAN
    /\ {resultDialog, asked} \subseteq Result!Call \cup {Result!None}
    /\ clip \in {"idle", "queued", "done", "down"}
    /\ update \in {"none", "running", "done"}
    /\ resultToast \in {"none", "info", "error"}

\* A command that is started, or refused.
LEMMA ResultDispatch ==
    ASSUME ResultFlight, NEW k \in Result!Call, Result!Dispatch(k)
    PROVE  ResultFlight' /\ resultToast' \in {resultToast, "error"}
<1>1. k.ext \in Ext /\ k \in Result!Call \cup {Result!None}
  BY DEF Result!Call
<1>2. CASE UNCHANGED Result!invokeVars /\ resultToast' = "error"
  BY <1>2 DEF Result!invokeVars, ResultFlight
<1>3. CASE last' = k /\ Result!Start(k)
  <2>1. /\ flight' = k /\ last' = k /\ answer' = "none" /\ client[k.ext] # "out"
        /\ client' = [client EXCEPT ![k.ext] = "out"] /\ UNCHANGED <<pageBusy, resultToast>>
    BY <1>3 DEF Result!Start, Result!Busy
  <2> QED BY <1>1, <2>1 DEF ResultFlight
<1> QED BY <1>2, <1>3 DEF Result!Dispatch

\* Every step keeps the types of what becomes of a result.
LEMMA ResultTypes ==
    ASSUME Result!TypeOK, ResultIInv, Result!Next \/ UNCHANGED resultVars
    PROVE  Result!TypeOK'
<1>a. Result!TypeOK <=> ResultFlight /\ ResultQueues /\ ResultShows
  BY DEF Result!TypeOK, ResultFlight, ResultQueues, ResultShows
<1>b. Result!TypeOK' <=> ResultFlight' /\ ResultQueues' /\ ResultShows'
  BY DEF Result!TypeOK, ResultFlight, ResultQueues, ResultShows
<1>c. ResultFlight /\ ResultQueues /\ ResultShows
  BY <1>a
<1>d. Backlog \in Nat
  BY GuiAssumption
<1>1. CASE UNCHANGED resultVars
  BY <1>1, <1>b, <1>c DEF resultVars, ResultFlight, ResultQueues, ResultShows
<1>2. CASE Result!Confirm
  <2>1. ResultFlight' /\ resultToast' \in {resultToast, "info", "error"}
    <3>1. ASSUME NEW e \in Ext, NEW k \in Cmd,
                 Result!Dispatch([ext |-> e, cmd |-> k, confirmed |-> FALSE])
          PROVE  ResultFlight' /\ resultToast' \in {resultToast, "info", "error"}
      <4>1. [ext |-> e, cmd |-> k, confirmed |-> FALSE] \in Result!Call
        BY DEF Result!Call
      <4> QED BY <3>1, <4>1, <1>c, ResultDispatch
    <3>2. CASE resultToast' \in {resultToast, "info", "error"} /\ UNCHANGED Result!invokeVars
      BY <3>2, <1>c DEF Result!invokeVars, ResultFlight
    <3> QED BY <1>2, <3>1, <3>2 DEF Result!Confirm
  <2>2. ResultQueues' /\ ResultShows'
    BY <1>2, <1>c, <2>1 DEF Result!Confirm, ResultQueues, ResultShows
  <2> QED BY <1>b, <2>1, <2>2
<1>3. CASE Result!AnswerDialog
  <2>1. ResultFlight' /\ resultToast' \in {resultToast, "error"}
    <3>1. [resultDialog EXCEPT !.confirmed = TRUE] \in Result!Call
      BY <1>3, <1>c DEF Result!AnswerDialog, ResultShows, Result!Call
    <3>2. CASE UNCHANGED <<resultToast, Result!invokeVars>>
      BY <3>2, <1>c DEF Result!invokeVars, ResultFlight
    <3> QED BY <1>3, <3>1, <3>2, <1>c, ResultDispatch DEF Result!AnswerDialog
  <2>2. ResultQueues' /\ ResultShows'
    BY <1>3, <1>c, <2>1 DEF Result!AnswerDialog, ResultQueues, ResultShows
  <2> QED BY <1>b, <2>1, <2>2
<1>4. CASE Result!Answers
  BY <1>4, <1>b, <1>c DEF Result!Answers, Result!shown, ResultFlight, ResultQueues, ResultShows
<1>5. CASE Result!PollInvoke
  <2>1. flight \in Result!Call /\ flight.ext \in Ext
    BY <1>5, <1>c DEF Result!PollInvoke, ResultIInv, ResultFlight, Result!Call
  <2>2. PICK k \in {"stub", "warm"} :
           /\ client' = [client EXCEPT ![flight.ext] = k]
           /\ requests' = [requests EXCEPT ![flight.ext] = IF k = "stub" THEN <<>> ELSE @]
    BY <1>5 DEF Result!PollInvoke, Result!Kept
  <2>3. flight' = Result!None /\ answer' = "none" /\ UNCHANGED <<pageBusy, last>>
    BY <1>5 DEF Result!PollInvoke
  <2>4. flight # Result!None
    BY <1>5 DEF Result!PollInvoke, ResultIInv
  <2>5. ResultFlight'
    <3>1. client' \in [Ext -> {"warm", "out", "stub"}]
      BY <2>1, <2>2, <1>c DEF ResultFlight
    <3>2. pageBusy' \subseteq {e \in Ext : client'[e] = "out"}
      BY <2>1, <2>2, <2>3, <2>4, <1>c DEF ResultFlight
    <3> QED BY <2>3, <3>1, <3>2, <1>c DEF ResultFlight
  <2>6. ResultQueues'
    <3>1. <<>> \in Seq(Result!Request) /\ Len(<<>>) <= Backlog
      BY <1>d
    <3>2. ASSUME NEW e \in Ext
          PROVE  requests'[e] \in {requests[e], <<>>}
      BY <2>2
    <3> QED BY <3>1, <3>2, <1>c DEF ResultQueues
  <2>7. ResultShows'
    <3>1. resultVisible' \in BOOLEAN
      BY <1>5 DEF Result!PollInvoke
    <3>2. resultToast' \in {resultToast, "info", "error"}
      BY <1>5 DEF Result!PollInvoke
    <3>3. /\ {resultDialog', asked'} \subseteq {resultDialog, asked, last, flight}
          /\ UNCHANGED <<clip, update>>
      BY <1>5 DEF Result!PollInvoke
    <3> QED BY <3>1, <3>2, <3>3, <1>c DEF ResultShows, ResultFlight
  <2> QED BY <1>b, <2>5, <2>6, <2>7
<1>6. CASE Result!PollHostRequests
  <2>1. ResultFlight'
    BY <1>6, <1>c DEF Result!PollHostRequests, Result!invokeVars, ResultFlight
  <2>2. ResultQueues'
    <3>1. <<>> \in Seq(Result!Request) /\ Len(<<>>) <= Backlog
      BY <1>d
    <3>2. ASSUME NEW e \in Ext
          PROVE  requests'[e] \in {requests[e], <<>>}
      BY <1>6 DEF Result!PollHostRequests
    <3> QED BY <3>1, <3>2, <1>c DEF ResultQueues
  <2>3. ResultShows'
    <3>1. clip' \in {clip, "queued"} /\ resultToast' \in {resultToast, "info", "error"}
      BY <1>6 DEF Result!PollHostRequests
    <3> QED BY <1>6, <3>1, <1>c DEF Result!PollHostRequests, ResultShows
  <2> QED BY <1>b, <2>1, <2>2, <2>3
<1>7. CASE Result!Background \/ Result!Window
  <2>1. ResultFlight' /\ ResultQueues'
    BY <1>7, <1>c DEF Result!Background, Result!Window, Result!invokeVars, ResultFlight, ResultQueues
  <2>2. ResultShows'
    <3>1. (~resultVisible) \in BOOLEAN
      OBVIOUS
    <3> QED BY <1>7, <3>1, <1>c DEF Result!Background, Result!Clipboard, Result!UpdateCheck, Result!Window,
                              ResultShows
  <2> QED BY <1>b, <2>1, <2>2
<1>8. ASSUME NEW e \in Ext, Result!PageTakes(e) \/ Result!PageReturns(e)
      PROVE  Result!TypeOK'
  <2>1. ResultQueues' /\ ResultShows'
    BY <1>8, <1>c DEF Result!PageTakes, Result!PageReturns, Result!shown, ResultQueues, ResultShows
  <2>2. flight # Result!None => flight.ext \in Ext
    BY <1>c DEF ResultFlight, Result!Call
  <2>3. ResultFlight'
    <3>1. CASE Result!PageTakes(e)
      BY <3>1, <2>2, <1>c DEF Result!PageTakes, ResultFlight
    <3>2. CASE Result!PageReturns(e)
      BY <3>2, <2>2, <1>c DEF Result!PageReturns, ResultFlight
    <3> QED BY <1>8, <3>1, <3>2
  <2> QED BY <1>b, <2>1, <2>3
<1>9. ASSUME NEW e \in Ext, Result!Asks(e)
      PROVE  Result!TypeOK'
  <2>1. ResultFlight' /\ ResultShows'
    BY <1>9, <1>c DEF Result!Asks, Result!invokeVars, Result!shown, ResultFlight, ResultShows
  <2>2. PICK one \in Result!Request : requests' = [requests EXCEPT ![e] = Append(@, one)]
    BY <1>9 DEF Result!Asks
  <2>3. requests[e] \in Seq(Result!Request) /\ Len(requests[e]) < Backlog
    BY <1>9, <1>c DEF Result!Asks, ResultQueues
  <2>4. /\ Append(requests[e], one) \in Seq(Result!Request)
        /\ Len(Append(requests[e], one)) <= Backlog
    BY <2>3, <1>d
  <2>5. \A x2 \in Ext : requests'[x2] = requests[x2] \/ requests'[x2] = Append(requests[e], one)
    BY <2>2
  <2>6. ResultQueues'
    BY <2>4, <2>5, <1>c DEF ResultQueues
  <2> QED BY <1>b, <2>1, <2>6
<1>10. ASSUME NEW e \in Ext, Result!Evict(e)
       PROVE  Result!TypeOK'
  <2>1. ResultShows'
    BY <1>10, <1>c DEF Result!Evict, Result!shown, ResultShows
  <2>2. flight # Result!None => flight.ext \in Ext
    BY <1>c DEF ResultFlight, Result!Call
  <2>3. ResultFlight'
    BY <1>10, <2>2, <1>c DEF Result!Evict, ResultFlight
  <2>4. ResultQueues'
    <3>1. <<>> \in Seq(Result!Request) /\ Len(<<>>) <= Backlog
      BY <1>d
    <3>2. ASSUME NEW x2 \in Ext
          PROVE  requests'[x2] \in {requests[x2], <<>>}
      BY <1>10 DEF Result!Evict
    <3> QED BY <3>1, <3>2, <1>c DEF ResultQueues
  <2> QED BY <1>b, <2>1, <2>3, <2>4
<1> QED
  BY <1>1, <1>2, <1>3, <1>4, <1>5, <1>6, <1>7, <1>8, <1>9, <1>10 DEF Result!Next

-----------------------------------------------------------------------------
(* The settings (SettingsFlow): their types.                                *)

\* What the invariant of the settings leaves out.
SettingsRest ==
    /\ {tmp, registry, running, save_warned, dirty, on_settings} \subseteq BOOLEAN
    /\ aggregated \in Settings!Preference
    /\ settingsToast \in Settings!Toast /\ shown \subseteq Settings!Toast
    /\ origin \in {"file", "default", "backup"}
    /\ sessions \in 0 .. MaxSessions /\ settingsChanges \in 0 .. MaxChanges

\* With it, the settings have their types.
LEMMA SettingsWhole == SettingsIInv /\ SettingsRest => Settings!TypeOK
<1> SUFFICES ASSUME SettingsIInv, SettingsRest PROVE Settings!TypeOK
  OBVIOUS
<1>1. settingsSettings \in Settings!Settings
  BY DEF SettingsIInv, Current
<1>2. /\ script \in Seq(ScriptStep) /\ Len(script) \in Nat /\ DOMAIN script = 1 .. Len(script)
      /\ \A i \in DOMAIN script : script[i] \in ScriptStep
  BY DEF SettingsIInv
<1>3. \A i \in DOMAIN script :
         script[i].settings \in Settings!Settings /\ script[i].toast \in Settings!Toast
  BY <1>2 DEF ScriptStep
<1>4. tmp => running /\ script # <<>>
  BY DEF SettingsIInv
<1> QED BY <1>1, <1>3, <1>4 DEF SettingsIInv, SettingsRest, Settings!TypeOK

\* Every step keeps them.
LEMMA SettingsTypes ==
    ASSUME SettingsIInv, SettingsRest, Settings!Next \/ UNCHANGED settingsVars
    PROVE  SettingsRest'
<1>a. MaxSessions \in Nat /\ MaxChanges \in Nat
  BY GuiAssumption
<1>b. settingsSettings \in Settings!Settings /\ settingsSettings.engines \in Settings!Preference
  BY DEF SettingsIInv, Current, Settings!Settings
<1>1. CASE UNCHANGED settingsVars
  BY <1>1 DEF settingsVars, SettingsRest
<1>2. ASSUME NEW readable \in BOOLEAN, Settings!Start(readable)
      PROVE  SettingsRest'
  <2>1. Settings!Load(readable) \in Settings!Settings
    BY Files DEF Settings!Load, SettingsIInv
  <2>2. aggregated' \in Settings!Preference
    BY <1>2, <2>1 DEF Settings!Start, Settings!Settings
  <2>3. sessions' \in 0 .. MaxSessions
    BY <1>2, <1>a DEF Settings!Start, SettingsRest
  <2>4. /\ running' = TRUE /\ save_warned' = FALSE /\ dirty' = FALSE /\ on_settings' = FALSE
        /\ UNCHANGED <<tmp, registry>> /\ settingsToast' = "none" /\ shown' = {}
        /\ origin' \in {"file", "default"} /\ settingsChanges' = 0
    BY <1>2 DEF Settings!Start
  <2>5. settingsChanges' \in 0 .. MaxChanges
    BY <1>a, <2>4
  <2>6. settingsToast' \in Settings!Toast /\ shown' \subseteq Settings!Toast
    BY <2>4 DEF Settings!Toast
  <2>7. {tmp', registry', running', save_warned', dirty', on_settings'} \subseteq BOOLEAN
    BY <2>4 DEF SettingsRest
  <2> QED BY <2>2, <2>3, <2>4, <2>5, <2>6, <2>7 DEF SettingsRest
<1>3. CASE Settings!Crash \/ \E file : Settings!OthersWrite(file) \/ Settings!CopyBackup(file)
  BY <1>3 DEF Settings!Crash, Settings!OthersWrite, Settings!CopyBackup, Settings!session,
              SettingsRest
<1>4. CASE \/ Settings!SaveRefused \/ Settings!SaveWritesTmp \/ Settings!SaveRenames
           \/ Settings!SaveFails
  BY <1>4 DEF Settings!SaveRefused, Settings!SaveWritesTmp, Settings!SaveRenames,
              Settings!SaveFails, SettingsRest, Settings!Toast
<1>5. CASE Settings!ShowToast
  <2>1. script # <<>> /\ settingsToast' = script[1].toast
    BY <1>5 DEF Settings!ShowToast, Settings!Step
  <2>2. script[1].toast \in Settings!Toast
    BY <2>1, StepDone DEF ScriptStep
  <2> QED BY <1>5, <2>1, <2>2 DEF Settings!ShowToast, SettingsRest
<1>6. ASSUME NEW steps, Settings!Handle(steps),
             registry' \in BOOLEAN, dirty' \in {dirty, TRUE}, origin' \in {origin, "backup"}
      PROVE  SettingsRest'
  <2>1. /\ settingsChanges' = settingsChanges + 1 /\ settingsChanges < MaxChanges
        /\ UNCHANGED <<tmp, running, save_warned, on_settings, aggregated, settingsToast, sessions, shown>>
    BY <1>6 DEF Settings!Handle
  <2>2. settingsChanges' \in 0 .. MaxChanges
    BY <1>a, <2>1 DEF SettingsRest
  <2> QED BY <1>6, <2>1, <2>2 DEF SettingsRest
<1>7. registry \in BOOLEAN
  BY DEF SettingsRest
<1>8. CASE \/ \E value \in Settings!Preference :
                 Settings!ApplyPreference(value) \/ Settings!ApplyAggregated(value)
           \/ Settings!ApplyResetAppearance \/ Settings!ImportSettingsBackup
           \/ \E ok \in BOOLEAN : Settings!ExportSettingsBackup(ok)
  <2>1. /\ \E steps : Settings!Handle(steps)
        /\ registry' = registry /\ dirty' \in {dirty, TRUE} /\ origin' \in {origin, "backup"}
    BY <1>8 DEF Settings!ApplyPreference, Settings!ApplyAggregated, Settings!ApplyResetAppearance,
                Settings!ImportSettingsBackup, Settings!ExportSettingsBackup
  <2> QED BY <1>6, <1>7, <2>1
<1>9. ASSUME NEW ok \in BOOLEAN, Settings!ApplyAutostart(ok)
      PROVE  SettingsRest'
  <2>1. /\ \E steps : Settings!Handle(steps)
        /\ registry' \in {registry, ~settingsSettings.autostart}
        /\ dirty' \in {dirty, TRUE} /\ origin' \in {origin, "backup"}
    BY <1>9 DEF Settings!ApplyAutostart
  <2>2. (~settingsSettings.autostart) \in BOOLEAN
    OBVIOUS
  <2> QED BY <1>6, <1>7, <2>1, <2>2
<1>10. CASE Settings!TurnPage
  <2>1. settingsChanges' \in 0 .. MaxChanges /\ on_settings' \in BOOLEAN
    BY <1>10, <1>a DEF Settings!TurnPage, SettingsRest
  <2> QED BY <1>10, <2>1 DEF Settings!TurnPage, SettingsRest
<1>11. CASE Settings!Frame
  BY <1>11, <1>b DEF Settings!Frame, SettingsRest, Settings!Toast
<1> QED
  BY <1>1, <1>2, <1>3, <1>4, <1>5, <1>8, <1>9, <1>10, <1>11 DEF Settings!Next

-----------------------------------------------------------------------------
(* The list (PanelList): its types.                                         *)

\* Visible, by the fields it looks at.
ShownBy(items, query, apps, counts) ==
    LET fits(k) ==
          /\ ~(k \in App /\ (apps = "never" \/ (apps = "asked for" /\ query = List!Blank)))
          /\ query # List!Blank => Score[query][k] > 0
        hits == {i \in DOMAIN items : fits(items[i])}
        rate(i) == IF query = List!Blank THEN 0 ELSE Score[query][items[i]]
        count(i) == counts[items[i]]
        before(i, j) == \/ rate(i) > rate(j)
                        \/ rate(i) = rate(j) /\ count(i) > count(j)
                        \/ rate(i) = rate(j) /\ count(i) = count(j) /\ i < j
        place(i) == List!Cardinality({j \in hits : before(j, i)}) + 1
    IN  [p \in 1 .. List!Cardinality(hits) |->
            [of |-> items[CHOOSE i \in hits : place(i) = p], offer |-> List!Blank]]

\* What is shown does not depend on what is selected.
LEMMA ShownAlike ==
    ASSUME NEW l, NEW m, m.items = l.items, m.query = l.query, m.apps = l.apps,
           m.usage = l.usage, m.fallback = l.fallback
    PROVE  List!Shown(m) = List!Shown(l)
<1>1. /\ List!Visible(l) = ShownBy(l.items, l.query, l.apps, l.usage)
      /\ List!Visible(m) = ShownBy(m.items, m.query, m.apps, m.usage)
  BY DEF List!Visible, List!Matches, ShownBy
<1>2. List!Visible(m) = List!Visible(l)
  BY <1>1
<1> QED BY <1>2 DEF List!Shown

\* What is shown is a sequence of rows.
LEMMA ShownRows ==
    ASSUME NEW l, ListOk(l)
    PROVE  /\ List!Shown(l) \in Seq(List!Row) /\ Len(List!Shown(l)) \in Nat
           /\ DOMAIN List!Shown(l) = 1 .. Len(List!Shown(l))
           /\ Len(List!Shown(l)) = 0 <=> List!Shown(l) = <<>>
<1> DEFINE s == List!Shown(l)
<1>1. \E n \in Nat : DOMAIN s = 1 .. n /\ s = [i \in DOMAIN s |-> s[i]]
  <2>1. CASE s = l.fallback
    <3>1. /\ l.fallback \in Seq(List!Row) /\ Len(l.fallback) \in Nat
          /\ DOMAIN l.fallback = 1 .. Len(l.fallback)
          /\ l.fallback = [i \in DOMAIN l.fallback |-> l.fallback[i]]
      BY Fields
    <3> QED BY <2>1, <3>1
  <2>2. CASE s = List!Visible(l)
    <3> DEFINE row(n) == [of |-> l.items[CHOOSE i \in Hits(l) : Place(l, i) = n],
                          offer |-> List!Blank]
    <3>1. List!Visible(l) = [n \in 1 .. Cardinality(Hits(l)) |-> row(n)]
      BY Counted DEF List!Visible, Hits, Place, Above, Before, Rating, Uses
    <3>2. Cardinality(Hits(l)) \in Nat
      <4>1. IsFiniteSet(1 .. Len(l.items)) /\ Hits(l) \subseteq 1 .. Len(l.items)
        BY Fields, Ordered, FS_Interval
      <4> QED BY <4>1, FS_Subset, FS_CardinalityType
    <3> HIDE DEF row
    <3> QED BY <2>2, <3>1, <3>2
  <2> QED BY <2>1, <2>2 DEF List!Shown
<1>2. PICK n \in Nat : DOMAIN s = 1 .. n /\ s = [i \in DOMAIN s |-> s[i]]
  BY <1>1
<1>3. \A i \in 1 .. n : s[i] \in List!Row
  BY <1>2, RowsShown
<1> HIDE DEF s
<1>4. s \in Seq(List!Row)
  <2>1. s \in [1 .. n -> List!Row]
    BY <1>2, <1>3
  <2> QED BY <2>1
<1>5. /\ Len(s) \in Nat /\ DOMAIN s = 1 .. Len(s)
      /\ Len(s) = 0 <=> s = <<>>
  BY <1>4
<1> QED BY <1>4, <1>5 DEF s

\* A list as it must be: no command twice, and a row is selected where there is
\* one.
ListGood(l) ==
    /\ ListOk(l) /\ List!NoRepeats(l.items)
    /\ l.selected \in 0 .. Len(List!Shown(l))
    /\ l.selected = 0 <=> List!Shown(l) = <<>>

\* One list with the commands and the counts of another.
Alike(l, m) == l.items = m.items /\ l.usage = m.usage

\* A selection that is clamped is a row.
LEMMA ClampedGood ==
    ASSUME NEW l, ListOk(l), List!NoRepeats(l.items)
    PROVE  ListGood(List!Clamped(l)) /\ Alike(List!Clamped(l), l)
<1> DEFINE n == Len(List!Shown(l))
           at == IF n = 0 THEN 0 ELSE IF l.selected \in 1 .. n THEN l.selected ELSE 1
           m == [l EXCEPT !.selected = at]
<1>1. List!Clamped(l) = m
  BY DEF List!Clamped
<1>2. ListOk(m)
  BY <1>1, ClampedOk
<1>3. /\ n \in Nat /\ (n = 0 <=> List!Shown(l) = <<>>)
  BY ShownRows
<1>4. at \in 0 .. n /\ (at = 0 <=> n = 0)
  BY <1>3
<1> HIDE DEF at
<1>5. /\ m.items = l.items /\ m.query = l.query /\ m.apps = l.apps
      /\ m.usage = l.usage /\ m.fallback = l.fallback /\ m.selected = at
  BY DEF ListOk
<1>6. List!Shown(m) = List!Shown(l)
  BY <1>5, ShownAlike
<1> HIDE DEF m
<1> QED BY <1>1, <1>2, <1>3, <1>4, <1>5, <1>6 DEF ListGood, Alike

\* A row that is selected is a selection.
LEMMA SelectedGood ==
    ASSUME NEW l, ListGood(l), NEW at \in DOMAIN List!Shown(l)
    PROVE  ListGood([l EXCEPT !.selected = at]) /\ Alike([l EXCEPT !.selected = at], l)
<1> DEFINE m == [l EXCEPT !.selected = at]
<1>1. ListOk(l) /\ ListOk(m)
  BY ChangedOk DEF ListGood
<1>2. /\ DOMAIN List!Shown(l) = 1 .. Len(List!Shown(l)) /\ Len(List!Shown(l)) \in Nat
      /\ Len(List!Shown(l)) = 0 <=> List!Shown(l) = <<>>
  BY <1>1, ShownRows
<1>3. /\ m.items = l.items /\ m.query = l.query /\ m.apps = l.apps
      /\ m.usage = l.usage /\ m.fallback = l.fallback /\ m.selected = at
  BY <1>1 DEF ListOk
<1>4. List!Shown(m) = List!Shown(l)
  BY <1>3, ShownAlike
<1> HIDE DEF m
<1> QED BY <1>1, <1>2, <1>3, <1>4 DEF ListGood, Alike, m

\* What changes a list leaves it as it must be.
LEMMA ChangedGood ==
    ASSUME NEW l, ListGood(l)
    PROVE  /\ \A text \in Query \cup {List!Blank} :
                 ListGood(List!SetQuery(l, text)) /\ Alike(List!SetQuery(l, text), l)
           /\ \A apps \in {"always", "asked for", "never"} :
                 ListGood(List!SetApps(l, apps)) /\ Alike(List!SetApps(l, apps), l)
           /\ \A counts \in [Command -> Nat] :
                 /\ ListGood(List!SetUsage(l, counts))
                 /\ List!SetUsage(l, counts).usage = counts
           /\ \A rows : (l.query # List!Blank => rows \in Seq(List!Row)) =>
                 ListGood(List!SetFallback(l, rows)) /\ Alike(List!SetFallback(l, rows), l)
           /\ ListGood(List!ClearFallback(l)) /\ Alike(List!ClearFallback(l), l)
           /\ ListGood(List!Reset(l)) /\ Alike(List!Reset(l), l)
<1>a. ListOk(l) /\ List!NoRepeats(l.items) /\ Alike(l, l)
  BY DEF ListGood, Alike
<1>b. <<>> \in Seq(List!Row)
  OBVIOUS
<1>1. ASSUME NEW text \in Query \cup {List!Blank}
      PROVE  ListGood(List!SetQuery(l, text)) /\ Alike(List!SetQuery(l, text), l)
  <2> DEFINE m == [l EXCEPT !.query = text]
  <2>1. ListOk(m) /\ m.items = l.items /\ m.usage = l.usage
    BY <1>a DEF ListOk
  <2> HIDE DEF m
  <2>2. ListGood(List!Clamped(m)) /\ Alike(List!Clamped(m), l)
    BY <1>a, <2>1, ClampedGood DEF Alike
  <2> QED BY <1>a, <2>2 DEF List!SetQuery, m
<1>2. ASSUME NEW apps \in {"always", "asked for", "never"}
      PROVE  ListGood(List!SetApps(l, apps)) /\ Alike(List!SetApps(l, apps), l)
  <2> DEFINE m == [l EXCEPT !.apps = apps]
  <2>1. ListOk(m) /\ m.items = l.items /\ m.usage = l.usage
    BY <1>a DEF ListOk
  <2> HIDE DEF m
  <2>2. ListGood(List!Clamped(m)) /\ Alike(List!Clamped(m), l)
    BY <1>a, <2>1, ClampedGood DEF Alike
  <2> QED BY <2>2 DEF List!SetApps, m
<1>3. ASSUME NEW counts \in [Command -> Nat]
      PROVE  ListGood(List!SetUsage(l, counts)) /\ List!SetUsage(l, counts).usage = counts
  <2> DEFINE m == [l EXCEPT !.usage = counts]
  <2>1. ListOk(m) /\ m.items = l.items /\ m.usage = counts
    BY <1>a DEF ListOk
  <2> HIDE DEF m
  <2>2. ListGood(List!Clamped(m)) /\ List!Clamped(m).usage = counts
    BY <1>a, <2>1, ClampedGood DEF Alike
  <2>3. List!SetUsage(l, counts) = IF counts = l.usage THEN l ELSE List!Clamped(m)
    BY DEF List!SetUsage, m
  <2> QED BY <1>a, <2>2, <2>3
<1>4. ASSUME NEW rows, l.query # List!Blank => rows \in Seq(List!Row)
      PROVE  ListGood(List!SetFallback(l, rows)) /\ Alike(List!SetFallback(l, rows), l)
  <2> DEFINE m == [l EXCEPT !.fallback = rows]
  <2>1. CASE l.query = List!Blank
    BY <1>a, <2>1 DEF List!SetFallback
  <2>2. CASE l.query # List!Blank
    <3>1. ListOk(m) /\ m.items = l.items /\ m.usage = l.usage
      BY <1>a, <1>4, <2>2 DEF ListOk
    <3> HIDE DEF m
    <3>2. ListGood(List!Clamped(m)) /\ Alike(List!Clamped(m), l)
      BY <1>a, <3>1, ClampedGood DEF Alike
    <3>3. List!SetFallback(l, rows) = IF rows = l.fallback THEN l ELSE List!Clamped(m)
      BY <2>2 DEF List!SetFallback, m
    <3> QED BY <1>a, <3>2, <3>3
  <2> QED BY <2>1, <2>2
<1>5. ListGood(List!ClearFallback(l)) /\ Alike(List!ClearFallback(l), l)
  <2> DEFINE m == [l EXCEPT !.fallback = <<>>]
  <2>1. ListOk(m) /\ m.items = l.items /\ m.usage = l.usage
    BY <1>a, <1>b DEF ListOk
  <2> HIDE DEF m
  <2>2. ListGood(List!Clamped(m)) /\ Alike(List!Clamped(m), l)
    BY <1>a, <2>1, ClampedGood DEF Alike
  <2> QED BY <2>2 DEF List!ClearFallback, m
<1>6. ListGood(List!Reset(l)) /\ Alike(List!Reset(l), l)
  <2> DEFINE m == [l EXCEPT !.query = List!Blank, !.fallback = <<>>, !.selected = 1]
  <2>1. ListOk(m) /\ m.items = l.items /\ m.usage = l.usage
    BY <1>a, <1>b DEF ListOk
  <2> HIDE DEF m
  <2>2. ListGood(List!Clamped(m)) /\ Alike(List!Clamped(m), l)
    BY <1>a, <2>1, ClampedGood DEF Alike
  <2> QED BY <2>2 DEF List!Reset, m
<1> QED BY <1>1, <1>2, <1>3, <1>4, <1>5, <1>6

\* A new list is as it must be.
LEMMA NewListGood ==
    ASSUME NEW items \in Seq(Command), List!NoRepeats(items)
    PROVE  ListGood(List!NewList(items)) /\ List!NewList(items).items = items
<1> DEFINE l == [items |-> items, query |-> List!Blank, apps |-> "always", fallback |-> <<>>,
                 usage |-> List!NoUses, selected |-> 0]
<1>1. List!NoUses \in [Command -> Nat] /\ <<>> \in Seq(List!Row)
  BY DEF List!NoUses
<1>2. ListOk(l) /\ l.items = items
  BY <1>1 DEF ListOk
<1>3. List!NewList(items) = List!Clamped(l)
  BY DEF List!NewList
<1> HIDE DEF l
<1> QED BY <1>2, <1>3, ClampedGood DEF Alike

\* The list and the round, as they must be.
ListRest ==
    /\ ListGood(list) /\ list.usage = usage
    /\ usage \in [Command -> 0 .. MaxUse]
    /\ List!NoRepeats(ready)
    /\ List!NoRepeats(arrived) /\ \A i \in DOMAIN arrived : arrived[i][1] \in came
    /\ came \subseteq Ext /\ aggregating \in BOOLEAN
    /\ menu = List!NoMenu \/ menu.at > 0
    /\ frame \in {"drawn", "polled", "keyed"}
    /\ did \in {"nothing", "what was meant", "a namesake", "another row", "another text"}

\* With it, the list has its types.
LEMMA ListWhole == ListIInv /\ ListRest => List!TypeOK
<1> SUFFICES ASSUME ListIInv, ListRest PROVE List!TypeOK
  OBVIOUS
<1>1. list.query \in Query \cup {List!Blank} /\ list.apps \in {"always", "asked for", "never"}
  BY DEF ListIInv, ListOk
<1>2. list.items \in Seq(Command) /\ list.fallback \in Seq(List!Row)
  BY Fields DEF ListIInv
<1>3. menu = List!NoMenu \/ (menu.at > 0 /\ menu.row \in List!Row)
  BY DEF ListIInv, ListRest
<1> QED
  BY <1>1, <1>2, <1>3 DEF ListIInv, ListRest, ListGood, List!TypeOK

\* rebuild_root_from_arrived leaves a list as it must be.
LEMMA RebuiltGood ==
    ASSUME ListIInv, ListRest, NEW items \in Seq(Command), List!NoRepeats(items)
    PROVE  ListGood(List!Rebuilt(items)) /\ List!Rebuilt(items).usage = usage
<1> DEFINE l1 == List!NewList(items)
           l2 == List!SetQuery(l1, list.query)
           l == List!SetApps(l2, list.apps)
           k == List!Shown(list)[list.selected].of
           at == {i \in DOMAIN List!Shown(l) : List!Shown(l)[i].of = k}
           first == CHOOSE i \in at : \A j \in at : i <= j
           kept == IF list.selected = 0 THEN l ELSE List!SelectByIdentity(l, k)
<1>1. list.query \in Query \cup {List!Blank} /\ list.apps \in {"always", "asked for", "never"}
  BY DEF ListIInv, ListOk
<1>2. ListGood(l1)
  BY NewListGood
<1> HIDE DEF l1
<1>3. ListGood(l2)
  BY <1>1, <1>2, ChangedGood
<1> HIDE DEF l2
<1>4. ListGood(l)
  BY <1>1, <1>3, ChangedGood
<1> HIDE DEF l, k
<1>5. at # {} => first \in at
  <2> SUFFICES ASSUME at # {} PROVE first \in at
    OBVIOUS
  <2>1. at \subseteq Nat
    BY <1>4, ShownRows DEF ListGood
  <2> HIDE DEF at
  <2>2. \E i \in at : \A j \in at : i <= j
    BY <2>1, LeastNat
  <2> QED BY <2>2
<1>6. List!SelectByIdentity(l, k) = IF at = {} THEN l ELSE [l EXCEPT !.selected = first]
  BY DEF List!SelectByIdentity
<1>7. at \subseteq DOMAIN List!Shown(l)
  OBVIOUS
<1> HIDE DEF at, first
<1>8. ListGood(List!SelectByIdentity(l, k))
  BY <1>4, <1>5, <1>6, <1>7, SelectedGood
<1>9. ListGood(kept)
  BY <1>4, <1>8
<1> HIDE DEF kept
<1>10. ListGood(List!SetUsage(kept, usage)) /\ List!SetUsage(kept, usage).usage = usage
  BY <1>9, ChangedGood DEF ListIInv
<1> QED BY <1>10 DEF List!Rebuilt, kept, k, l, l2, l1

\* sync_fallback leaves it so.
LEMMA SyncedGood ==
    ASSUME ListIInv, NEW l, ListGood(l)
    PROVE  ListGood(List!Synced(l)) /\ Alike(List!Synced(l), l)
<1>1. List!Synced(l) \in {l, List!ClearFallback(l), List!SetFallback(l, List!Render(l.query))}
  BY DEF List!Synced
<1>2. l.query # List!Blank => List!Render(l.query) \in Seq(List!Row)
  BY Fields, OffersAreRows DEF List!Render, ListIInv, ListGood
<1>3. Alike(l, l)
  BY DEF Alike
<1> QED BY <1>1, <1>2, <1>3, ChangedGood

\* A use is counted up to the bound.
LEMMA CountedGood ==
    ASSUME ListRest, NEW row
    PROVE  List!Counted(row) \in [Command -> 0 .. MaxUse]
<1>1. MaxUse \in Nat
  BY GuiAssumption
<1>2. CASE row.of \in Command /\ usage[row.of] < MaxUse
  <2>1. usage[row.of] \in 0 .. MaxUse
    BY <1>2 DEF ListRest
  <2>2. usage[row.of] + 1 \in 0 .. MaxUse
    BY <1>1, <1>2, <2>1
  <2> QED BY <1>2, <2>2 DEF List!Counted, ListRest
<1>3. CASE ~(row.of \in Command /\ usage[row.of] < MaxUse)
  BY <1>3 DEF List!Counted, ListRest
<1> QED BY <1>2, <1>3

\* record_usage.
LEMMA RecordedGood ==
    ASSUME ListRest, NEW row, NEW l, ListGood(l), List!Recorded(row, l)
    PROVE  /\ usage' \in [Command -> 0 .. MaxUse]
           /\ ListGood(list') /\ list'.usage = usage'
<1>1. usage' = List!Counted(row) /\ list' = List!SetUsage(l, usage')
  BY DEF List!Recorded
<1>2. usage' \in [Command -> 0 .. MaxUse]
  BY <1>1, CountedGood
<1>3. usage' \in [Command -> Nat]
  <2>1. 0 .. MaxUse \subseteq Nat
    BY GuiAssumption
  <2> QED BY <1>2, <2>1
<1> QED BY <1>1, <1>2, <1>3, ChangedGood

\* What arrives in a round is not there yet.
LEMMA ArrivalsKeepRest ==
    ASSUME ListIInv, ListRest, NEW e \in Ext, NEW brought \in List!Offers(e),
           List!Arrive(e, brought)
    PROVE  ListRest'
<1> DEFINE own == {k \in Command : k[1] = e}
           both == arrived \o brought
<1>1. /\ frame' = "polled" /\ e \notin came /\ came' = came \cup {e} /\ arrived' = both
      /\ list' = List!Rebuilt(arrived') /\ UNCHANGED <<usage, ready, aggregating, menu, did>>
  BY DEF List!Arrive, List!Polling
<1>2. IsFiniteSet(own) /\ Cardinality(own) \in Nat
  <2>1. IsFiniteSet(own)
    BY Commands, FS_Subset
  <2> QED BY <2>1, FS_CardinalityType
<1>3. PICK n \in 0 .. Cardinality(own) : brought \in [1 .. n -> own]
  BY Counted DEF List!Offers
<1>4. List!NoRepeats(brought)
  BY DEF List!Offers
<1>5. n \in Nat /\ brought \in Seq(Command) /\ Len(brought) = n /\ DOMAIN brought = 1 .. n
      /\ \A i \in 1 .. n : brought[i][1] = e
  <2>1. n \in Nat /\ brought \in [1 .. n -> Command] /\ \A i \in 1 .. n : brought[i][1] = e
    BY <1>2, <1>3
  <2> QED BY <2>1
<1>6. arrived \in Seq(Command) /\ Len(arrived) \in Nat /\ DOMAIN arrived = 1 .. Len(arrived)
  BY DEF ListIInv
<1>7. /\ both \in Seq(Command) /\ DOMAIN both = 1 .. Len(arrived) + n
      /\ \A i \in DOMAIN both : IF i <= Len(arrived) THEN both[i] = arrived[i]
                                ELSE both[i] = brought[i - Len(arrived)]
  BY <1>5, <1>6
<1>8. \A i \in DOMAIN both : \/ i \in DOMAIN arrived /\ both[i] = arrived[i]
                             \/ i - Len(arrived) \in 1 .. n /\ both[i] = brought[i - Len(arrived)]
  BY <1>5, <1>6, <1>7
<1> HIDE DEF both
<1>9. \A i \in DOMAIN both : both[i][1] \in came' /\ (both[i][1] = e <=> i \notin DOMAIN arrived)
  <2> SUFFICES ASSUME NEW i \in DOMAIN both
               PROVE  both[i][1] \in came' /\ (both[i][1] = e <=> i \notin DOMAIN arrived)
    OBVIOUS
  <2>1. CASE i \in DOMAIN arrived
    <3>1. both[i] = arrived[i]
      BY <1>6, <1>7, <2>1
    <3>2. arrived[i][1] \in came
      BY <2>1 DEF ListRest
    <3> QED BY <1>1, <2>1, <3>1, <3>2
  <2>2. CASE i \notin DOMAIN arrived
    <3>1. i - Len(arrived) \in 1 .. n /\ both[i] = brought[i - Len(arrived)]
      BY <1>8, <2>2
    <3>2. both[i][1] = e
      BY <1>5, <3>1
    <3> QED BY <1>1, <2>2, <3>2
  <2> QED BY <2>1, <2>2
<1>10. List!NoRepeats(both)
  <2> SUFFICES ASSUME NEW i \in DOMAIN both, NEW j \in DOMAIN both, both[i] = both[j]
               PROVE  i = j
    BY DEF List!NoRepeats
  <2>0. both[i] = both[j]
    OBVIOUS
  <2>1. CASE i \in DOMAIN arrived
    <3>1. j \in DOMAIN arrived
      BY <1>9, <2>1
    <3>2. both[i] = arrived[i] /\ both[j] = arrived[j]
      BY <1>6, <1>7, <2>1, <3>1
    <3>3. arrived[i] = arrived[j]
      BY <2>0, <3>2
    <3> QED BY <2>1, <3>1, <3>3 DEF ListRest, List!NoRepeats
  <2>2. CASE i \notin DOMAIN arrived
    <3>1. j \notin DOMAIN arrived
      BY <1>9, <2>2
    <3>2. /\ i - Len(arrived) \in DOMAIN brought /\ j - Len(arrived) \in DOMAIN brought
          /\ brought[i - Len(arrived)] = brought[j - Len(arrived)]
      BY <1>5, <1>8, <2>2, <3>1
    <3>3. i - Len(arrived) = j - Len(arrived)
      BY <1>4, <3>2 DEF List!NoRepeats
    <3> QED BY <1>5, <1>6, <1>7, <3>3
  <2> QED BY <2>1, <2>2
<1>11. ListGood(list') /\ list'.usage = usage'
  BY <1>1, <1>7, <1>10, RebuiltGood
<1> QED BY <1>1, <1>9, <1>10, <1>11 DEF ListRest

\* Every step keeps the list and the round so.
LEMMA ListTypes ==
    ASSUME ListIInv, ListRest, List!Next \/ UNCHANGED listVars
    PROVE  ListRest'
<1>a. ListGood(list) /\ list.usage = usage
  BY DEF ListRest
<1>b. /\ \A s, t : Alike(s, t) => s.usage = t.usage
      /\ list' = list => ListGood(list')
  BY <1>a DEF Alike
<1>c. <<>> \in Seq(Command) /\ List!NoRepeats(<<>>) /\ \A i \in DOMAIN <<>> : <<>>[i][1] \in {}
  BY DEF List!NoRepeats
<1>1. CASE UNCHANGED listVars
  <2>1. UNCHANGED <<list, usage, ready, arrived, came, aggregating, menu, frame, did>>
    BY <1>1 DEF listVars
  <2> QED BY <2>1, <1>a, <1>b DEF ListRest
<1>2. ASSUME NEW e \in Ext, List!TemplatesArrive(e)
      PROVE  ListRest'
  <2> DEFINE rows == [i \in DOMAIN ready' |-> [of |-> List!Offered(ready'[i]), offer |-> list.query]]
  <2>1. /\ ready' = Append(ready, e) /\ \A i \in DOMAIN ready : ready[i] # e
        /\ list' = list \/ list' = List!SetFallback(list, rows)
        /\ UNCHANGED <<usage, arrived, came, aggregating, menu, did>> /\ frame' = "polled"
    BY <1>2 DEF List!TemplatesArrive, List!Polling
  <2>2. ready' \in Seq(Ext)
    BY <2>1 DEF ListIInv
  <2>3. list.query # List!Blank => rows \in Seq(List!Row)
    BY <2>2, Fields, OffersAreRows DEF ListIInv
  <2> HIDE DEF rows
  <2>4. ListGood(list') /\ list'.usage = usage
    <3> DEFINE new == List!SetFallback(list, rows)
    <3>1. ListGood(new) /\ Alike(new, list)
      BY <2>3, <1>a, ChangedGood
    <3>2. list' = list \/ list' = new
      BY <2>1
    <3> HIDE DEF new
    <3> QED BY <3>1, <3>2, <1>a, <1>b
  <2>5. List!NoRepeats(ready')
    <3>1. ready \in Seq(Ext) /\ List!NoRepeats(ready)
      BY DEF ListIInv, ListRest
    <3>2. /\ DOMAIN ready' = DOMAIN ready \cup {Len(ready) + 1} /\ ready'[Len(ready) + 1] = e
          /\ Len(ready) + 1 \notin DOMAIN ready
          /\ \A i \in DOMAIN ready : ready'[i] = ready[i]
      BY <2>1, <3>1
    <3> QED BY <2>1, <3>1, <3>2 DEF List!NoRepeats
  <2> QED BY <2>1, <2>4, <2>5 DEF ListRest
<1>3. CASE List!Done
  <2>1. /\ came' = {} /\ arrived' = <<>> /\ aggregating' = FALSE /\ frame' = "polled"
        /\ UNCHANGED <<list, usage, ready, menu, did>>
    BY <1>3 DEF List!Done, List!Polling
  <2> QED BY <2>1, <1>a, <1>b, <1>c DEF ListRest
<1>4. ASSUME NEW i \in 1 .. List!Cardinality(Command), List!Select(i) \/ List!OpenMenu(i)
      PROVE  ListRest'
  <2>1. /\ list' = [list EXCEPT !.selected = i] /\ i \in DOMAIN List!Shown(list)
        /\ UNCHANGED <<usage, ready, arrived, came, aggregating, did>> /\ frame' = "keyed"
        /\ menu' = menu \/ menu'.at = i
    BY <1>4 DEF List!Select, List!OpenMenu, List!Keying
  <2>2. ListGood(list') /\ list'.usage = usage
    BY <2>1, <1>a, <1>b, SelectedGood
  <2>3. i > 0
    OBVIOUS
  <2> QED BY <2>1, <2>2, <2>3 DEF ListRest
<1>5. CASE List!Confirm
  <2>1. /\ List!Recorded(List!Shown(list)[list.selected], list) /\ frame' = "keyed"
        /\ did' \in {"what was meant", "another text"}
        /\ UNCHANGED <<ready, arrived, came, aggregating, menu>>
    BY <1>5 DEF List!Confirm, List!Keying
  <2>2. usage' \in [Command -> 0 .. MaxUse] /\ ListGood(list') /\ list'.usage = usage'
    BY <2>1, <1>a, RecordedGood
  <2> QED BY <2>1, <2>2 DEF ListRest
<1>6. CASE List!HideAndShow
  <2>1. /\ list' = List!Reset(list) /\ menu' = List!NoMenu /\ frame' = "keyed"
        /\ UNCHANGED <<usage, ready, arrived, came, aggregating, did>>
    BY <1>6 DEF List!HideAndShow, List!Keying
  <2>2. ListGood(list') /\ list'.usage = usage
    BY <2>1, <1>a, <1>b, ChangedGood
  <2> QED BY <2>1, <2>2 DEF ListRest
<1>7. CASE List!Settings
  <2>0. UNCHANGED <<menu, did>> /\ frame' = "keyed"
    BY <1>7 DEF List!Settings, List!Keying
  <2>1. ASSUME NEW apps \in {"always", "asked for", "never"}, list' = List!SetApps(list, apps),
               UNCHANGED <<usage, ready, arrived, came, aggregating>>
        PROVE  ListRest'
    <3>1. ListGood(list') /\ list'.usage = usage
      BY <2>1, <1>a, <1>b, ChangedGood
    <3> QED BY <2>0, <2>1, <3>1 DEF ListRest
  <2>2. CASE /\ ready' = <<>> /\ arrived' = <<>> /\ came' = {} /\ aggregating' = TRUE
             /\ UNCHANGED <<list, usage>>
    BY <2>0, <2>2, <1>a, <1>b, <1>c DEF ListRest
  <2>3. CASE /\ usage' = List!NoUses /\ list' = List!SetUsage(list, usage')
             /\ UNCHANGED <<ready, arrived, came, aggregating>>
    <3>1. usage' \in [Command -> Nat] /\ usage' \in [Command -> 0 .. MaxUse]
      BY <2>3, GuiAssumption DEF List!NoUses
    <3>2. ListGood(list') /\ list'.usage = usage'
      BY <2>3, <3>1, <1>a, ChangedGood
    <3> QED BY <2>0, <2>3, <3>1, <3>2 DEF ListRest
  <2> QED BY <1>7, <2>1, <2>2, <2>3 DEF List!Settings
<1>8. ASSUME NEW default \in BOOLEAN, List!Activate(default)
      PROVE  ListRest'
  <2> DEFINE there == List!Shown(list)[menu.at]
  <2>1. /\ menu' = List!NoMenu /\ UNCHANGED <<ready, arrived, came, aggregating>> /\ frame' = "keyed"
        /\ did' = did \/ did' = List!ActsOn(there)
        /\ \/ UNCHANGED <<list, usage>>
           \/ /\ menu.at \in DOMAIN List!Shown(list)
              /\ List!Recorded(there, [list EXCEPT !.selected = menu.at])
    BY <1>8 DEF List!Activate, List!Keying
  <2>3. List!ActsOn(there) \in {"what was meant", "a namesake", "another row"}
    <3> HIDE DEF there
    <3> QED BY DEF List!ActsOn
  <2>2. usage' \in [Command -> 0 .. MaxUse] /\ ListGood(list') /\ list'.usage = usage'
    <3>1. CASE UNCHANGED <<list, usage>>
      BY <3>1, <1>a, <1>b DEF ListRest
    <3>2. CASE /\ menu.at \in DOMAIN List!Shown(list)
               /\ List!Recorded(there, [list EXCEPT !.selected = menu.at])
      <4> DEFINE l == [list EXCEPT !.selected = menu.at]
      <4>1. ListGood(l)
        BY <3>2, <1>a, SelectedGood
      <4>2. List!Recorded(there, l)
        BY <3>2
      <4> HIDE DEF there, l
      <4> QED BY <4>1, <4>2, RecordedGood
    <3> QED BY <2>1, <3>1, <3>2
  <2> QED BY <2>1, <2>2, <2>3 DEF ListRest
<1>9. ASSUME NEW text \in Query \cup {List!Blank}, List!Draw(text)
      PROVE  ListRest'
  <2> DEFINE l == List!SetQuery(list, text)
  <2>1. /\ list' = List!Synced(l) /\ frame' = "drawn"
        /\ UNCHANGED <<usage, ready, arrived, came, aggregating, menu, did>>
    BY <1>9 DEF List!Draw
  <2>2. ListGood(l) /\ l.usage = usage
    BY <1>a, <1>b, ChangedGood
  <2> HIDE DEF l
  <2>3. ListGood(list') /\ list'.usage = usage
    BY <2>1, <2>2, <1>b, SyncedGood
  <2> QED BY <2>1, <2>3 DEF ListRest
<1> QED
  BY <1>1, <1>2, <1>3, <1>4, <1>5, <1>6, <1>7, <1>8, <1>9, ArrivalsKeepRest DEF List!Next

\* The list is so at first.
LEMMA ListRestInit == List!Init => ListRest
<1> SUFFICES ASSUME List!Init PROVE ListRest
  OBVIOUS
<1>1. <<>> \in Seq(Command) /\ List!NoRepeats(<<>>)
  BY DEF List!NoRepeats
<1>2. ListGood(List!NewList(<<>>))
  BY <1>1, NewListGood
<1>3. List!NewList(<<>>).usage = List!NoUses
  BY DEF List!NewList, List!Clamped
<1>4. usage \in [Command -> 0 .. MaxUse] /\ usage = List!NoUses
  BY GuiAssumption DEF List!Init, List!NoUses
<1> QED BY <1>1, <1>2, <1>3, <1>4 DEF List!Init, ListRest

-----------------------------------------------------------------------------
(* The recorder's hook (CaptureHook): its types.                            *)

\* The dialog, the statics and the threads: no thread runs that no dialog has
\* started.
HookRest ==
    /\ session \in 0 .. Sessions
    /\ hookDialog \in [open : BOOLEAN, rx : 0 .. session, guard : BOOLEAN, failed : BOOLEAN,
                       pending : BOOLEAN]
    /\ hookDialog.guard => hookDialog.open
    /\ {threadId, captureTx} \subseteq 0 .. session
    /\ hit \in BOOLEAN /\ echo \in BOOLEAN
    /\ hookPc \in [Hook!Session -> {"unused", "started", "named", "armed", "echo", "pump",
                                    "clear", "gone"}]
    /\ quit \subseteq Hook!Session
    /\ \A s \in Hook!Session : hookPc[s] # "unused" => s <= session

\* The installed hooks: one for a thread, that waits for the echo or pumps.
Chained(hs, at) ==
    /\ hs \in Seq(Hook!Session)
    /\ \A i, j \in DOMAIN hs : hs[i] = hs[j] => i = j
    /\ \A i \in DOMAIN hs : at[hs[i]] \in {"echo", "pump"}

\* The threads that have told the dialog how the installation went: each does so
\* once, though it may be the dialog of another that hears it.
Reported(at) == {s \in Hook!Session : at[s] \in {"pump", "clear", "gone"}}
Noise == {"Cancel", "Ready", "Failed", "Combo"}
Heard(to, n) ==
    /\ to \in [Hook!Session -> Seq(Noise)]
    /\ \A s \in Hook!Session : Len(to[s]) <= n

HookIInv ==
    /\ HookRest /\ Chained(hooks, hookPc)
    /\ Heard(chan, Unread + Cardinality(Reported(hookPc)))

\* How many have told is a number, of the sessions at most.
LEMMA ReportedSome ==
    ASSUME NEW at
    PROVE  /\ IsFiniteSet(Reported(at)) /\ Cardinality(Reported(at)) \in Nat
           /\ Cardinality(Reported(at)) <= Sessions
<1>1. Sessions \in Nat
  BY GuiAssumption
<1>2. IsFiniteSet(Hook!Session) /\ Cardinality(Hook!Session) = Sessions
  BY <1>1, FS_Interval DEF Hook!Session
<1>3. Reported(at) \subseteq Hook!Session
  BY DEF Reported
<1>4. IsFiniteSet(Reported(at)) /\ Cardinality(Reported(at)) <= Cardinality(Hook!Session)
  BY <1>2, <1>3, FS_Subset
<1> QED BY <1>2, <1>4, FS_CardinalityType

\* One more has told.
LEMMA ReportedOneMore ==
    ASSUME NEW at, NEW s \in Hook!Session, s \notin Reported(at), NEW after,
           Reported(after) = Reported(at) \cup {s}
    PROVE  Cardinality(Reported(after)) = Cardinality(Reported(at)) + 1
  BY ReportedSome, FS_AddElement

\* With it the hook has its types.
LEMMA HookWhole == HookIInv => Hook!TypeOK
<1> SUFFICES ASSUME HookIInv PROVE Hook!TypeOK
  OBVIOUS
<1>1. Unread \in Nat /\ Sessions \in Nat
  BY GuiAssumption
<1>2. ASSUME NEW s \in Hook!Session PROVE Len(chan[s]) <= Unread + Sessions
  <2>1. Len(chan[s]) \in Nat /\ Len(chan[s]) <= Unread + Cardinality(Reported(hookPc))
    BY DEF HookIInv, Heard
  <2> QED BY <1>1, <2>1, ReportedSome
<1>3. Hook!ToSet(hooks) \subseteq {s \in Hook!Session : hookPc[s] \in {"echo", "pump"}}
  <2>1. \A i \in DOMAIN hooks : hooks[i] \in Hook!Session /\ hookPc[hooks[i]] \in {"echo", "pump"}
    BY DEF HookIInv, Chained
  <2> QED BY <2>1 DEF Hook!ToSet
<1> QED BY <1>2, <1>3 DEF HookIInv, HookRest, Hook!TypeOK

\* Something is told.
LEMMA TellsOne ==
    ASSUME NEW n \in Int, Heard(chan, n), NEW e \in Noise, Hook!Tell(e), captureTx \in 0 .. Sessions
    PROVE  Heard(chan', n + 1)
<1>1. Sessions \in Nat
  BY GuiAssumption
<1>2. CASE captureTx = 0
  <2>1. chan' = chan
    BY <1>2 DEF Hook!Tell
  <2>2. ASSUME NEW s \in Hook!Session PROVE Len(chan[s]) <= n + 1
    <3>1. Len(chan[s]) \in Nat /\ Len(chan[s]) <= n
      BY DEF Heard
    <3> QED BY <3>1
  <2> QED BY <2>1, <2>2 DEF Heard
<1>3. CASE captureTx # 0
  <2>1. captureTx \in Hook!Session
    BY <1>1, <1>3 DEF Hook!Session
  <2>2. chan' = [chan EXCEPT ![captureTx] = Append(chan[captureTx], e)]
    BY <1>3 DEF Hook!Tell
  <2>3. /\ chan[captureTx] \in Seq(Noise) /\ Len(chan[captureTx]) <= n
        /\ Len(chan[captureTx]) \in Nat
    BY <2>1 DEF Heard
  <2>4. /\ Append(chan[captureTx], e) \in Seq(Noise)
        /\ Len(Append(chan[captureTx], e)) <= n + 1
    BY <2>3
  <2>5. chan' \in [Hook!Session -> Seq(Noise)]
    BY <2>1, <2>2, <2>4 DEF Heard
  <2>6. ASSUME NEW s \in Hook!Session PROVE Len(chan'[s]) <= n + 1
    <3>1. CASE s = captureTx
      BY <2>1, <2>2, <2>4, <3>1 DEF Heard
    <3>2. CASE s # captureTx
      <4>1. chan'[s] = chan[s] /\ Len(chan[s]) <= n /\ Len(chan[s]) \in Nat
        BY <2>2, <3>2 DEF Heard
      <4> QED BY <4>1
    <3> QED BY <3>1, <3>2
  <2> QED BY <2>5, <2>6 DEF Heard
<1> QED BY <1>2, <1>3

\* A hook is removed: the others stay as they were.
LEMMA UnhookedOk ==
    ASSUME Chained(hooks, hookPc), NEW s
    PROVE  /\ Chained(Hook!Unhook(s), hookPc)
           /\ \A i \in DOMAIN Hook!Unhook(s) : Hook!Unhook(s)[i] # s
<1> DEFINE at == {i \in DOMAIN hooks : hooks[i] = s}
           k == CHOOSE i \in at : TRUE
           n == Len(hooks)
<1>1. hooks \in Seq(Hook!Session) /\ n \in Nat /\ DOMAIN hooks = 1 .. n
      /\ \A i \in 1 .. n : hooks[i] \in Hook!Session
  BY DEF Chained
<1>2. CASE at = {}
  <2>1. Hook!Unhook(s) = hooks
    BY <1>2 DEF Hook!Unhook
  <2> QED BY <1>2, <2>1
<1>3. CASE at # {}
  <2>1. k \in at
    BY <1>3
  <2>2. k \in 1 .. n /\ hooks[k] = s
    BY <1>1, <2>1
  <2>3. Hook!Unhook(s) = SubSeq(hooks, 1, k - 1) \o SubSeq(hooks, k + 1, n)
    BY <1>3 DEF Hook!Unhook, Hook!RemoveAt
  <2> HIDE DEF at, k, n
  <2> DEFINE left == SubSeq(hooks, 1, k - 1)
             right == SubSeq(hooks, k + 1, n)
             g == left \o right
  <2>4. /\ left \in Seq(Hook!Session) /\ Len(left) = k - 1
        /\ \A i \in 1 .. k - 1 : left[i] = hooks[i]
    BY <1>1, <2>2 DEF n
  <2>5. /\ right \in Seq(Hook!Session) /\ Len(right) = n - k
        /\ \A i \in 1 .. n - k : right[i] = hooks[i + k]
    <3>1. k + 1 \in Nat /\ k + 1 >= 1 /\ n = Len(hooks) /\ n - (k + 1) + 1 = n - k
      BY <1>1, <2>2 DEF n
    <3>2. right \in [1 .. n - k -> Hook!Session]
          /\ right = [i \in 1 .. n - k |-> hooks[i + k]]
      <4>1. right = [i \in 1 .. n - (k + 1) + 1 |-> hooks[i + (k + 1) - 1]]
        BY <1>1, <2>2, <3>1
      <4>2. \A i \in 1 .. n - k : i + (k + 1) - 1 = i + k /\ i + k \in 1 .. n
        BY <1>1, <2>2
      <4> HIDE DEF right
      <4>3. right = [i \in 1 .. n - k |-> hooks[i + k]]
        BY <3>1, <4>1, <4>2
      <4> QED BY <1>1, <4>2, <4>3
    <3> HIDE DEF right
    <3>3. n - k \in Nat
      BY <1>1, <2>2
    <3>4. right \in Seq(Hook!Session) /\ Len(right) = n - k
      BY <3>2, <3>3
    <3> QED BY <3>2, <3>4
  <2> HIDE DEF left, right
  <2>6. g \in Seq(Hook!Session) /\ Len(g) = n - 1 /\ DOMAIN g = 1 .. n - 1
    BY <1>1, <2>2, <2>4, <2>5
  <2>7. ASSUME NEW i \in 1 .. n - 1
        PROVE  g[i] = hooks[IF i < k THEN i ELSE i + 1]
    <3>1. CASE i < k
      BY <1>1, <2>2, <2>4, <2>5, <3>1
    <3>2. CASE ~(i < k)
      <4>1. g[i] = right[i - (k - 1)] /\ i - (k - 1) \in 1 .. n - k
        BY <1>1, <2>2, <2>4, <2>5, <3>2
      <4>2. right[i - (k - 1)] = hooks[(i - (k - 1)) + k]
        BY <2>5, <4>1
      <4>3. (i - (k - 1)) + k = i + 1
        BY <1>1, <2>2
      <4> QED BY <3>2, <4>1, <4>2, <4>3
    <3> QED BY <3>1, <3>2
  <2>8. g = Hook!Unhook(s)
    BY <2>3 DEF left, right
  <2> HIDE DEF g
  <2>9. \A i \in 1 .. n - 1 : (IF i < k THEN i ELSE i + 1) \in (1 .. n) \ {k}
    BY <1>1, <2>2
  <2>10. \A i, j \in 1 .. n : hooks[i] = hooks[j] => i = j
    BY <1>1 DEF Chained
  <2>11. ASSUME NEW i \in 1 .. n - 1, NEW j \in 1 .. n - 1, g[i] = g[j] PROVE i = j
    <3>1. hooks[IF i < k THEN i ELSE i + 1] = hooks[IF j < k THEN j ELSE j + 1]
      BY <2>7, <2>11
    <3>2. (IF i < k THEN i ELSE i + 1) = (IF j < k THEN j ELSE j + 1)
      BY <2>9, <2>10, <3>1
    <3> QED BY <1>1, <2>2, <3>2
  <2>12. ASSUME NEW i \in 1 .. n - 1 PROVE hookPc[g[i]] \in {"echo", "pump"} /\ g[i] # s
    <3>1. g[i] = hooks[IF i < k THEN i ELSE i + 1]
      BY <2>7
    <3> QED BY <1>1, <2>2, <2>9, <2>10, <3>1 DEF Chained
  <2> QED BY <2>6, <2>8, <2>11, <2>12 DEF Chained
<1> QED BY <1>2, <1>3

\* More may have been heard than was.
LEMMA HeardMore ==
    ASSUME NEW to, NEW n \in Int, NEW m \in Int, n <= m, Heard(to, n)
    PROVE  Heard(to, m)
<1> SUFFICES ASSUME NEW s \in Hook!Session PROVE Len(to[s]) <= m
  BY DEF Heard
<1>1. Len(to[s]) \in Nat /\ Len(to[s]) <= n
  BY DEF Heard
<1> QED BY <1>1

\* The hooks that are left below the one that swallows a key.
LEMMA SuffixOk ==
    ASSUME NEW hs, NEW at, Chained(hs, at), NEW m \in 0 .. Len(hs)
    PROVE  Chained(SubSeq(hs, m + 1, Len(hs)), at)
<1> DEFINE n == Len(hs)
           g == SubSeq(hs, m + 1, n)
<1>1. hs \in Seq(Hook!Session) /\ n \in Nat /\ DOMAIN hs = 1 .. n /\ m \in Nat /\ m <= n
      /\ \A i \in 1 .. n : hs[i] \in Hook!Session
  BY DEF Chained
<1>2. n - (m + 1) + 1 = n - m /\ n - m \in Nat
  BY <1>1
<1>3. g = [i \in 1 .. n - (m + 1) + 1 |-> hs[i + (m + 1) - 1]]
  BY <1>1
<1>4. \A i \in 1 .. n - m : i + (m + 1) - 1 = i + m /\ i + m \in 1 .. n
  BY <1>1
<1> HIDE DEF g, n
<1>5. g = [i \in 1 .. n - m |-> hs[i + m]]
  BY <1>2, <1>3, <1>4
<1>6. g \in [1 .. n - m -> Hook!Session]
  BY <1>1, <1>4, <1>5
<1>7. g \in Seq(Hook!Session) /\ DOMAIN g = 1 .. n - m
  <2> DEFINE w == n - m
  <2>1. w \in Nat /\ g \in [1 .. w -> Hook!Session]
    BY <1>2, <1>6
  <2> HIDE DEF w
  <2>2. g \in Seq(Hook!Session) /\ DOMAIN g = 1 .. w
    BY <2>1
  <2> QED BY <2>2 DEF w
<1>8. \A i, j \in 1 .. n : hs[i] = hs[j] => i = j
  BY <1>1 DEF Chained
<1>9. ASSUME NEW i \in 1 .. n - m, NEW j \in 1 .. n - m, g[i] = g[j] PROVE i = j
  <2>1. hs[i + m] = hs[j + m]
    BY <1>5, <1>9
  <2>2. i + m = j + m
    BY <1>4, <1>8, <2>1
  <2> QED BY <1>1, <2>2
<1>10. ASSUME NEW i \in 1 .. n - m PROVE at[g[i]] \in {"echo", "pump"}
  <2>1. g[i] = hs[i + m] /\ i + m \in DOMAIN hs
    BY <1>1, <1>4, <1>5
  <2> QED BY <2>1 DEF Chained
<1>11. Chained(g, at)
  BY <1>7, <1>9, <1>10 DEF Chained
<1> QED BY <1>11 DEF g, n

\* A key or the echo goes down the chain.
LEMMA LeftOk ==
    ASSUME Chained(hooks, hookPc)
    PROVE  Chained(Hook!LeftHooks, hookPc)
<1> DEFINE n == Len(hooks)
           k == CHOOSE i \in DOMAIN hooks : hooks[i] = threadId
<1>1. hooks \in Seq(Hook!Session) /\ n \in Nat /\ DOMAIN hooks = 1 .. n
  BY DEF Chained
<1>2. Len(Hook!Passing) \in 0 .. n
  <2>1. CASE \E h \in Hook!ToSet(hooks) : h = threadId
    <3>1. \E i \in DOMAIN hooks : hooks[i] = threadId
      BY <2>1 DEF Hook!ToSet
    <3>2. k \in 1 .. n
      BY <1>1, <3>1
    <3>3. Hook!Passing = SubSeq(hooks, 1, k - 1)
      BY <2>1 DEF Hook!Passing
    <3> HIDE DEF k
    <3>4. Len(SubSeq(hooks, 1, k - 1)) = k - 1
      BY <1>1, <3>2
    <3> QED BY <1>1, <3>2, <3>3, <3>4
  <2>2. CASE ~\E h \in Hook!ToSet(hooks) : h = threadId
    <3>1. Hook!Passing = hooks
      BY <2>2 DEF Hook!Passing
    <3> QED BY <1>1, <3>1
  <2> QED BY <2>1, <2>2
<1> QED BY <1>2, SuffixOk DEF Hook!LeftHooks

\* The dialog is closed.
LEMMA EndsOk ==
    ASSUME HookRest, Hook!EndCapture
    PROVE  /\ hookDialog' = Hook!Closed /\ captureTx' \in {captureTx, 0}
           /\ quit' \subseteq Hook!Session
<1>1. \A s \in {threadId} \ {0} : s \in Hook!Session
  <2>1. Sessions \in Nat
    BY GuiAssumption
  <2> QED BY <2>1 DEF HookRest, Hook!Session
<1>2. hookDialog' = Hook!Closed /\ captureTx' \in {captureTx, 0}
  BY DEF Hook!EndCapture
<1>3. \E got \in SUBSET ({threadId} \ {0}) : quit' = quit \cup {s \in got : hookPc[s] # "gone"}
  BY DEF Hook!EndCapture
<1> QED BY <1>1, <1>2, <1>3 DEF HookRest

\* A session that there is has a number.
LEMMA SessionNumber == HookRest => 0 \in 0 .. session /\ session \in Nat
<1>1. Sessions \in Nat
  BY GuiAssumption
<1>2. HookRest => session \in 0 .. Sessions
  BY DEF HookRest
<1> QED BY <1>1, <1>2

\* What only the dialog and the statics see keeps their types.
LEMMA DialogOk ==
    ASSUME HookRest, UNCHANGED <<session, threadId, hookPc>>,
           hit' \in BOOLEAN, echo' \in BOOLEAN,
           \/ Hook!EndCapture
           \/ /\ \E f \in BOOLEAN, p \in BOOLEAN, to \in {hookDialog.rx, 0} :
                    hookDialog' = [hookDialog EXCEPT !.failed = f, !.pending = p, !.rx = to]
              /\ UNCHANGED <<captureTx, quit>>
    PROVE  HookRest'
<1>1. 0 \in 0 .. session /\ session \in Nat
  BY SessionNumber
<1>2. CASE Hook!EndCapture
  <2>1. /\ hookDialog' = Hook!Closed /\ captureTx' \in {captureTx, 0}
        /\ quit' \subseteq Hook!Session
    BY <1>2, EndsOk
  <2>2. /\ Hook!Closed \in [open : BOOLEAN, rx : 0 .. session, guard : BOOLEAN, failed : BOOLEAN,
                            pending : BOOLEAN]
        /\ ~Hook!Closed.guard
    BY <1>1 DEF Hook!Closed
  <2>3. {threadId', captureTx'} \subseteq 0 .. session'
    <3>1. {threadId, captureTx} \subseteq 0 .. session
      BY DEF HookRest
    <3>2. threadId' = threadId /\ session' = session
      OBVIOUS
    <3> QED BY <1>1, <2>1, <3>1, <3>2
  <2>4. /\ hookDialog' \in [open : BOOLEAN, rx : 0 .. session', guard : BOOLEAN, failed : BOOLEAN,
                            pending : BOOLEAN]
        /\ ~hookDialog'.guard
    BY <2>1, <2>2
  <2>5. /\ session' \in 0 .. Sessions
        /\ hookPc' \in [Hook!Session -> {"unused", "started", "named", "armed", "echo", "pump",
                                         "clear", "gone"}]
        /\ \A s \in Hook!Session : hookPc'[s] # "unused" => s <= session'
    BY DEF HookRest
  <2> QED BY <2>1, <2>3, <2>4, <2>5 DEF HookRest
<1>3. CASE /\ \E f \in BOOLEAN, p \in BOOLEAN, to \in {hookDialog.rx, 0} :
                 hookDialog' = [hookDialog EXCEPT !.failed = f, !.pending = p, !.rx = to]
           /\ UNCHANGED <<captureTx, quit>>
  <2>1. PICK f \in BOOLEAN, p \in BOOLEAN, to \in {hookDialog.rx, 0} :
           hookDialog' = [hookDialog EXCEPT !.failed = f, !.pending = p, !.rx = to]
    BY <1>3
  <2>2. /\ hookDialog' \in [open : BOOLEAN, rx : 0 .. session, guard : BOOLEAN, failed : BOOLEAN,
                            pending : BOOLEAN]
        /\ hookDialog'.guard = hookDialog.guard /\ hookDialog'.open = hookDialog.open
    BY <1>1, <2>1 DEF HookRest
  <2> QED BY <1>3, <2>2 DEF HookRest
<1> QED BY <1>2, <1>3

\* The dialog is opened, closed, and told.
LEMMA DialogKeepsHookIInv ==
    ASSUME HookIInv, Hook!StartCapture \/ Hook!CloseDialog \/ Hook!ReadEvent
    PROVE  HookIInv'
<1>a. Sessions \in Nat /\ Unread \in Nat
  BY GuiAssumption
<1>b. HookRest /\ Chained(hooks, hookPc) /\ Heard(chan, Unread + Cardinality(Reported(hookPc)))
  BY DEF HookIInv
<1>c. session \in 0 .. Sessions
  BY DEF HookIInv, HookRest
<1>1. CASE Hook!StartCapture
  <2>1. /\ session < Sessions /\ session' = session + 1
        /\ UNCHANGED <<threadId, captureTx, hit, echo, quit, hooks, chan>>
        /\ \/ /\ hookDialog' = [Hook!Closed EXCEPT !.open = TRUE, !.guard = TRUE, !.rx = session + 1]
              /\ hookPc' = [hookPc EXCEPT ![session + 1] = "started"]
           \/ /\ hookDialog' = [Hook!Closed EXCEPT !.open = TRUE, !.failed = TRUE]
              /\ hookPc' = hookPc
    BY <1>1 DEF Hook!StartCapture, Hook!statics
  <2>2. session' \in 0 .. Sessions /\ session + 1 \in Hook!Session /\ 0 .. session \subseteq 0 .. session'
        /\ 0 \in 0 .. session' /\ session + 1 \in 0 .. session'
    BY <1>a, <1>c, <2>1 DEF Hook!Session
  <2>3. hookPc \in [Hook!Session -> {"unused", "started", "named", "armed", "echo", "pump",
                                     "clear", "gone"}]
        /\ \A s \in Hook!Session : hookPc[s] # "unused" => s <= session
    BY <1>b DEF HookRest
  <2>4. hookPc[session + 1] = "unused"
    <3>1. ~(session + 1 <= session)
      BY <1>a, <1>c
    <3> QED BY <2>2, <2>3, <3>1
  <2>5. hookPc' \in [Hook!Session -> {"unused", "started", "named", "armed", "echo", "pump",
                                      "clear", "gone"}]
    BY <2>1, <2>2, <2>3
  <2>6. ASSUME NEW s \in Hook!Session, hookPc'[s] # "unused" PROVE s <= session'
    <3>1. CASE s = session + 1
      BY <1>a, <1>c, <2>1, <3>1
    <3>2. CASE s # session + 1
      <4>1. hookPc'[s] = hookPc[s] /\ s \in Nat
        BY <1>a, <2>1, <2>3, <3>2 DEF Hook!Session
      <4>2. s <= session
        BY <2>3, <2>6, <4>1
      <4> QED BY <1>a, <1>c, <2>1, <4>1, <4>2
    <3> QED BY <3>1, <3>2
  <2>7. /\ hookDialog' \in [open : BOOLEAN, rx : 0 .. session', guard : BOOLEAN, failed : BOOLEAN,
                            pending : BOOLEAN]
        /\ hookDialog'.guard => hookDialog'.open
    <3>1. CASE hookDialog' = [Hook!Closed EXCEPT !.open = TRUE, !.guard = TRUE, !.rx = session + 1]
      BY <2>2, <3>1 DEF Hook!Closed
    <3>2. CASE hookDialog' = [Hook!Closed EXCEPT !.open = TRUE, !.failed = TRUE]
      BY <2>2, <3>2 DEF Hook!Closed
    <3> QED BY <2>1, <3>1, <3>2
  <2>8. HookRest'
    <3>1. {threadId', captureTx'} \subseteq 0 .. session' /\ hit' \in BOOLEAN /\ echo' \in BOOLEAN
          /\ quit' \subseteq Hook!Session
      BY <1>b, <2>1, <2>2 DEF HookRest
    <3> QED BY <2>2, <2>5, <2>6, <2>7, <3>1 DEF HookRest
  <2>9. \A s \in Hook!Session : s # session + 1 => hookPc'[s] = hookPc[s]
    BY <2>1, <2>3
  <2>10. Chained(hooks', hookPc')
    <3>1. \A i \in DOMAIN hooks : hooks[i] \in Hook!Session /\ hookPc[hooks[i]] \in {"echo", "pump"}
      BY <1>b DEF Chained
    <3>2. \A i \in DOMAIN hooks : hooks[i] # session + 1
      BY <2>4, <3>1
    <3>3. \A i \in DOMAIN hooks : hookPc'[hooks[i]] \in {"echo", "pump"}
      BY <2>9, <3>1, <3>2
    <3> QED BY <1>b, <2>1, <3>3 DEF Chained
  <2>11. Reported(hookPc') = Reported(hookPc)
    <3>1. hookPc'[session + 1] \in {"started", "unused"}
      BY <2>1, <2>2, <2>3, <2>4
    <3> QED BY <2>4, <2>9, <3>1 DEF Reported
  <2> QED BY <1>b, <2>1, <2>8, <2>10, <2>11 DEF HookIInv
<1>2. CASE Hook!CloseDialog
  <2>1. Hook!EndCapture /\ UNCHANGED <<session, threadId, hit, echo, hookPc, hooks, chan>>
    BY <1>2 DEF Hook!CloseDialog
  <2>2. hit' \in BOOLEAN /\ echo' \in BOOLEAN
    BY <1>b, <2>1 DEF HookRest
  <2>3. HookRest'
    BY <1>b, <2>1, <2>2, DialogOk
  <2> QED BY <1>b, <2>1, <2>3 DEF HookIInv
<1>3. CASE Hook!ReadEvent
  <2> DEFINE k == hookDialog.rx
             n == Unread + Cardinality(Reported(hookPc))
  <2>1. /\ k # 0 /\ chan[k] # <<>> /\ chan' = [chan EXCEPT ![k] = Tail(chan[k])]
        /\ UNCHANGED <<session, threadId, hit, echo, hookPc, hooks>>
    BY <1>3 DEF Hook!ReadEvent
  <2>2. k \in Hook!Session /\ hookDialog.failed \in BOOLEAN /\ hookDialog.pending \in BOOLEAN
    <3>1. k \in 0 .. session /\ hookDialog.failed \in BOOLEAN /\ hookDialog.pending \in BOOLEAN
      BY <1>b DEF HookRest
    <3> QED BY <1>a, <1>c, <2>1, <3>1 DEF Hook!Session
  <2>3. chan[k] \in Seq(Noise) /\ Len(chan[k]) <= n /\ n \in Nat
    BY <1>a, <1>b, <2>2, ReportedSome DEF Heard
  <2>4. /\ Head(chan[k]) \in Noise /\ Tail(chan[k]) \in Seq(Noise)
        /\ Len(Tail(chan[k])) <= n
    BY <2>1, <2>3
  <2> HIDE DEF n
  <2>5. Heard(chan', n)
    <3>1. chan' \in [Hook!Session -> Seq(Noise)]
      BY <1>b, <2>1, <2>2, <2>4 DEF Heard
    <3>2. \A s \in Hook!Session : chan'[s] \in {chan[s], Tail(chan[k])} /\ (s = k => chan'[s] = Tail(chan[k]))
                                  /\ (s # k => chan'[s] = chan[s])
      BY <1>b, <2>1 DEF Heard
    <3> QED BY <1>b, <2>4, <3>1, <3>2 DEF Heard, n
  <2>6. HookRest'
    <3>1. hit' \in BOOLEAN /\ echo' \in BOOLEAN
      BY <1>b, <2>1 DEF HookRest
    <3>2. hookDialog \in [open : BOOLEAN, rx : 0 .. session, guard : BOOLEAN, failed : BOOLEAN,
                          pending : BOOLEAN]
      BY <1>b DEF HookRest
    <3>3. CASE Head(chan[k]) = "Cancel"
      <4>1. Hook!EndCapture
        BY <1>3, <3>3 DEF Hook!ReadEvent
      <4> QED BY <1>b, <2>1, <3>1, <4>1, DialogOk
    <3>4. CASE Head(chan[k]) # "Cancel"
      <4>1. /\ UNCHANGED <<captureTx, quit>>
            /\ hookDialog' \in {[hookDialog EXCEPT !.failed = FALSE],
                                [hookDialog EXCEPT !.failed = TRUE, !.rx = 0],
                                [hookDialog EXCEPT !.pending = TRUE]}
        BY <1>3, <2>4, <3>4 DEF Hook!ReadEvent, Noise
      <4>2. \E f \in BOOLEAN, p \in BOOLEAN, to \in {hookDialog.rx, 0} :
               hookDialog' = [hookDialog EXCEPT !.failed = f, !.pending = p, !.rx = to]
        <5>1. CASE hookDialog' = [hookDialog EXCEPT !.failed = FALSE]
          <6>1. hookDialog' = [hookDialog EXCEPT !.failed = FALSE, !.pending = hookDialog.pending,
                                                 !.rx = hookDialog.rx]
            BY <3>2, <5>1
          <6> QED BY <2>2, <6>1
        <5>2. CASE hookDialog' = [hookDialog EXCEPT !.failed = TRUE, !.rx = 0]
          <6>1. hookDialog' = [hookDialog EXCEPT !.failed = TRUE, !.pending = hookDialog.pending,
                                                 !.rx = 0]
            BY <3>2, <5>2
          <6> QED BY <2>2, <6>1
        <5>3. CASE hookDialog' = [hookDialog EXCEPT !.pending = TRUE]
          <6>1. hookDialog' = [hookDialog EXCEPT !.failed = hookDialog.failed, !.pending = TRUE,
                                                 !.rx = hookDialog.rx]
            BY <3>2, <5>3
          <6> QED BY <2>2, <6>1
        <5> QED BY <4>1, <5>1, <5>2, <5>3
      <4> QED BY <1>b, <2>1, <3>1, <4>1, <4>2, DialogOk
    <3> QED BY <3>3, <3>4
  <2> QED BY <1>b, <2>1, <2>5, <2>6 DEF HookIInv, n
<1> QED BY <1>1, <1>2, <1>3

\* A thread goes on: it was started, and what it was to do and its hook are its
\* own.
LEMMA ThreadKeepsHookIInv ==
    ASSUME HookIInv, NEW s \in Hook!Session, Hook!Thread(s)
    PROVE  HookIInv'
<1> DEFINE n == Unread + Cardinality(Reported(hookPc))
           m == Unread + Cardinality(Reported(hookPc'))
           State == {"unused", "started", "named", "armed", "echo", "pump", "clear", "gone"}
<1>a. Sessions \in Nat /\ Unread \in Nat
  BY GuiAssumption
<1>b. HookRest /\ Chained(hooks, hookPc) /\ Heard(chan, n)
  BY DEF HookIInv
<1>c. session \in 0 .. Sessions /\ captureTx \in 0 .. session /\ threadId \in 0 .. session
      /\ hookPc \in [Hook!Session -> State]
  BY <1>b DEF HookRest
<1>d. n \in Nat
  BY <1>a, ReportedSome
<1>e. captureTx \in 0 .. Sessions /\ s \in Nat /\ s # 0
  BY <1>a, <1>c DEF Hook!Session
<1> HIDE DEF State
<1>1. PICK to \in State : /\ hookPc' = [hookPc EXCEPT ![s] = to] /\ hookPc[s] # "unused"
                          /\ hookPc[s] # "gone" /\ to # "unused"
  <2>1. ASSUME Hook!Name(s) PROVE hookPc[s] = "started" /\ hookPc' = [hookPc EXCEPT ![s] = "named"]
    BY <2>1 DEF Hook!Name
  <2>2. ASSUME Hook!Arm(s) PROVE hookPc[s] = "named" /\ hookPc' = [hookPc EXCEPT ![s] = "armed"]
    BY <2>2 DEF Hook!Arm
  <2>3. ASSUME Hook!Install(s)
        PROVE  hookPc[s] = "armed" /\ \E to \in {"echo", "clear"} : hookPc' = [hookPc EXCEPT ![s] = to]
    BY <2>3 DEF Hook!Install
  <2>4. ASSUME Hook!Verify(s)
        PROVE  hookPc[s] = "echo" /\ \E to \in {"pump", "clear"} : hookPc' = [hookPc EXCEPT ![s] = to]
    BY <2>4 DEF Hook!Verify
  <2>5. ASSUME Hook!Pump(s)
        PROVE  hookPc[s] = "pump" /\ \E to \in {"clear", "gone"} : hookPc' = [hookPc EXCEPT ![s] = to]
    BY <2>5 DEF Hook!Pump
  <2>6. ASSUME Hook!ClearSender(s)
        PROVE  hookPc[s] = "clear" /\ hookPc' = [hookPc EXCEPT ![s] = "gone"]
    BY <2>6 DEF Hook!ClearSender
  <2> QED BY <2>1, <2>2, <2>3, <2>4, <2>5, <2>6 DEF Hook!Thread, State
<1>2. /\ hookPc' \in [Hook!Session -> State] /\ hookPc'[s] = to
      /\ \A t \in Hook!Session : t # s => hookPc'[t] = hookPc[t]
  BY <1>1, <1>c
<1>3. s \in 0 .. session /\ \A t \in Hook!Session : hookPc'[t] # "unused" => t <= session
  <2>1. \A t \in Hook!Session : hookPc[t] # "unused" => t <= session
    BY <1>b DEF HookRest
  <2>2. s <= session
    BY <1>1, <2>1
  <2>3. s \in 0 .. session
    BY <1>a, <1>c, <1>e, <2>2
  <2> QED BY <1>2, <2>1, <2>2, <2>3
<1>4. /\ UNCHANGED <<session, hookDialog, quit>>
      /\ threadId' \in {threadId, s} /\ captureTx' \in {captureTx, s, 0}
      /\ hit' \in {hit, FALSE} /\ echo' \in {echo, TRUE}
  BY DEF Hook!Thread, Hook!Name, Hook!Arm, Hook!Install, Hook!Verify, Hook!Pump,
         Hook!ClearSender, Hook!statics
<1>5. HookRest'
  <2>1. /\ session' \in 0 .. Sessions /\ quit' \subseteq Hook!Session
        /\ hookDialog' \in [open : BOOLEAN, rx : 0 .. session', guard : BOOLEAN, failed : BOOLEAN,
                            pending : BOOLEAN]
        /\ hookDialog'.guard => hookDialog'.open
    BY <1>b, <1>4 DEF HookRest
  <2>2. hit' \in BOOLEAN /\ echo' \in BOOLEAN
    BY <1>b, <1>4 DEF HookRest
  <2>3. {threadId', captureTx'} \subseteq 0 .. session'
    <3>1. 0 \in 0 .. session
      BY <1>b, SessionNumber
    <3> QED BY <1>c, <1>3, <1>4, <3>1
  <2> QED BY <1>2, <1>3, <1>4, <2>1, <2>2, <2>3 DEF HookRest, State
<1>6. ASSUME NEW hs, Chained(hs, hookPc),
             to \in {"echo", "pump"} \/ \A i \in DOMAIN hs : hs[i] # s
      PROVE  Chained(hs, hookPc')
  <2>1. \A i \in DOMAIN hs : hs[i] \in Hook!Session /\ hookPc[hs[i]] \in {"echo", "pump"}
    BY <1>6 DEF Chained
  <2>2. \A i \in DOMAIN hs : hookPc'[hs[i]] \in {"echo", "pump"}
    BY <1>2, <1>6, <2>1
  <2> QED BY <1>6, <2>2 DEF Chained
<1>7. hookPc[s] \notin {"echo", "pump"} => \A i \in DOMAIN hooks : hooks[i] # s
  BY <1>b DEF Chained
<1>8. CASE Hook!Name(s) \/ Hook!Arm(s) \/ Hook!ClearSender(s)
  <2>1. UNCHANGED <<hooks, chan>> /\ hookPc[s] \notin {"echo", "pump"}
    BY <1>8 DEF Hook!Name, Hook!Arm, Hook!ClearSender
  <2>2. Chained(hooks, hookPc')
    BY <1>b, <1>6, <1>7, <2>1
  <2>3. hookPc[s] \in {"pump", "clear", "gone"} <=> hookPc'[s] \in {"pump", "clear", "gone"}
    BY <1>8, <1>c DEF Hook!Name, Hook!Arm, Hook!ClearSender
  <2>4. Reported(hookPc') = Reported(hookPc)
    BY <1>2, <2>3 DEF Reported
  <2> QED BY <1>b, <1>5, <2>1, <2>2, <2>4 DEF HookIInv
<1>9. ASSUME hookPc[s] \in {"armed", "echo"}, to \in {"pump", "clear"}
      PROVE  m = n + 1 /\ m \in Nat
  <2>1. s \notin Reported(hookPc) /\ Reported(hookPc') = Reported(hookPc) \cup {s}
    BY <1>2, <1>9 DEF Reported
  <2>2. Cardinality(Reported(hookPc')) = Cardinality(Reported(hookPc)) + 1
    BY <2>1, ReportedOneMore
  <2> QED BY <1>a, <2>2, ReportedSome
<1>10. ASSUME NEW e \in Noise, Hook!Tell(e), m = n + 1
       PROVE  Heard(chan', m)
  <2>1. Heard(chan', n + 1)
    BY <1>b, <1>d, <1>e, <1>10, TellsOne
  <2> QED BY <1>10, <2>1
<1>11. "Ready" \in Noise /\ "Failed" \in Noise
  BY DEF Noise
<1>12. CASE Hook!Install(s)
  <2>1. CASE to = "echo" /\ hooks' = <<s>> \o hooks /\ UNCHANGED chan
    <3>1. Chained(hooks', hookPc')
      <4>1. hooks \in Seq(Hook!Session) /\ Len(hooks) \in Nat /\ DOMAIN hooks = 1 .. Len(hooks)
        BY <1>b DEF Chained
      <4>2. /\ hooks' \in Seq(Hook!Session) /\ DOMAIN hooks' = 1 .. Len(hooks) + 1
            /\ hooks'[1] = s /\ \A i \in 2 .. Len(hooks) + 1 : hooks'[i] = hooks[i - 1]
        BY <2>1, <4>1
      <4>3. \A i \in DOMAIN hooks : hooks[i] # s
        BY <1>7, <1>12 DEF Hook!Install
      <4>4. \A i \in DOMAIN hooks' : i = 1 \/ (i \in 2 .. Len(hooks) + 1 /\ i - 1 \in DOMAIN hooks)
        BY <4>1, <4>2
      <4>5. \A i, j \in DOMAIN hooks : hooks[i] = hooks[j] => i = j
        BY <1>b DEF Chained
      <4>6. ASSUME NEW i \in DOMAIN hooks', NEW j \in DOMAIN hooks', hooks'[i] = hooks'[j]
            PROVE  i = j
        <5>1. CASE i = 1
          BY <4>2, <4>3, <4>4, <4>6, <5>1
        <5>2. CASE j = 1
          BY <4>2, <4>3, <4>4, <4>6, <5>2
        <5>3. CASE i # 1 /\ j # 1
          <6>1. i - 1 = j - 1
            BY <4>2, <4>4, <4>5, <4>6, <5>3
          <6> QED BY <4>1, <4>2, <6>1
        <5> QED BY <5>1, <5>2, <5>3
      <4>7. \A i \in DOMAIN hooks' : hookPc'[hooks'[i]] \in {"echo", "pump"}
        <5>1. \A i \in DOMAIN hooks : hooks[i] \in Hook!Session /\ hookPc[hooks[i]] \in {"echo", "pump"}
          BY <1>b DEF Chained
        <5>2. \A i \in DOMAIN hooks : hookPc'[hooks[i]] \in {"echo", "pump"}
          BY <1>2, <4>3, <5>1
        <5> QED BY <1>2, <2>1, <4>2, <4>4, <5>2
      <4> QED BY <4>2, <4>6, <4>7 DEF Chained
    <3>2. Reported(hookPc') = Reported(hookPc)
      BY <1>2, <1>12, <2>1 DEF Reported, Hook!Install
    <3> QED BY <1>b, <1>5, <2>1, <3>1, <3>2 DEF HookIInv
  <2>2. CASE to = "clear" /\ Hook!Tell("Failed") /\ hooks' = hooks
    <3>1. hookPc[s] = "armed"
      BY <1>12 DEF Hook!Install
    <3>2. Heard(chan', m)
      BY <1>9, <1>10, <1>11, <2>2, <3>1
    <3>3. Chained(hooks', hookPc')
      BY <1>b, <1>6, <1>7, <2>2, <3>1
    <3> QED BY <1>5, <3>2, <3>3 DEF HookIInv
  <2> QED
    <3>1. to = hookPc'[s]
      BY <1>2
    <3>2. \/ /\ hookPc' = [hookPc EXCEPT ![s] = "echo"] /\ hooks' = <<s>> \o hooks /\ UNCHANGED chan
          \/ /\ hookPc' = [hookPc EXCEPT ![s] = "clear"] /\ Hook!Tell("Failed") /\ UNCHANGED hooks
      BY <1>12 DEF Hook!Install
    <3> QED BY <1>c, <2>1, <2>2, <3>1, <3>2
<1>13. CASE Hook!Verify(s)
  <2>1. hookPc[s] = "echo" /\ to = hookPc'[s]
    BY <1>2, <1>13 DEF Hook!Verify
  <2>2. \/ hookPc' = [hookPc EXCEPT ![s] = "pump"] /\ Hook!Tell("Ready") /\ hooks' = hooks
        \/ hookPc' = [hookPc EXCEPT ![s] = "clear"] /\ Hook!Tell("Failed") /\ hooks' = Hook!Unhook(s)
    BY <1>13 DEF Hook!Verify
  <2>3. CASE to = "pump" /\ Hook!Tell("Ready") /\ hooks' = hooks
    <3>1. Heard(chan', m)
      BY <1>9, <1>10, <1>11, <2>1, <2>3
    <3>2. Chained(hooks', hookPc')
      BY <1>b, <1>6, <2>3
    <3> QED BY <1>5, <3>1, <3>2 DEF HookIInv
  <2>4. CASE to = "clear" /\ Hook!Tell("Failed") /\ hooks' = Hook!Unhook(s)
    <3>1. Heard(chan', m)
      BY <1>9, <1>10, <1>11, <2>1, <2>4
    <3>2. Chained(hooks', hookPc')
      BY <1>b, <1>6, <2>4, UnhookedOk
    <3> QED BY <1>5, <3>1, <3>2 DEF HookIInv
  <2> QED BY <1>c, <2>1, <2>2, <2>3, <2>4
<1>14. CASE Hook!Pump(s)
  <2>1. hooks' = Hook!Unhook(s) /\ chan' = chan /\ hookPc[s] = "pump" /\ hookPc'[s] \in {"clear", "gone"}
    BY <1>14, <1>c DEF Hook!Pump
  <2>2. Chained(hooks', hookPc')
    BY <1>b, <1>6, <2>1, UnhookedOk
  <2>3. Reported(hookPc') = Reported(hookPc)
    BY <1>2, <2>1 DEF Reported
  <2> QED BY <1>b, <1>5, <2>1, <2>2, <2>3 DEF HookIInv
<1> QED BY <1>8, <1>12, <1>13, <1>14 DEF Hook!Thread

\* The echo and the keys come down the chain of hooks.
LEMMA KeysKeepHookIInv ==
    ASSUME HookIInv, Hook!EchoArrives \/ \E e \in {"Combo", "Cancel"} : Hook!KeyPressed(e)
    PROVE  HookIInv'
<1> DEFINE n == Unread + Cardinality(Reported(hookPc))
<1>a. Sessions \in Nat /\ Unread \in Nat /\ Cardinality(Reported(hookPc)) \in Nat
  BY GuiAssumption, ReportedSome
<1>b. HookRest /\ Chained(hooks, hookPc) /\ Heard(chan, n)
  BY DEF HookIInv
<1>c. session \in 0 .. Sessions /\ captureTx \in 0 .. session
  BY <1>b DEF HookRest
<1>d. captureTx \in 0 .. Sessions
  BY <1>a, <1>c
<1>1. /\ hooks' = Hook!LeftHooks /\ UNCHANGED <<session, threadId, hookPc>>
      /\ hit' \in BOOLEAN /\ echo' \in BOOLEAN
  <2>1. CASE Hook!EchoArrives
    <3>1. Hook!Swallowed \in BOOLEAN /\ hit \in BOOLEAN
      BY <1>b DEF Hook!Swallowed, HookRest
    <3>2. hit' = (hit \/ Hook!Swallowed) /\ echo' = FALSE
      BY <2>1 DEF Hook!EchoArrives
    <3>3. hit' \in BOOLEAN /\ echo' \in BOOLEAN
      BY <3>1, <3>2
    <3> QED BY <2>1, <3>3 DEF Hook!EchoArrives
  <2>2. CASE \E e \in {"Combo", "Cancel"} : Hook!KeyPressed(e)
    BY <1>b, <2>2 DEF Hook!KeyPressed, HookRest
  <2> QED BY <2>1, <2>2
<1>2. Chained(hooks', hookPc')
  BY <1>b, <1>1, LeftOk
<1>3. hookDialog.failed \in BOOLEAN /\ hookDialog.pending \in BOOLEAN
      /\ hookDialog \in [open : BOOLEAN, rx : 0 .. session, guard : BOOLEAN, failed : BOOLEAN,
                         pending : BOOLEAN]
  BY <1>b DEF HookRest
<1>4. ASSUME UNCHANGED <<captureTx, quit>>,
             hookDialog' \in {hookDialog, [hookDialog EXCEPT !.pending = TRUE]}
      PROVE  HookRest'
  <2>1. \E f \in BOOLEAN, p \in BOOLEAN, to \in {hookDialog.rx, 0} :
           hookDialog' = [hookDialog EXCEPT !.failed = f, !.pending = p, !.rx = to]
    <3>1. CASE hookDialog' = hookDialog
      <4>1. hookDialog' = [hookDialog EXCEPT !.failed = hookDialog.failed,
                                             !.pending = hookDialog.pending, !.rx = hookDialog.rx]
        BY <1>3, <3>1
      <4> QED BY <1>3, <4>1
    <3>2. CASE hookDialog' = [hookDialog EXCEPT !.pending = TRUE]
      <4>1. hookDialog' = [hookDialog EXCEPT !.failed = hookDialog.failed, !.pending = TRUE,
                                             !.rx = hookDialog.rx]
        BY <1>3, <3>2
      <4> QED BY <1>3, <4>1
    <3> QED BY <1>4, <3>1, <3>2
  <2> QED BY <1>b, <1>1, <1>4, <2>1, DialogOk
<1>5. CASE Hook!EchoArrives
  <2>1. UNCHANGED <<hookDialog, captureTx, quit, chan>>
    BY <1>5 DEF Hook!EchoArrives
  <2>2. HookRest'
    BY <1>4, <2>1
  <2> QED BY <1>b, <1>1, <1>2, <2>1, <2>2 DEF HookIInv
<1>6. CASE \E e \in {"Combo", "Cancel"} : Hook!KeyPressed(e)
  <2>1. PICK e \in {"Combo", "Cancel"} : Hook!KeyPressed(e)
    BY <1>6
  <2>2. CASE Hook!Swallowed
    <3>1. Hook!Tell(e) /\ UNCHANGED <<hookDialog, captureTx, quit>>
      BY <2>1, <2>2 DEF Hook!KeyPressed
    <3>2. HookRest'
      BY <1>4, <3>1
    <3>3. Heard(chan, Unread - 1)
      <4> SUFFICES ASSUME NEW s \in Hook!Session PROVE Len(chan[s]) <= Unread - 1
        BY <1>b DEF Heard
      <4>1. Len(chan[s]) < Unread
        BY <2>1 DEF Hook!KeyPressed
      <4>2. Len(chan[s]) \in Nat
        BY <1>b DEF Heard
      <4> QED BY <1>a, <4>1, <4>2
    <3>4. e \in Noise /\ Unread - 1 \in Int
      BY <1>a DEF Noise
    <3>5. Heard(chan', (Unread - 1) + 1)
      BY <1>d, <3>1, <3>3, <3>4, TellsOne
    <3>6. (Unread - 1) + 1 \in Int /\ n \in Int /\ (Unread - 1) + 1 <= n
      BY <1>a
    <3>7. Heard(chan', n)
      <4> HIDE DEF n
      <4> QED BY <3>5, <3>6, HeardMore
    <3> QED BY <1>1, <1>2, <3>2, <3>7 DEF HookIInv
  <2>3. CASE ~Hook!Swallowed
    <3>1. /\ chan' = chan
          /\ \/ Hook!EndCapture
             \/ /\ UNCHANGED <<captureTx, quit>>
                /\ hookDialog' \in {hookDialog, [hookDialog EXCEPT !.pending = TRUE]}
      <4>1. /\ chan' = chan
            /\ CASE hookDialog.open /\ hookDialog.rx = 0 /\ e = "Cancel" -> Hook!EndCapture
                 [] hookDialog.open /\ hookDialog.rx = 0 /\ e = "Combo" ->
                      /\ hookDialog' = [hookDialog EXCEPT !.pending = TRUE]
                      /\ UNCHANGED <<captureTx, quit>>
                 [] OTHER -> UNCHANGED <<hookDialog, captureTx, quit>>
        BY <2>1, <2>3 DEF Hook!KeyPressed
      <4> QED BY <4>1
    <3>2. CASE Hook!EndCapture
      <4>1. HookRest'
        BY <1>b, <1>1, <3>2, DialogOk
      <4> QED BY <1>b, <1>1, <1>2, <3>1, <4>1 DEF HookIInv
    <3>3. CASE /\ UNCHANGED <<captureTx, quit>>
               /\ hookDialog' \in {hookDialog, [hookDialog EXCEPT !.pending = TRUE]}
      <4>1. HookRest'
        BY <1>4, <3>3
      <4> QED BY <1>b, <1>1, <1>2, <3>1, <4>1 DEF HookIInv
    <3> QED BY <3>1, <3>2, <3>3
  <2> QED BY <2>2, <2>3
<1> QED BY <1>5, <1>6

\* The types of the recorder's hook are kept.
LEMMA HookNext ==
    ASSUME HookIInv, Hook!Next \/ UNCHANGED hookVars
    PROVE  HookIInv'
<1>1. CASE UNCHANGED hookVars
  BY <1>1 DEF hookVars, HookIInv, HookRest
<1> QED
  BY <1>1, DialogKeepsHookIInv, ThreadKeepsHookIInv, KeysKeepHookIInv DEF Hook!Next

\* No dialog was opened yet, no thread runs.
LEMMA HookInit == Hook!Init => HookIInv
<1> SUFFICES ASSUME Hook!Init PROVE HookIInv
  OBVIOUS
<1>1. Sessions \in Nat /\ Unread \in Nat /\ Cardinality(Reported(hookPc)) \in Nat
  BY GuiAssumption, ReportedSome
<1>2. HookRest
  <2>1. /\ session = 0 /\ hookDialog = Hook!Closed /\ threadId = 0 /\ captureTx = 0
        /\ hit = FALSE /\ echo = FALSE /\ quit = {}
        /\ hookPc = [s \in Hook!Session |-> "unused"]
    BY DEF Hook!Init
  <2>2. /\ hookDialog \in [open : BOOLEAN, rx : 0 .. session, guard : BOOLEAN, failed : BOOLEAN,
                           pending : BOOLEAN]
        /\ ~hookDialog.guard
    BY <2>1 DEF Hook!Closed
  <2>3. hit \in BOOLEAN /\ echo \in BOOLEAN
    BY <2>1
  <2>4. /\ hookPc \in [Hook!Session -> {"unused", "started", "named", "armed", "echo", "pump",
                                       "clear", "gone"}]
        /\ \A s \in Hook!Session : hookPc[s] = "unused"
    BY <2>1
  <2>5. session \in 0 .. Sessions /\ {threadId, captureTx} \subseteq 0 .. session
        /\ quit \subseteq Hook!Session
    BY <1>1, <2>1
  <2> QED BY <2>2, <2>3, <2>4, <2>5 DEF HookRest
<1>3. Chained(hooks, hookPc)
  <2>1. hooks = <<>> /\ DOMAIN hooks = {}
    BY DEF Hook!Init
  <2>2. hooks \in Seq(Hook!Session)
    BY <2>1
  <2> QED BY <2>1, <2>2 DEF Chained
<1>4. Heard(chan, Unread + Cardinality(Reported(hookPc)))
  <2>1. chan = [s \in Hook!Session |-> <<>>]
    BY DEF Hook!Init
  <2>2. <<>> \in Seq(Noise)
    OBVIOUS
  <2>3. \A s \in Hook!Session : Len(chan[s]) = 0
    BY <2>1
  <2> QED BY <1>1, <2>1, <2>2, <2>3 DEF Heard
<1> QED BY <1>2, <1>3, <1>4 DEF HookIInv

-----------------------------------------------------------------------------
(* The types of all parts.                                                 *)

\* The window starts hidden, no event waits.
LEMMA WindowInit == Window!Init => Window!TypeOK
<1> SUFFICES ASSUME Window!Init PROVE Window!TypeOK
  OBVIOUS
<1>1. TrayCap \in Nat
  BY GuiAssumption
<1>2. trayEvents \in Seq({"Toggle", "OpenSettings"}) /\ Len(trayEvents) = 0
  BY DEF Window!Init
<1>3. hotkey = FALSE /\ trayClick = FALSE
  BY DEF Window!Init
<1>4. hotkey \in BOOLEAN /\ trayClick \in BOOLEAN
  BY <1>3
<1>5. windowVisible = FALSE /\ panelOpen = FALSE /\ everFocused = FALSE /\ lastFocusLoss = FALSE
  BY DEF Window!Init
<1>6. resetOnShow = TRUE /\ nativeResize = FALSE /\ hidePending = FALSE
  BY DEF Window!Init
<1>7. /\ {windowVisible, panelOpen, everFocused, lastFocusLoss, resetOnShow} \subseteq BOOLEAN
      /\ {nativeResize, hidePending} \subseteq BOOLEAN
  BY <1>5, <1>6
<1>8. /\ windowOs \in [visible : BOOLEAN, focused : BOOLEAN, loop : BOOLEAN, button : BOOLEAN]
      /\ windowCmd \in [visible : {"-", "yes", "no"}, loop : BOOLEAN]
  BY DEF Window!Init, Window!Quiet
<1>9. windowPc = "out" /\ since = "none" /\ windowPage = "home" /\ invoke = "none" /\ press = "no" /\ click = "none"
  BY DEF Window!Init
<1> QED BY <1>1, <1>2, <1>4, <1>7, <1>8, <1>9 DEF Window!TypeOK

\* The panel has its size.
LEMMA ExtentInit == Extent!Init => Extent!TypeOK
<1> SUFFICES ASSUME Extent!Init PROVE Extent!TypeOK
  OBVIOUS
<1>1. extentVisible = FALSE /\ keep = FALSE /\ settingsSized = FALSE /\ resizePending = FALSE
      /\ busy = FALSE
  BY DEF Extent!Init
<1>2. {extentVisible, keep, settingsSized, resizePending, busy} \subseteq BOOLEAN
  BY <1>1
<1> QED BY <1>2 DEF Extent!Init, Extent!TypeOK, Extent!Quiet, Extent!Sizes

\* Nothing was started or asked yet.
LEMMA ResultInit == Result!Init => ResultIInv /\ Result!TypeOK
<1> SUFFICES ASSUME Result!Init PROVE ResultIInv /\ Result!TypeOK
  OBVIOUS
<1>1. ResultIInv
  BY DEF Result!Init, ResultIInv, Result!ConfirmRepeatsWhatAsked
<1>2. ASSUME NEW e \in Ext
      PROVE  requests[e] \in Seq(Result!Request) /\ Len(requests[e]) <= Backlog
  <2>1. requests[e] = <<>> /\ Backlog \in Nat
    BY <1>2, GuiAssumption DEF Result!Init
  <2>2. <<>> \in Seq(Result!Request) /\ Len(<<>>) = 0
    OBVIOUS
  <2> QED BY <2>1, <2>2
<1>3. /\ resultVisible = TRUE /\ client \in [Ext -> {"warm", "out", "stub"}] /\ pageBusy = {}
      /\ flight = Result!None /\ {flight, last, resultDialog, asked} = {Result!None}
      /\ answer = "none" /\ clip \in {"idle", "down"} /\ update = "none" /\ resultToast = "none"
  BY DEF Result!Init
<1> QED BY <1>1, <1>2, <1>3 DEF Result!TypeOK

\* No session has run yet.
LEMMA SettingsRestInit == Settings!Init => SettingsRest
<1> SUFFICES ASSUME Settings!Init PROVE SettingsRest
  OBVIOUS
<1>1. MaxSessions \in Nat /\ MaxChanges \in Nat
  BY GuiAssumption
<1>2. tmp = FALSE /\ registry = FALSE /\ running = FALSE /\ save_warned = FALSE /\ dirty = FALSE
      /\ on_settings = FALSE
  BY DEF Settings!Init
<1>3. {tmp, registry, running, save_warned, dirty, on_settings} \subseteq BOOLEAN
  BY <1>2
<1>4. aggregated = "default" /\ settingsToast = "none" /\ shown = {} /\ origin = "default"
      /\ sessions = 0 /\ settingsChanges = 0
  BY DEF Settings!Init
<1> QED BY <1>1, <1>3, <1>4 DEF SettingsRest, Settings!Preference, Settings!Toast

\* The window starts without a material.
LEMMA MaterialInit == Material!Init => Material!TypeOK
<1> SUFFICES ASSUME Material!Init PROVE Material!TypeOK
  OBVIOUS
<1>1. countdown \in 0 .. Countdown
  BY GuiAssumption DEF Material!Init
<1> QED BY <1>1 DEF Material!Init, Material!TypeOK, Material!Kind, Material!Theme

\* Whichever part is at work, every step leaves its variables with their types,
\* for all values of the constants: the queues of the window, of the recorder and
\* of the results within their bounds, the selection on a row that is shown, no
\* command under way in a client that is not out.
THEOREM TypesStayOK == GuiSpec => []GuiTypesOK
<1> DEFINE I == /\ part \in {"hotkey", "list", "window", "extent", "hook", "result", "settings",
                             "material", "log"}
                /\ part = "hotkey" => HotkeyIInv
                /\ part = "list" => ListIInv /\ ListRest
                /\ part = "window" => Window!TypeOK
                /\ part = "extent" => Extent!TypeOK
                /\ part = "hook" => HookIInv
                /\ part = "result" => ResultIInv /\ Result!TypeOK
                /\ part = "settings" => SettingsIInv /\ SettingsRest
                /\ part = "material" => Material!TypeOK
                /\ part = "log" => LogIInv
<1>1. GuiInit => I
  <2> SUFFICES ASSUME GuiInit PROVE I
    OBVIOUS
  <2>1. /\ part \in {"hotkey", "list", "window", "extent", "hook", "result", "settings",
                     "material", "log"}
        /\ Init
    BY DEF GuiInit
  <2>2. /\ part = "list" => List!Init
        /\ part = "window" => Window!Init
        /\ part = "extent" => Extent!Init
        /\ part = "hook" => Hook!Init
    BY DEF GuiInit, ListStart, WindowStart, ExtentStart, HookStart
  <2>3. /\ part = "result" => Result!Init
        /\ part = "settings" => Settings!Init
        /\ part = "material" => Material!Init
        /\ part = "log" => Log!Init
    BY DEF GuiInit, ResultStart, SettingsStart, MaterialStart, LogStart
  <2> QED
    BY <2>1, <2>2, <2>3, HotkeyInit, ListInit, ListRestInit, WindowInit, ExtentInit, HookInit,
       ResultInit, SettingsInit, SettingsRestInit, MaterialInit, LogInit
<1>2. I /\ [GuiNext]_guiVars => I'
  <2> SUFFICES ASSUME I, [GuiNext]_guiVars PROVE I'
    OBVIOUS
  <2>1. /\ part' = part
        /\ part = "hotkey" => [Next]_keyVars
        /\ part = "list" => List!Next \/ UNCHANGED listVars
        /\ part = "window" => Window!Next \/ UNCHANGED windowVars
    BY DEF GuiNext, guiVars, hotkeyVars, keyVars, thread, panel
  <2>2. /\ part = "extent" => Extent!Next \/ UNCHANGED extentVars
        /\ part = "hook" => Hook!Next \/ UNCHANGED hookVars
        /\ part = "result" => Result!Next \/ UNCHANGED resultVars
    BY DEF GuiNext, guiVars
  <2>3. /\ part = "settings" => Settings!Next \/ UNCHANGED settingsVars
        /\ part = "material" => Material!Next \/ UNCHANGED materialVars
        /\ part = "log" => Log!Next \/ UNCHANGED logVars
    BY DEF GuiNext, guiVars
  <2>4. /\ part = "hotkey" => HotkeyIInv'
        /\ part = "list" => ListIInv' /\ ListRest'
        /\ part = "window" => Window!TypeOK'
    BY <2>1, HotkeyNext, ListNext, ListTypes, WindowTypes
  <2>5. /\ part = "extent" => Extent!TypeOK'
        /\ part = "hook" => HookIInv'
        /\ part = "result" => ResultIInv' /\ Result!TypeOK'
    BY <2>2, ExtentNext, HookNext, ResultNext, ResultTypes
  <2>6. /\ part = "settings" => SettingsIInv' /\ SettingsRest'
        /\ part = "material" => Material!TypeOK'
        /\ part = "log" => LogIInv'
    BY <2>3, SettingsNext, SettingsTypes, MaterialTypes, LogNext
  <2> QED BY <2>1, <2>4, <2>5, <2>6
<1>3. I => GuiTypesOK
  <2> SUFFICES ASSUME I PROVE GuiTypesOK
    OBVIOUS
  <2>1. /\ part = "hotkey" => TypeOK
        /\ part = "list" => List!TypeOK
        /\ part = "hook" => Hook!TypeOK
        /\ part = "settings" => Settings!TypeOK
        /\ part = "log" => Log!TypeOK
    BY HotkeyWhole, ListWhole, HookWhole, SettingsWhole DEF LogIInv
  <2> QED BY <2>1 DEF GuiTypesOK
<1> QED
  BY <1>1, <1>2, <1>3, PTL DEF GuiSpec
=============================================================================
