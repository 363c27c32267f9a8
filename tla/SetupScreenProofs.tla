-------------------------- MODULE SetupScreenProofs --------------------------
(***************************************************************************)
(* Proofs about SetupScreen.tla.  The pipe and the queue are one sequence  *)
(* of lines (Coming), of which the reader takes the first and to which the *)
(* process appends.  There is a Back in it only while the program waits    *)
(* for it and the process no longer shows the set-up (BackOnce); a command *)
(* to show the set-up is the last one that is sent (Shown).                *)
(***************************************************************************)
EXTENDS SetupScreen, TLAPS

Coming == queue \o pipe

Types ==
  /\ pc \in {"enter", "idle", "opening", "setup", "away"} /\ reading \in {"call", "get"}
  /\ splash \in {"none", "up", "dead"} /\ view \in {"idle", "setup"}
  /\ helper \in {None} \cup Helper
  /\ saved \in {None} \cup Speakers /\ told \in {None} \cup Speakers
  /\ faults \in Nat /\ faults <= MaxFaults

Seqs ==
  cmds \in Seq({"STATUS", "BT_SETUP"}) /\ pipe \in Seq(Line) /\ queue \in Seq(Line)

(* What the process shows, or has been told to.                            *)
Shown ==
  /\ splash = "up" /\ view = "setup" => pc = "setup" /\ cmds = <<>>
  /\ splash = "up" /\ pc # "setup" => \A i \in 1 .. Len(cmds) : cmds[i] = "STATUS"
  /\ splash = "up" /\ pc = "setup" /\ cmds # <<>> =>
       /\ cmds[Len(cmds)] = "BT_SETUP"
       /\ \A i \in 1 .. Len(cmds) - 1 : cmds[i] = "STATUS"
  /\ helper # None => view = "setup" /\ splash = "up"

(* A Back is on its way only once, to a program that waits for it.         *)
BackOnce ==
  /\ \A i \in 1 .. Len(Coming) :
       Coming[i] = "BACK" => pc = "setup" /\ (splash = "up" => view = "idle" /\ cmds = <<>>)
  /\ \A i, j \in 1 .. Len(Coming) : Coming[i] = "BACK" /\ Coming[j] = "BACK" => i = j

(* It is, when the user has left the view that the program waits on.       *)
BackComes ==
  pc = "setup" /\ splash = "up" /\ view = "idle" /\ cmds = <<>> =>
    \E i \in 1 .. Len(Coming) : Coming[i] = "BACK"

IInv == Types /\ Seqs /\ Shown /\ BackOnce /\ BackComes

-----------------------------------------------------------------------------
(* How the lines move.                                                     *)

(* The pump changes nothing.                                               *)
LEMMA PumpKeeps == ASSUME Seqs, Pump PROVE Coming' = Coming
<1>1. queue' \o pipe' = queue \o pipe
  BY DEF Seqs, Pump
<1> QED
  BY <1>1 DEF Coming

(* A reader takes the first.                                               *)
LEMMA GetTakes ==
  ASSUME Seqs, Get, pipe' = pipe
  PROVE  /\ Len(Coming) >= 1 /\ Coming[1] = Head(queue)
         /\ Len(Coming') = Len(Coming) - 1
         /\ \A i \in 1 .. Len(Coming') : Coming'[i] = Coming[i + 1]
<1>1. Coming' = Tail(queue) \o pipe
  BY DEF Get, Coming
<1>2. queue \in Seq(Line) /\ pipe \in Seq(Line) /\ queue # <<>>
  BY DEF Seqs, Get
<1> QED
  BY <1>1, <1>2 DEF Coming

(* What is printed comes last.                                             *)
LEMMA PrintAppends ==
  ASSUME Seqs, NEW r \in Seq(Line), pipe' = pipe \o r, queue' = queue
  PROVE  /\ Len(Coming') = Len(Coming) + Len(r)
         /\ \A i \in 1 .. Len(Coming) : Coming'[i] = Coming[i]
         /\ \A i \in 1 .. Len(r) : Coming'[Len(Coming) + i] = r[i]
<1>1. Coming' = queue \o (pipe \o r)
  BY DEF Coming
<1>2. queue \in Seq(Line) /\ pipe \in Seq(Line)
  BY DEF Seqs
<1> QED
  BY <1>1, <1>2 DEF Coming

(* The sequence is one of lines, and no speaker is a button.               *)
LEMMA ComingLines ==
  ASSUME Seqs
  PROVE  /\ Coming \in Seq(Line) /\ Len(Coming) \in Nat
         /\ \A i \in 1 .. Len(Coming) : Coming[i] \in Line
  BY DEF Seqs, Coming

LEMMA InFlightComing ==
  ASSUME Seqs, NEW l
  PROVE  InFlight(l) <=> \E i \in 1 .. Len(Coming) : Coming[i] = l
<1>1. queue \in Seq(Line) /\ pipe \in Seq(Line)
  BY DEF Seqs
<1>2. ASSUME NEW i \in DOMAIN pipe PROVE Len(queue) + i \in 1 .. Len(Coming) /\ Coming[Len(queue) + i] = pipe[i]
  BY <1>1 DEF Coming
<1>3. ASSUME NEW i \in DOMAIN queue PROVE i \in 1 .. Len(Coming) /\ Coming[i] = queue[i]
  BY <1>1 DEF Coming
<1>4. ASSUME NEW i \in 1 .. Len(Coming)
      PROVE  \/ i \in DOMAIN queue /\ Coming[i] = queue[i]
             \/ i - Len(queue) \in DOMAIN pipe /\ Coming[i] = pipe[i - Len(queue)]
  BY <1>1 DEF Coming
<1> QED
  BY <1>2, <1>3, <1>4 DEF InFlight

-----------------------------------------------------------------------------
(* The initial states.                                                     *)
LEMMA InitEstablishes == Init => IInv
<1> SUFFICES ASSUME Init PROVE IInv
  OBVIOUS
<1>1. Types
  BY BoundsAssumption DEF Init, Types
<1>2. Seqs /\ Coming = <<>>
  BY DEF Init, Seqs, Coming
<1>3. Shown /\ BackOnce /\ BackComes
  BY <1>2 DEF Init, Shown, BackOnce, BackComes
<1> QED
  BY <1>1, <1>2, <1>3 DEF IInv

(* What is sent, or the process that had to be started for it.             *)
LEMMA SendToSends ==
  ASSUME Types, Seqs, NEW cmd \in {"STATUS", "BT_SETUP"}, SendTo(cmd)
  PROVE  /\ splash' \in {"none", "up", "dead"} /\ view' \in {"idle", "setup"}
         /\ faults' \in Nat /\ faults' <= MaxFaults
         /\ cmds' \in Seq({"STATUS", "BT_SETUP"})
         /\ splash' = "up" => /\ cmds' # <<>> /\ cmds'[Len(cmds')] = cmd
                              /\ \/ splash = "up" /\ cmds' = Append(cmds, cmd) /\ view' = view
                                 \/ splash # "up" /\ cmds' = <<cmd>> /\ view' = "idle"
         /\ splash = "up" => splash' = "up" /\ view' = view
<1> USE DEF SendTo, Types, Seqs, Gone
<1>1. CASE splash = "up" /\ cmds' = Append(cmds, cmd) /\ UNCHANGED <<splash, view, faults>>
  <2>1. /\ cmds' \in Seq({"STATUS", "BT_SETUP"})
        /\ cmds' # <<>> /\ cmds'[Len(cmds')] = cmd
    BY <1>1
  <2> QED
    BY <1>1, <2>1
<1>2. CASE Gone /\ splash' = "up" /\ view' = "idle" /\ cmds' = <<cmd>> /\ UNCHANGED faults
  BY <1>2
<1>3. CASE Gone /\ faults < MaxFaults /\ faults' = faults + 1 /\ UNCHANGED <<splash, view, cmds>>
  BY <1>3, BoundsAssumption
<1> QED
  BY <1>1, <1>2, <1>3

(* The result of a helper.                                                 *)
LEMMA ResultLines ==
  ASSUME Types, NEW r \in Result(helper)
  PROVE  /\ r \in Seq(Line)
         /\ \/ r = <<>>
            \/ helper \in Helper /\ helper.speaker \in Speakers /\ r = <<helper.speaker>>
<1>1. CASE r = <<>>
  BY <1>1
<1>2. CASE r # <<>>
  <2>1. helper # None /\ r = <<helper.speaker>>
    BY <1>2 DEF Result
  <2>2. helper \in Helper
    BY <2>1 DEF Types
  <2>3. helper.speaker \in Speakers
    BY <2>2 DEF Helper
  <2> QED
    BY <2>1, <2>2, <2>3 DEF Line
<1> QED
  BY <1>1, <1>2

(* Each step keeps the types.                                              *)
LEMMA KeepsTypes == IInv /\ [Next]_vars => Types'
<1> SUFFICES ASSUME Types, Seqs, [Next]_vars PROVE Types'
  BY DEF IInv
<1>1. CASE EnterIdle \/ OpenSetup \/ PhoneComes \/ ShowAgain
  <2>1. PICK cmd \in {"STATUS", "BT_SETUP"} : SendTo(cmd)
    BY <1>1 DEF EnterIdle, OpenSetup, PhoneComes, ShowAgain
  <2>2. /\ pc' \in {"idle", "setup", "away"} /\ reading' \in {"call", reading}
        /\ UNCHANGED <<helper, saved, told>>
    BY <1>1 DEF EnterIdle, OpenSetup, PhoneComes, ShowAgain, program
  <2> QED
    BY <2>1, <2>2, SendToSends DEF Types
<1>2. CASE IdleLine \/ SetupLine
  <2>1. Head(queue) \in Line
    BY <1>2 DEF IdleLine, SetupLine, Get, Seqs
  <2> QED
    BY <1>2, <2>1 DEF IdleLine, SetupLine, Get, Types
<1>3. CASE Call \/ Pump \/ KillSplash \/ BackToIdle
  BY <1>3 DEF Call, Pump, KillSplash, BackToIdle, program, lines, Types
<1>4. CASE ReadCommand \/ PressSetup \/ PressBack
  BY <1>4 DEF ReadCommand, PressSetup, PressBack, program, lines, Types
<1>5. CASE TapSpeaker
  <2>1. PICK s \in Speakers : helper' = [speaker |-> s, step |-> "pairing"]
    BY <1>5 DEF TapSpeaker
  <2>2. helper' \in Helper
    BY <2>1 DEF Helper, Step
  <2>3. told' \in {None} \cup Speakers
    <3>1. PICK r \in Result(helper) : told' = IF r = <<>> THEN told ELSE helper.speaker
      BY <1>5 DEF TapSpeaker
    <3> QED
      BY <3>1, ResultLines DEF Types
  <2> QED
    BY <1>5, <2>2, <2>3 DEF TapSpeaker, Types, program
<1>6. CASE HelperSteps \/ ReportPaired
  <2>1. helper \in Helper /\ helper' \in {None} \cup Helper /\ helper.speaker \in Speakers
    BY <1>6 DEF HelperSteps, ReportPaired, Types, Helper, Step
  <2> QED
    BY <1>6, <2>1 DEF HelperSteps, ReportPaired, Types, program
<1>7. CASE SplashDies
  BY <1>7, BoundsAssumption DEF SplashDies, Types, program
<1>8. CASE UNCHANGED vars
  BY <1>8 DEF vars, program, Types
<1> QED
  BY <1>1, <1>2, <1>3, <1>4, <1>5, <1>6, <1>7, <1>8 DEF Next, Program, Screen, User, Phone

(* Each step keeps the sequences.                                          *)
LEMMA KeepsSeqs == IInv /\ [Next]_vars => Seqs'
<1> SUFFICES ASSUME Types, Seqs, [Next]_vars PROVE Seqs'
  BY DEF IInv
<1>1. CASE EnterIdle \/ OpenSetup \/ PhoneComes \/ ShowAgain
  <2>1. PICK cmd \in {"STATUS", "BT_SETUP"} : SendTo(cmd)
    BY <1>1 DEF EnterIdle, OpenSetup, PhoneComes, ShowAgain
  <2>2. UNCHANGED lines
    BY <1>1 DEF EnterIdle, OpenSetup, PhoneComes, ShowAgain
  <2> QED
    BY <2>1, <2>2, SendToSends DEF Seqs, lines
<1>2. CASE IdleLine \/ SetupLine \/ Call
  <2>1. cmds' = cmds /\ pipe' = pipe
    BY <1>2 DEF IdleLine, SetupLine, Call, lines
  <2>2. queue' = queue \/ (queue # <<>> /\ queue' = Tail(queue))
    BY <1>2 DEF IdleLine, SetupLine, Call, Get, lines
  <2>3. queue' \in Seq(Line)
    BY <2>2 DEF Seqs
  <2> QED
    BY <2>1, <2>3 DEF Seqs
<1>3. CASE Pump
  BY <1>3 DEF Pump, Seqs
<1>4. CASE KillSplash \/ BackToIdle \/ HelperSteps \/ SplashDies
  <2>1. queue' = queue /\ (pipe' = pipe \/ pipe' = <<>>) /\ (cmds' = cmds \/ cmds' = <<>>)
    BY <1>4 DEF KillSplash, BackToIdle, HelperSteps, SplashDies, lines
  <2>2. cmds' \in Seq({"STATUS", "BT_SETUP"})
    <3>1. <<>> \in Seq({"STATUS", "BT_SETUP"})
      OBVIOUS
    <3> QED
      BY <2>1, <3>1 DEF Seqs
  <2>3. pipe' \in Seq(Line)
    <3>1. <<>> \in Seq(Line)
      OBVIOUS
    <3> QED
      BY <2>1, <3>1 DEF Seqs
  <2> QED
    BY <2>1, <2>2, <2>3 DEF Seqs
<1>5. CASE ReadCommand
  <2>1. cmds' \in Seq({"STATUS", "BT_SETUP"}) /\ queue' = queue
    BY <1>5 DEF ReadCommand, Seqs
  <2>2. pipe' \in Seq(Line)
    <3>1. CASE pipe' = pipe
      BY <3>1 DEF Seqs
    <3>2. CASE \E r \in Result(helper) : pipe' = pipe \o r
      <4>1. PICK r \in Result(helper) : pipe' = pipe \o r
        BY <3>2
      <4>2. r \in Seq(Line)
        BY <4>1, ResultLines
      <4> QED
        BY <4>1, <4>2 DEF Seqs
    <3> QED
      BY <1>5, <3>1, <3>2 DEF ReadCommand
  <2> QED
    BY <2>1, <2>2 DEF Seqs
<1>6. CASE PressSetup \/ ReportPaired
  <2>1. PICK l \in Line : PrintLine(l)
    <3>1. helper \in Helper => helper.speaker \in Line
      BY DEF Helper, Line
    <3>2. CASE PressSetup
      BY <3>2 DEF PressSetup, Line
    <3>3. CASE ReportPaired
      BY <3>1, <3>3 DEF ReportPaired, Types
    <3> QED
      BY <1>6, <3>2, <3>3
  <2>2. cmds' = cmds /\ queue' = queue
    BY <1>6 DEF PressSetup, ReportPaired
  <2> QED
    BY <2>1, <2>2 DEF PrintLine, Seqs
<1>7. CASE PressBack
  <2>1. PICK r \in Result(helper) : pipe' = Append(pipe, "BACK") \o r
    BY <1>7 DEF PressBack
  <2>2. pipe' \in Seq(Line)
    BY <2>1, ResultLines DEF Seqs, Line
  <2> QED
    BY <1>7, <2>2 DEF PressBack, Seqs
<1>8. CASE TapSpeaker
  <2>1. pipe' \in Seq(Line)
    BY <1>8, ResultLines DEF TapSpeaker, Seqs
  <2> QED
    BY <1>8, <2>1 DEF TapSpeaker, Seqs
<1>9. CASE UNCHANGED vars
  BY <1>9 DEF vars, lines, Seqs
<1> QED
  BY <1>1, <1>2, <1>3, <1>4, <1>5, <1>6, <1>7, <1>8, <1>9 DEF Next, Program, Screen, User, Phone

(* Each step keeps what is shown.                                          *)
LEMMA KeepsShown == IInv /\ [Next]_vars => Shown'
<1> SUFFICES ASSUME IInv, [Next]_vars PROVE Shown'
  OBVIOUS
<1>0. Types /\ Seqs /\ Shown
  BY DEF IInv
<1>1. CASE EnterIdle \/ PhoneComes \/ ShowAgain
  <2>1. SendTo("STATUS") /\ pc # "setup" /\ pc' # "setup" /\ helper' = helper
    BY <1>1 DEF EnterIdle, PhoneComes, ShowAgain, program
  <2>2. ASSUME splash' = "up" PROVE \A i \in 1 .. Len(cmds') : cmds'[i] = "STATUS"
    <3>1. CASE splash = "up"
      <4>1. cmds' = Append(cmds, "STATUS")
        BY <1>0, <2>1, <2>2, <3>1, SendToSends
      <4>2. \A i \in 1 .. Len(cmds) : cmds[i] = "STATUS"
        BY <1>0, <2>1, <3>1 DEF Shown
      <4> QED
        BY <1>0, <4>1, <4>2 DEF Seqs
    <3>2. CASE splash # "up"
      <4>1. cmds' = <<"STATUS">>
        BY <1>0, <2>1, <2>2, <3>2, SendToSends
      <4> QED
        BY <4>1
    <3> QED
      BY <3>1, <3>2
  <2>3. splash' = "up" => view' = "idle"
    BY <1>0, <2>1, SendToSends DEF Shown, Types
  <2> QED
    BY <1>0, <2>1, <2>2, <2>3, SendToSends DEF Shown
<1>2. CASE OpenSetup
  <2>1. SendTo("BT_SETUP") /\ pc = "opening" /\ pc' = "setup" /\ helper' = helper
    BY <1>2 DEF OpenSetup
  <2> QED
    <3>1. ASSUME splash' = "up"
          PROVE  \A i \in 1 .. Len(cmds') - 1 : cmds'[i] = "STATUS"
      <4>1. CASE splash = "up"
        <5>1. cmds' = Append(cmds, "BT_SETUP")
          BY <1>0, <2>1, <3>1, <4>1, SendToSends
        <5>2. \A i \in 1 .. Len(cmds) : cmds[i] = "STATUS"
          BY <1>0, <2>1, <4>1 DEF Shown
        <5> QED
          BY <1>0, <5>1, <5>2 DEF Seqs
      <4>2. CASE splash # "up"
        <5>1. cmds' = <<"BT_SETUP">>
          BY <1>0, <2>1, <3>1, <4>2, SendToSends
        <5> QED
          BY <5>1
      <4> QED
        BY <4>1, <4>2
    <3>2. splash' = "up" => view' = "idle" /\ cmds' # <<>> /\ cmds'[Len(cmds')] = "BT_SETUP"
      BY <1>0, <2>1, SendToSends DEF Shown, Types
    <3>3. helper = None \/ (view = "setup" /\ splash = "up")
      BY <1>0 DEF Shown
    <3>4. helper = None
      BY <1>0, <2>1, <3>3 DEF Shown
    <3> QED
      BY <2>1, <3>1, <3>2, <3>4 DEF Shown
<1>3. CASE SetupLine
  <2>1. UNCHANGED <<splash, cmds, view, helper>> /\ pc = "setup"
    BY <1>3 DEF SetupLine
  <2>2. CASE Head(queue) = "BACK"
    <3>1. Coming[1] = "BACK" /\ 1 \in 1 .. Len(Coming)
      BY <1>0, <1>3, <2>2, GetTakes, ComingLines DEF SetupLine
    <3>2. splash = "up" => view = "idle" /\ cmds = <<>>
      BY <3>1 DEF IInv, BackOnce
    <3> QED
      BY <1>0, <2>1, <3>2 DEF Shown
  <2>3. CASE Head(queue) # "BACK"
    BY <1>0, <1>3, <2>1, <2>3 DEF SetupLine, Shown
  <2> QED
    BY <2>2, <2>3
<1>4. CASE IdleLine
  BY <1>0, <1>4 DEF IdleLine, Shown
<1>5. CASE Call
  BY <1>0, <1>5 DEF Call, Gone, Shown
<1>6. CASE ReadCommand
  <2>1. splash = "up" /\ cmds # <<>> /\ cmds' = Tail(cmds) /\ pc' = pc /\ splash' = splash
    BY <1>6 DEF ReadCommand, program
  <2>2. view = "idle" /\ helper = None
    BY <1>0, <2>1 DEF Shown, Types
  <2>3. helper' = None /\ view' = IF Head(cmds) = "STATUS" THEN "idle" ELSE "setup"
    BY <1>6, <2>2 DEF ReadCommand
  <2>4. CASE pc = "setup"
    <3>1. cmds[Len(cmds)] = "BT_SETUP" /\ \A i \in 1 .. Len(cmds) - 1 : cmds[i] = "STATUS"
      BY <1>0, <2>1, <2>4 DEF Shown
    <3>2. CASE Len(cmds) = 1
      <4>1. cmds' = <<>>
        BY <1>0, <2>1, <3>2 DEF Seqs
      <4> QED
        BY <2>1, <2>3, <2>4, <4>1 DEF Shown
    <3>3. CASE Len(cmds) # 1
      <4>0. Len(cmds) > 1
        <5>1. cmds \in Seq({"STATUS", "BT_SETUP"}) /\ cmds # <<>>
          BY <1>0, <2>1 DEF Seqs
        <5>2. Len(cmds) \in Nat /\ Len(cmds) # 0
          BY <5>1
        <5>3. PICK n \in Nat : n = Len(cmds)
          BY <5>2
        <5>4. n # 0 /\ n # 1
          BY <3>3, <5>2, <5>3
        <5>5. n > 1
          BY <5>4
        <5> QED
          BY <5>3, <5>5, Zenon
      <4>1. cmds' # <<>> /\ Len(cmds') = Len(cmds) - 1 /\ Head(cmds) = cmds[1]
            /\ \A i \in 1 .. Len(cmds') : cmds'[i] = cmds[i + 1]
        BY <1>0, <2>1, <4>0 DEF Seqs
      <4>2. cmds'[Len(cmds')] = "BT_SETUP" /\ Head(cmds) = "STATUS"
            /\ \A i \in 1 .. Len(cmds') - 1 : cmds'[i] = "STATUS"
        BY <1>0, <3>1, <4>0, <4>1 DEF Seqs
      <4> QED
        BY <2>1, <2>3, <2>4, <4>2 DEF Shown
    <3> QED
      BY <3>2, <3>3
  <2>5. CASE pc # "setup"
    <3>1. \A i \in 1 .. Len(cmds) : cmds[i] = "STATUS"
      BY <1>0, <2>1, <2>5 DEF Shown
    <3>2. cmds \in Seq({"STATUS", "BT_SETUP"}) /\ cmds # <<>>
      BY <1>0, <2>1 DEF Seqs
    <3>3. Len(cmds') = Len(cmds) - 1 /\ Head(cmds) = cmds[1] /\ 1 \in 1 .. Len(cmds)
          /\ \A i \in 1 .. Len(cmds') : i + 1 \in 1 .. Len(cmds) /\ cmds'[i] = cmds[i + 1]
      BY <2>1, <3>2
    <3>4. Head(cmds) = "STATUS" /\ \A i \in 1 .. Len(cmds') : cmds'[i] = "STATUS"
      BY <3>1, <3>3
    <3> QED
      BY <2>1, <2>3, <2>5, <3>4 DEF Shown
  <2> QED
    BY <2>4, <2>5
<1>7. CASE PressSetup \/ PressBack \/ TapSpeaker \/ HelperSteps \/ ReportPaired
  BY <1>0, <1>7 DEF PressSetup, PressBack, TapSpeaker, HelperSteps, ReportPaired, program, lines, Shown
<1>8. CASE Pump \/ KillSplash \/ BackToIdle \/ SplashDies
  BY <1>0, <1>8 DEF Pump, KillSplash, BackToIdle, SplashDies, program, Shown
<1>9. CASE UNCHANGED vars
  BY <1>0, <1>9 DEF vars, program, Shown
<1> QED
  BY <1>1, <1>2, <1>3, <1>4, <1>5, <1>6, <1>7, <1>8, <1>9 DEF Next, Program, Screen, User, Phone

-----------------------------------------------------------------------------
(* A line other than Back is printed only by a process that shows the      *)
(* set-up, or is the button of the idle view.                              *)
LEMMA KeepsBackOnce == IInv /\ [Next]_vars => BackOnce'
<1> SUFFICES ASSUME IInv, [Next]_vars PROVE BackOnce'
  OBVIOUS
<1>0. Types /\ Seqs /\ Shown /\ BackOnce /\ Coming \in Seq(Line) /\ Len(Coming) \in Nat
  BY ComingLines DEF IInv
<1> DEFINE Waits == pc = "setup" /\ (splash = "up" => view = "idle" /\ cmds = <<>>)
           NoBack == \A i \in 1 .. Len(Coming) : Coming[i] # "BACK"
<1>1. pc # "setup" => NoBack
  BY <1>0 DEF BackOnce
<1>2. splash = "up" /\ (view = "setup" \/ cmds # <<>>) => NoBack
  BY <1>0 DEF BackOnce
<1>3. ASSUME Coming' = Coming, NoBack \/ Waits' PROVE BackOnce'
  BY <1>0, <1>3 DEF BackOnce
<1>4. CASE EnterIdle \/ OpenSetup \/ PhoneComes \/ ShowAgain
  <2>1. pc # "setup" /\ Coming' = Coming
    BY <1>4 DEF EnterIdle, OpenSetup, PhoneComes, ShowAgain, lines, Coming
  <2> QED
    BY <1>1, <1>3, <2>1
<1>5. CASE IdleLine \/ SetupLine
  <2>1. /\ Len(Coming) >= 1 /\ Coming[1] = Head(queue) /\ Len(Coming') = Len(Coming) - 1
        /\ \A i \in 1 .. Len(Coming') : Coming'[i] = Coming[i + 1]
    BY <1>0, <1>5, GetTakes DEF IdleLine, SetupLine
  <2>2. ASSUME NEW i \in 1 .. Len(Coming'), Coming'[i] = "BACK" PROVE Waits' /\ Coming[i + 1] = "BACK"
    <3>1. i + 1 \in 1 .. Len(Coming) /\ Coming[i + 1] = "BACK" /\ 1 \in 1 .. Len(Coming) /\ i + 1 # 1
      BY <1>0, <2>1, <2>2
    <3>2. Coming[1] # "BACK" /\ Waits
      BY <1>0, <3>1 DEF BackOnce
    <3> QED
      BY <1>5, <2>1, <3>1, <3>2 DEF IdleLine, SetupLine
  <2>3. ASSUME NEW i \in 1 .. Len(Coming'), NEW j \in 1 .. Len(Coming'),
               Coming'[i] = "BACK", Coming'[j] = "BACK"
        PROVE  i = j
    <3>1. i + 1 \in 1 .. Len(Coming) /\ j + 1 \in 1 .. Len(Coming) /\ i \in Nat /\ j \in Nat
      BY <1>0, <2>1
    <3>2. Coming[i + 1] = "BACK" /\ Coming[j + 1] = "BACK"
      BY <2>2, <2>3
    <3>3. i + 1 = j + 1
      BY <1>0, <3>1, <3>2 DEF BackOnce
    <3> QED
      BY <3>1, <3>3
  <2> QED
    BY <2>2, <2>3 DEF BackOnce
<1>6. CASE Call
  <2>1. CASE Gone /\ queue = <<>>
    <3>1. Coming' = <<>>
      BY <1>6, <2>1 DEF Call, Gone, Coming, lines
    <3> QED
      BY <3>1 DEF BackOnce
  <2>2. CASE ~(Gone /\ queue = <<>>)
    <3>1. Coming' = Coming /\ UNCHANGED <<pc, splash, view, cmds>>
      BY <1>6, <2>2 DEF Call, Coming, lines
    <3> QED
      BY <1>0, <3>1 DEF BackOnce
  <2> QED
    BY <2>1, <2>2
<1>7. CASE Pump
  <2>1. Coming' = Coming /\ UNCHANGED <<pc, splash, view, cmds>>
    BY <1>0, <1>7, PumpKeeps DEF Pump, program
  <2> QED
    BY <1>0, <2>1 DEF BackOnce
<1>8. CASE KillSplash
  <2>1. Coming' = queue /\ pc = "away" /\ queue \in Seq(Line) /\ pipe \in Seq(Line)
    BY <1>0, <1>8 DEF KillSplash, Coming, Seqs
  <2>2. \A i \in 1 .. Len(queue) : i \in 1 .. Len(Coming) /\ Coming[i] = queue[i]
    BY <2>1 DEF Coming
  <2> QED
    BY <1>1, <2>1, <2>2 DEF BackOnce
<1>9. CASE BackToIdle \/ HelperSteps \/ SplashDies
  <2>1. Coming' = Coming /\ (pc = "away" \/ (pc' = pc /\ (UNCHANGED <<splash, view, cmds>> \/ splash' = "dead")))
    BY <1>9 DEF BackToIdle, HelperSteps, SplashDies, program, lines, Coming
  <2> QED
    BY <1>0, <1>1, <1>3, <2>1 DEF BackOnce
<1>10. ASSUME NEW r \in Seq(Line), pipe' = pipe \o r, queue' = queue, NoBack,
              \A i \in 1 .. Len(r) : r[i] = "BACK" => i = 1 /\ Waits'
       PROVE  BackOnce'
  <2>1. /\ Len(Coming') = Len(Coming) + Len(r)
        /\ \A i \in 1 .. Len(Coming) : Coming'[i] = Coming[i]
        /\ \A i \in 1 .. Len(r) : Coming'[Len(Coming) + i] = r[i]
    BY <1>0, <1>10, PrintAppends
  <2>2. ASSUME NEW i \in 1 .. Len(Coming'), Coming'[i] = "BACK" PROVE i = Len(Coming) + 1 /\ Waits'
    <3>1. Len(r) \in Nat
      OBVIOUS
    <3>2. i \notin 1 .. Len(Coming)
      BY <1>10, <2>1, <2>2
    <3>3. i - Len(Coming) \in 1 .. Len(r) /\ i = Len(Coming) + (i - Len(Coming))
      BY <1>0, <2>1, <3>1, <3>2
    <3>4. r[i - Len(Coming)] = "BACK"
      BY <2>1, <2>2, <3>3
    <3> QED
      BY <1>0, <1>10, <3>3, <3>4
  <2> QED
    BY <2>2 DEF BackOnce
<1>11. CASE ReadCommand
  <2>1. /\ view = "idle" /\ helper = None /\ splash = "up" /\ cmds # <<>> /\ NoBack
        /\ UNCHANGED queue
    BY <1>0, <1>2, <1>11 DEF ReadCommand, Shown, Types
  <2>2. pipe' = pipe \/ pipe' = pipe \o <<>>
    BY <1>11, <2>1 DEF ReadCommand, Result
  <2>3. Coming' = Coming
    BY <1>0, <2>1, <2>2 DEF Coming, Seqs
  <2> QED
    BY <1>3, <2>1, <2>3
<1>12. CASE PressSetup
  <2>1. pipe' = pipe \o <<"SETUP">> /\ UNCHANGED <<queue, pc, splash, view, cmds>>
    BY <1>0, <1>12 DEF PressSetup, PrintLine, Seqs, program
  <2>2. CASE NoBack
    <3>1. <<"SETUP">> \in Seq(Line)
      BY DEF Line
    <3>2. \A i \in 1 .. Len(<<"SETUP">>) : <<"SETUP">>[i] # "BACK"
      OBVIOUS
    <3> QED
      BY <1>10, <2>1, <2>2, <3>1, <3>2
  <2>3. CASE ~NoBack
    <3>1. <<"SETUP">> \in Seq(Line) /\ Len(<<"SETUP">>) = 1 /\ <<"SETUP">>[1] = "SETUP"
      BY DEF Line
    <3>2. /\ Len(Coming') = Len(Coming) + 1
          /\ \A i \in 1 .. Len(Coming) : Coming'[i] = Coming[i]
          /\ Coming'[Len(Coming) + 1] = "SETUP"
      <4>1. /\ Len(Coming') = Len(Coming) + Len(<<"SETUP">>)
            /\ \A i \in 1 .. Len(Coming) : Coming'[i] = Coming[i]
            /\ \A i \in 1 .. Len(<<"SETUP">>) : Coming'[Len(Coming) + i] = <<"SETUP">>[i]
        BY <1>0, <2>1, <3>1, PrintAppends
      <4> QED
        BY <3>1, <4>1
    <3>3. \A i \in 1 .. Len(Coming') : Coming'[i] = "BACK" => i \in 1 .. Len(Coming) /\ Coming[i] = "BACK"
      BY <1>0, <3>2
    <3> QED
      BY <1>0, <2>1, <3>3 DEF BackOnce
  <2> QED
    BY <2>2, <2>3
<1>13. CASE PressBack
  <2>1. NoBack /\ Waits' /\ queue' = queue
    BY <1>0, <1>2, <1>13 DEF PressBack, Shown, program
  <2>2. PICK r \in Result(helper) : pipe' = Append(pipe, "BACK") \o r
    BY <1>13 DEF PressBack
  <2>3. r = <<>> \/ \E x \in Speakers : r = <<x>>
    BY <1>0, <2>2, ResultLines
  <2>4. CASE r = <<>>
    <3>1. <<"BACK">> \in Seq(Line)
      BY DEF Line
    <3>2. pipe' = pipe \o <<"BACK">>
      <4>1. pipe \in Seq(Line)
        BY <1>0 DEF Seqs
      <4> QED
        BY <2>2, <2>4, <3>1, <4>1
    <3>3. \A i \in 1 .. Len(<<"BACK">>) : <<"BACK">>[i] = "BACK" => i = 1
      OBVIOUS
    <3> QED
      BY <1>10, <2>1, <3>1, <3>2, <3>3
  <2>5. CASE \E x \in Speakers : r = <<x>>
    <3>1. PICK x \in Speakers : r = <<x>>
      BY <2>5
    <3>2. <<"BACK", x>> \in Seq(Line) /\ x # "BACK" /\ x \in Line
      BY <3>1, SpeakersAssumption DEF Line
    <3>3. pipe' = pipe \o <<"BACK", x>>
      <4>1. pipe \in Seq(Line) /\ "BACK" \in Line
        BY <1>0 DEF Seqs, Line
      <4>2. Append(pipe, "BACK") \o <<x>> = pipe \o <<"BACK", x>>
        BY <3>2, <4>1
      <4> QED
        BY <2>2, <3>1, <4>2
    <3>4. \A i \in 1 .. Len(<<"BACK", x>>) : <<"BACK", x>>[i] = "BACK" => i = 1
      BY <3>2
    <3> QED
      BY <1>10, <2>1, <3>2, <3>3, <3>4
  <2> QED
    BY <2>3, <2>4, <2>5
<1>14. CASE TapSpeaker \/ ReportPaired
  <2>1. /\ NoBack /\ queue' = queue
    BY <1>0, <1>2, <1>14 DEF TapSpeaker, ReportPaired, Shown
  <2>2. pipe' = pipe \o <<>> \/ \E x \in Speakers : pipe' = pipe \o <<x>>
    <3>1. CASE TapSpeaker
      <4>1. PICK r \in Result(helper) : pipe' = pipe \o r
        BY <3>1 DEF TapSpeaker
      <4> QED
        BY <1>0, <4>1, ResultLines
    <3>2. CASE ReportPaired
      <4>1. helper.speaker \in Speakers /\ pipe' = Append(pipe, helper.speaker)
        BY <1>0, <3>2 DEF ReportPaired, PrintLine, Types, Helper
      <4>2. helper.speaker \in Line /\ pipe \in Seq(Line)
        BY <1>0, <4>1 DEF Seqs, Line
      <4>3. pipe' = pipe \o <<helper.speaker>>
        BY <4>1, <4>2
      <4> QED
        BY <4>1, <4>3
    <3> QED
      BY <1>14, <3>1, <3>2
  <2>3. CASE pipe' = pipe \o <<>>
    <3>1. <<>> \in Seq(Line) /\ \A i \in 1 .. Len(<<>>) : <<>>[i] # "BACK"
      OBVIOUS
    <3> QED
      BY <1>10, <2>1, <2>3, <3>1
  <2>4. CASE \E x \in Speakers : pipe' = pipe \o <<x>>
    <3>1. PICK x \in Speakers : pipe' = pipe \o <<x>>
      BY <2>4
    <3>2. <<x>> \in Seq(Line) /\ x # "BACK"
      BY SpeakersAssumption DEF Line
    <3>3. \A i \in 1 .. Len(<<x>>) : <<x>>[i] # "BACK"
      BY <3>2
    <3> QED
      BY <1>10, <2>1, <3>1, <3>2, <3>3
  <2> QED
    BY <2>2, <2>3, <2>4
<1>15. CASE UNCHANGED vars
  <2>1. Coming' = Coming /\ UNCHANGED <<pc, splash, view, cmds>>
    BY <1>15 DEF vars, program, lines, Coming
  <2> QED
    BY <1>0, <2>1 DEF BackOnce
<1> QED
  BY <1>4, <1>5, <1>6, <1>7, <1>8, <1>9, <1>11, <1>12, <1>13, <1>14, <1>15
     DEF Next, Program, Screen, User, Phone

(* The Back of a user who has left the view stays on its way.              *)
LEMMA KeepsBackComes == IInv /\ [Next]_vars => BackComes'
<1> SUFFICES ASSUME IInv, [Next]_vars, pc' = "setup", splash' = "up", view' = "idle", cmds' = <<>>
             PROVE  \E i \in 1 .. Len(Coming') : Coming'[i] = "BACK"
  BY DEF BackComes
<1>0. Types /\ Seqs /\ Shown /\ BackComes /\ Coming \in Seq(Line) /\ Len(Coming) \in Nat
  BY ComingLines DEF IInv
<1>1. ASSUME UNCHANGED <<pc, splash, view, cmds>> PROVE \E i \in 1 .. Len(Coming) : Coming[i] = "BACK"
  BY <1>0, <1>1 DEF BackComes
<1>2. CASE EnterIdle \/ IdleLine \/ PhoneComes \/ KillSplash \/ ShowAgain \/ BackToIdle
  BY <1>2 DEF EnterIdle, IdleLine, PhoneComes, KillSplash, ShowAgain, BackToIdle, program
<1>3. CASE OpenSetup
  BY <1>0, <1>3, SendToSends DEF OpenSetup
<1>4. CASE SetupLine
  <2>1. UNCHANGED <<pc, splash, view, cmds>> /\ Head(queue) # "BACK"
    BY <1>4 DEF SetupLine
  <2>2. PICK i \in 1 .. Len(Coming) : Coming[i] = "BACK"
    BY <1>1, <2>1
  <2>3. /\ Len(Coming) >= 1 /\ Coming[1] = Head(queue) /\ Len(Coming') = Len(Coming) - 1
        /\ \A j \in 1 .. Len(Coming') : Coming'[j] = Coming[j + 1]
    BY <1>0, <1>4, GetTakes DEF SetupLine
  <2>4. i # 1
    BY <2>1, <2>2, <2>3
  <2>5. i - 1 \in 1 .. Len(Coming') /\ (i - 1) + 1 = i
    BY <1>0, <2>3, <2>4
  <2> QED
    BY <2>2, <2>3, <2>5
<1>5. CASE Call \/ Pump \/ HelperSteps \/ UNCHANGED vars
  <2>1. UNCHANGED <<pc, splash, view, cmds>>
    BY <1>5 DEF Call, Pump, HelperSteps, vars, program
  <2>2. Coming' = Coming
    <3>1. CASE Pump
      BY <1>0, <3>1, PumpKeeps
    <3>2. CASE Call \/ HelperSteps \/ UNCHANGED vars
      BY <3>2 DEF Call, HelperSteps, vars, lines, Coming
    <3> QED
      BY <1>5, <3>1, <3>2
  <2> QED
    BY <1>1, <2>1, <2>2
<1>6. CASE ReadCommand
  <2>1. pc = "setup" /\ splash = "up" /\ cmds # <<>> /\ Tail(cmds) = <<>> /\ Head(cmds) = "STATUS"
    BY <1>6 DEF ReadCommand, program
  <2>2. cmds[Len(cmds)] = "BT_SETUP"
    BY <1>0, <2>1 DEF Shown
  <2>3. cmds \in Seq({"STATUS", "BT_SETUP"})
    BY <1>0 DEF Seqs
  <2>4. Head(cmds) = cmds[1] /\ Len(Tail(cmds)) = Len(cmds) - 1 /\ Len(cmds) \in Nat
    BY <2>1, <2>3
  <2>5. Len(Tail(cmds)) = 0
    <3>1. Len(<<>>) = 0
      OBVIOUS
    <3> QED
      BY <2>1, <3>1, Zenon
  <2> QED
    BY <2>1, <2>2, <2>4, <2>5
<1>7. CASE TapSpeaker \/ ReportPaired
  BY <1>0, <1>7 DEF TapSpeaker, ReportPaired, Shown
<1>8. CASE PressSetup
  <2>1. pipe' = pipe \o <<"SETUP">> /\ queue' = queue /\ <<"SETUP">> \in Seq(Line)
    BY <1>0, <1>8 DEF PressSetup, PrintLine, Seqs, Line
  <2>2. Len(Coming') = Len(Coming) + Len(<<"SETUP">>) /\ \A i \in 1 .. Len(Coming) : Coming'[i] = Coming[i]
    BY <1>0, <2>1, PrintAppends
  <2>3. PICK i \in 1 .. Len(Coming) : Coming[i] = "BACK"
    BY <1>1, <1>8 DEF PressSetup, program
  <2>4. i \in 1 .. Len(Coming')
    BY <1>0, <2>2
  <2> QED
    BY <2>2, <2>3, <2>4
<1>9. CASE PressBack
  <2>1. PICK r \in Result(helper) : pipe' = Append(pipe, "BACK") \o r
    BY <1>9 DEF PressBack
  <2>2. r \in Seq(Line) /\ pipe \in Seq(Line) /\ "BACK" \in Line /\ queue' = queue
    BY <1>0, <1>9, ResultLines DEF Seqs, Line, PressBack
  <2>3. pipe' = pipe \o (<<"BACK">> \o r) /\ <<"BACK">> \o r \in Seq(Line)
    BY <2>1, <2>2
  <2>4. Len(<<"BACK">> \o r) \in Nat /\ 1 \in 1 .. Len(<<"BACK">> \o r) /\ (<<"BACK">> \o r)[1] = "BACK"
    BY <2>2
  <2>5. Len(Coming') = Len(Coming) + Len(<<"BACK">> \o r) /\ Coming'[Len(Coming) + 1] = "BACK"
    BY <1>0, <2>2, <2>3, <2>4, PrintAppends
  <2>6. Len(Coming) + 1 \in 1 .. Len(Coming')
    BY <1>0, <2>4, <2>5
  <2> QED
    BY <2>5, <2>6
<1>10. CASE SplashDies
  BY <1>10 DEF SplashDies
<1> QED
  BY <1>2, <1>3, <1>4, <1>5, <1>6, <1>7, <1>8, <1>9, <1>10 DEF Next, Program, Screen, User, Phone

LEMMA Invariance == Spec => []IInv
<1>1. IInv /\ [Next]_vars => IInv'
  BY KeepsTypes, KeepsSeqs, KeepsShown, KeepsBackOnce, KeepsBackComes DEF IInv
<1> QED
  BY <1>1, InitEstablishes, PTL DEF Spec

-----------------------------------------------------------------------------
(***************************************************************************)
(* The types, and that the helper runs behind the set-up view only.        *)
(***************************************************************************)
THEOREM TypeCorrect == Spec => []TypeOK
<1>1. IInv => TypeOK
  BY BoundsAssumption DEF IInv, Types, Seqs, Shown, TypeOK
<1> QED
  BY <1>1, Invariance, PTL

(***************************************************************************)
(* The screen and the program agree, for any number of lines on their way  *)
(* and any number of processes that died.                                  *)
(***************************************************************************)
THEOREM ScreenAgrees == Spec => []NeverStuck
<1>1. IInv => NeverStuck
  <2> SUFFICES ASSUME IInv, pc = "setup", splash = "up", view = "idle"
               PROVE  InFlight("BACK") \/ \E i \in DOMAIN cmds : cmds[i] = "BT_SETUP"
    BY DEF NeverStuck
  <2>1. CASE cmds = <<>>
    BY <2>1, InFlightComing DEF IInv, BackComes
  <2>2. CASE cmds # <<>>
    <3>1. cmds[Len(cmds)] = "BT_SETUP" /\ cmds \in Seq({"STATUS", "BT_SETUP"})
      BY <2>2 DEF IInv, Shown, Seqs
    <3>2. Len(cmds) \in DOMAIN cmds
      BY <2>2, <3>1
    <3> QED
      BY <3>1, <3>2
  <2> QED
    BY <2>1, <2>2
<1> QED
  BY <1>1, Invariance, PTL

(***************************************************************************)
(* No stale line closes the set-up under the user's hand.                  *)
(***************************************************************************)
THEOREM SetupStays == Spec => SetupKept
<1>1. IInv /\ [Next]_vars => (pc = "setup" /\ pc' = "enter" => view = "idle" \/ splash # "up")
  <2> SUFFICES ASSUME IInv, [Next]_vars, pc = "setup", pc' = "enter"
               PROVE  view = "idle" \/ splash # "up"
    OBVIOUS
  <2>1. SetupLine \/ Call
    BY DEF Next, Program, EnterIdle, IdleLine, OpenSetup, Phone, PhoneComes, KillSplash, ShowAgain,
           BackToIdle, Pump, Screen, ReadCommand, HelperSteps, ReportPaired, User, PressSetup,
           PressBack, TapSpeaker, SplashDies, program, vars
  <2>2. CASE Call
    BY <2>2 DEF Call, Gone
  <2>3. CASE SetupLine
    <3>1. Seqs /\ Get /\ pipe' = pipe /\ Head(queue) = "BACK"
      BY <2>3 DEF SetupLine, IInv
    <3>2. 1 \in 1 .. Len(Coming) /\ Coming[1] = "BACK"
      BY <3>1, GetTakes, ComingLines
    <3> QED
      BY <3>2 DEF IInv, BackOnce
  <2> QED
    BY <2>1, <2>2, <2>3
<1> QED
  BY <1>1, Invariance, PTL DEF Spec, SetupKept

-----------------------------------------------------------------------------
(* What the view said last is what will have been saved when the lines     *)
(* before Back have been read: the speaker at the place i of the lines, or *)
(* the saved one where i is 0.                                             *)
At(i) == IF i = 0 THEN saved ELSE Coming[i]

Settles(i) ==
  /\ At(i) = told
  /\ \A k \in 1 .. i : Coming[k] # "BACK"
  /\ \A j \in i + 1 .. Len(Coming) :
       Coming[j] \in Speakers => \E k \in i + 1 .. j : Coming[k] = "BACK"

ToldKept ==
  told # None => IF pc = "setup" THEN \E i \in 0 .. Len(Coming) : Settles(i) ELSE saved = told

(* Pairings that are still among the lines when the set-up is left are     *)
(* dropped before the button is read that opens it again.                  *)
StaleDropped ==
  /\ pc = "opening" => \A j \in 1 .. Len(Coming) : Coming[j] \notin Speakers
  /\ pc \in {"enter", "idle", "away"} =>
       \A i, j \in 1 .. Len(Coming) : i < j /\ Coming[i] = "SETUP" => Coming[j] \notin Speakers
  /\ pc = "setup" =>
       \A i, j, k \in 1 .. Len(Coming) :
         i < j /\ j < k /\ Coming[i] = "BACK" /\ Coming[j] = "SETUP" => Coming[k] \notin Speakers

(* A step that leaves the lines and the place of the program alone.        *)
LEMMA SameLines ==
  ASSUME ToldKept, StaleDropped, Coming' = Coming, saved' = saved,
         told' = told \/ told' = None, pc' = pc
  PROVE  ToldKept' /\ StaleDropped'
<1>1. StaleDropped'
  BY DEF StaleDropped
<1>2. ASSUME told' # None, pc = "setup" PROVE \E i \in 0 .. Len(Coming') : Settles(i)'
  <2>1. PICK i \in 0 .. Len(Coming) : Settles(i)
    BY <1>2 DEF ToldKept
  <2>2. Settles(i)'
    BY <1>2, <2>1 DEF Settles, At
  <2> QED
    BY <2>1, <2>2
<1>3. ASSUME told' # None, pc # "setup" PROVE saved' = told'
  BY <1>3 DEF ToldKept
<1> QED
  BY <1>1, <1>2, <1>3 DEF ToldKept

(* A reader of the set-up takes the first line.                            *)
LEMMA SetupLineKeepsTold ==
  ASSUME IInv, ToldKept, StaleDropped, SetupLine
  PROVE  ToldKept' /\ StaleDropped'
<1>0. /\ Types /\ Seqs /\ Coming \in Seq(Line) /\ Len(Coming) \in Nat
      /\ Len(Coming) >= 1 /\ Coming[1] = Head(queue) /\ Len(Coming') = Len(Coming) - 1
      /\ \A i \in 1 .. Len(Coming') : Coming'[i] = Coming[i + 1]
  BY GetTakes, ComingLines DEF IInv, SetupLine
<1>1. /\ pc = "setup" /\ told' = told
      /\ pc' = IF Coming[1] = "BACK" THEN "enter" ELSE "setup"
      /\ saved' = IF Coming[1] \in Speakers THEN Coming[1] ELSE saved
  BY <1>0 DEF SetupLine
<1>2. StaleDropped'
  <2>1. \A i \in 1 .. Len(Coming') : i + 1 \in 1 .. Len(Coming) /\ Coming'[i] = Coming[i + 1]
    BY <1>0
  <2>2. CASE Coming[1] = "BACK"
    <3>1. ASSUME NEW i \in 1 .. Len(Coming'), NEW j \in 1 .. Len(Coming'), i < j, Coming'[i] = "SETUP"
          PROVE  Coming'[j] \notin Speakers
      <4>1. 1 < i + 1 /\ i + 1 < j + 1 /\ 1 \in 1 .. Len(Coming)
        BY <1>0, <3>1
      <4>2. Coming[i + 1] = "SETUP"
        BY <2>1, <3>1
      <4>3. Coming[j + 1] \notin Speakers
        BY <1>1, <2>1, <2>2, <4>1, <4>2 DEF StaleDropped
      <4> QED
        BY <2>1, <4>3
    <3> QED
      BY <1>1, <2>2, <3>1 DEF StaleDropped
  <2>3. CASE Coming[1] # "BACK"
    <3>1. ASSUME NEW i \in 1 .. Len(Coming'), NEW j \in 1 .. Len(Coming'), NEW k \in 1 .. Len(Coming'),
                 i < j, j < k, Coming'[i] = "BACK", Coming'[j] = "SETUP"
          PROVE  Coming'[k] \notin Speakers
      <4>1. i + 1 < j + 1 /\ j + 1 < k + 1
        BY <1>0, <3>1
      <4>2. Coming[i + 1] = "BACK" /\ Coming[j + 1] = "SETUP"
        BY <2>1, <3>1
      <4>3. Coming[k + 1] \notin Speakers
        BY <1>1, <2>1, <4>1, <4>2 DEF StaleDropped
      <4> QED
        BY <2>1, <4>3
    <3> QED
      BY <1>1, <2>3, <3>1 DEF StaleDropped
  <2> QED
    BY <2>2, <2>3
<1>3. ToldKept'
  <2> SUFFICES ASSUME told # None
               PROVE  IF pc' = "setup" THEN \E i \in 0 .. Len(Coming') : Settles(i)' ELSE saved' = told
    BY <1>1 DEF ToldKept
  <2>1. PICK i \in 0 .. Len(Coming) : Settles(i)
    BY <1>1 DEF ToldKept
  <2>2. CASE Coming[1] = "BACK"
    <3>1. i = 0
      BY <1>0, <2>1, <2>2 DEF Settles
    <3>2. saved = told /\ Coming[1] \notin Speakers
      BY <2>1, <2>2, <3>1, SpeakersAssumption DEF Settles, At
    <3> QED
      BY <1>1, <2>2, <3>2
  <2>3. CASE Coming[1] # "BACK"
    <3> DEFINE n == IF i = 0 THEN 0 ELSE i - 1
    <3>1. n \in 0 .. Len(Coming')
      BY <1>0
    <3>2. At(n)' = told
      <4>1. CASE i = 0
        <5>1. Coming[1] \notin Speakers
          <6>1. 1 \in 1 .. Len(Coming)
            BY <1>0
          <6>2. Coming[1] \in Speakers => \E k \in 1 .. 1 : Coming[k] = "BACK"
            BY <2>1, <4>1, <6>1 DEF Settles
          <6> QED
            BY <2>3, <6>2
        <5>2. saved = told
          BY <2>1, <4>1 DEF Settles, At
        <5> QED
          BY <1>1, <4>1, <5>1, <5>2 DEF At
      <4>2. CASE i = 1
        <5>1. Coming[1] = told /\ told \in Speakers
          BY <1>0, <2>1, <4>2 DEF Settles, At, Types
        <5> QED
          BY <1>1, <4>2, <5>1 DEF At
      <4>3. CASE i > 1
        <5>1. i - 1 \in 1 .. Len(Coming') /\ (i - 1) + 1 = i /\ i - 1 # 0 /\ i # 0
          BY <1>0, <4>3
        <5>2. Coming[i] = told
          BY <2>1, <5>1 DEF Settles, At
        <5>3. Coming'[i - 1] = told
          BY <1>0, <5>1, <5>2
        <5> QED
          BY <5>1, <5>3 DEF At
      <4> QED
        BY <4>1, <4>2, <4>3
    <3>3. \A k \in 1 .. n : Coming'[k] # "BACK"
      <4> SUFFICES ASSUME NEW k \in 1 .. n PROVE Coming'[k] # "BACK"
        OBVIOUS
      <4>1. k \in 1 .. Len(Coming') /\ k + 1 \in 1 .. i
        BY <1>0
      <4> QED
        BY <1>0, <2>1, <4>1 DEF Settles
    <3>4. ASSUME NEW j \in n + 1 .. Len(Coming'), Coming'[j] \in Speakers
          PROVE  \E k \in n + 1 .. j : Coming'[k] = "BACK"
      <4>1. j \in 1 .. Len(Coming') /\ j + 1 \in i + 1 .. Len(Coming)
        BY <1>0
      <4>2. Coming[j + 1] \in Speakers
        BY <1>0, <3>4, <4>1
      <4>3. PICK k \in i + 1 .. j + 1 : Coming[k] = "BACK"
        BY <2>1, <4>1, <4>2 DEF Settles
      <4>4. k # 1
        BY <2>3, <4>3
      <4>5. k - 1 \in n + 1 .. j /\ k - 1 \in 1 .. Len(Coming') /\ (k - 1) + 1 = k
        BY <1>0, <4>1, <4>4
      <4>6. Coming'[k - 1] = "BACK"
        BY <1>0, <4>3, <4>5
      <4> QED
        BY <4>5, <4>6
    <3>5. Settles(n)'
      BY <1>1, <3>2, <3>3, <3>4 DEF Settles
    <3> QED
      BY <1>1, <2>3, <3>1, <3>5
  <2> QED
    BY <2>2, <2>3
<1> QED
  BY <1>2, <1>3

(* What is printed while the program waits for the user of the set-up.     *)
LEMMA SetupAppends ==
  ASSUME Types, Seqs, ToldKept, StaleDropped, pc = "setup", pc' = pc, saved' = saved,
         queue' = queue, NEW r \in Seq(Line), pipe' = pipe \o r, Len(r) <= 2,
         \A i \in 1 .. Len(Coming) : Coming[i] # "BACK",
         \/ told' = told /\ \A j \in 1 .. Len(r) : r[j] \in Speakers => j = 2 /\ r[1] = "BACK"
         \/ Len(r) = 1 /\ told' = r[1] /\ r[1] # "BACK"
  PROVE  ToldKept' /\ StaleDropped'
<1>0. /\ Len(Coming) \in Nat /\ Len(r) \in Nat
      /\ Len(Coming') = Len(Coming) + Len(r)
      /\ \A i \in 1 .. Len(Coming) : Coming'[i] = Coming[i]
      /\ \A i \in 1 .. Len(r) : Coming'[Len(Coming) + i] = r[i]
  <2>1. Len(Coming) \in Nat
    BY ComingLines
  <2>2. Len(r) \in Nat
    OBVIOUS
  <2>3. /\ Len(Coming') = Len(Coming) + Len(r)
        /\ \A i \in 1 .. Len(Coming) : Coming'[i] = Coming[i]
        /\ \A i \in 1 .. Len(r) : Coming'[Len(Coming) + i] = r[i]
    BY PrintAppends
  <2> QED
    BY <2>1, <2>2, <2>3
<1>1. \A j \in Len(Coming) + 1 .. Len(Coming') :
        j - Len(Coming) \in 1 .. Len(r) /\ Coming'[j] = r[j - Len(Coming)]
  <2> SUFFICES ASSUME NEW j \in Len(Coming) + 1 .. Len(Coming')
               PROVE  j - Len(Coming) \in 1 .. Len(r) /\ Coming'[j] = r[j - Len(Coming)]
    OBVIOUS
  <2>1. j - Len(Coming) \in 1 .. Len(r) /\ j = Len(Coming) + (j - Len(Coming))
    BY <1>0
  <2> QED
    BY <1>0, <2>1
<1>2. StaleDropped'
  <2>1. ASSUME NEW i \in 1 .. Len(Coming'), NEW j \in 1 .. Len(Coming'), NEW k \in 1 .. Len(Coming'),
               i < j, j < k, Coming'[i] = "BACK"
        PROVE  FALSE
    <3>1. i \in 1 .. Len(Coming)
      BY <1>0, <2>1
    <3> QED
      BY <1>0, <2>1, <3>1
  <2> QED
    BY <2>1 DEF StaleDropped
<1>3. ASSUME told' # None PROVE \E i \in 0 .. Len(Coming') : Settles(i)'
  <2>1. CASE told' = told /\ \A j \in 1 .. Len(r) : r[j] \in Speakers => j = 2 /\ r[1] = "BACK"
    <3>1. PICK i \in 0 .. Len(Coming) : Settles(i)
      BY <1>3, <2>1 DEF ToldKept
    <3>2. i \in 0 .. Len(Coming') /\ At(i)' = told'
      BY <1>0, <2>1, <3>1 DEF Settles, At
    <3>3. \A k \in 1 .. i : Coming'[k] # "BACK"
      BY <1>0, <3>1 DEF Settles
    <3>4. ASSUME NEW j \in i + 1 .. Len(Coming'), Coming'[j] \in Speakers
          PROVE  \E k \in i + 1 .. j : Coming'[k] = "BACK"
      <4>1. CASE j <= Len(Coming)
        <5>1. j \in i + 1 .. Len(Coming) /\ Coming'[j] = Coming[j]
          BY <1>0, <3>4, <4>1
        <5>2. PICK k \in i + 1 .. j : Coming[k] = "BACK"
          BY <3>1, <3>4, <5>1 DEF Settles
        <5> QED
          BY <1>0, <5>1, <5>2
      <4>2. CASE j > Len(Coming)
        <5>1. j \in Len(Coming) + 1 .. Len(Coming')
          BY <1>0, <3>4, <4>2
        <5>2. j - Len(Coming) = 2 /\ r[1] = "BACK" /\ 1 \in 1 .. Len(r)
          BY <1>0, <1>1, <2>1, <3>4, <5>1
        <5>3. Len(Coming) + 1 \in i + 1 .. j /\ Coming'[Len(Coming) + 1] = "BACK"
          BY <1>0, <3>1, <3>4, <5>1, <5>2
        <5> QED
          BY <5>3
      <4> QED
        BY <1>0, <4>1, <4>2
    <3> QED
      BY <3>2, <3>3, <3>4 DEF Settles
  <2>2. CASE Len(r) = 1 /\ told' = r[1] /\ r[1] # "BACK"
    <3>0. PICK i \in Nat : i = Len(Coming) + 1
      BY <1>0
    <3>1. i \in 0 .. Len(Coming') /\ i # 0 /\ i = Len(Coming') /\ Coming'[i] = told'
      BY <1>0, <1>1, <2>2, <3>0
    <3>2. At(i)' = told'
      BY <3>1 DEF At
    <3>3. \A k \in 1 .. i : Coming'[k] # "BACK"
      <4> SUFFICES ASSUME NEW k \in 1 .. i PROVE Coming'[k] # "BACK"
        OBVIOUS
      <4>1. k = i \/ k \in 1 .. Len(Coming)
        BY <1>0, <3>0
      <4> QED
        BY <1>0, <2>2, <3>1, <4>1
    <3>4. \A j \in i + 1 .. Len(Coming') : FALSE
      BY <1>0, <3>1
    <3>5. Settles(i)'
      BY <3>2, <3>3, <3>4 DEF Settles
    <3> QED
      BY <3>1, <3>5
  <2> QED
    BY <2>1, <2>2
<1> QED
  BY <1>2, <1>3 DEF ToldKept

(* The button of the idle view.                                            *)
LEMMA PressSetupKeepsTold ==
  ASSUME IInv, ToldKept, StaleDropped, PressSetup
  PROVE  ToldKept' /\ StaleDropped'
<1>1. UNCHANGED <<pc, saved, told, queue>> /\ pipe' = pipe \o <<"SETUP">> /\ Seqs
  BY DEF PressSetup, PrintLine, Seqs, IInv, program
<1>2. <<"SETUP">> \in Seq(Line) /\ Len(<<"SETUP">>) = 1 /\ <<"SETUP">>[1] = "SETUP"
  BY DEF Line
<1>3. /\ Len(Coming) \in Nat /\ Len(Coming') = Len(Coming) + 1
      /\ \A i \in 1 .. Len(Coming) : Coming'[i] = Coming[i]
      /\ Coming'[Len(Coming) + 1] = "SETUP"
  <2>1. /\ Len(Coming') = Len(Coming) + Len(<<"SETUP">>)
        /\ \A i \in 1 .. Len(Coming) : Coming'[i] = Coming[i]
        /\ \A i \in 1 .. Len(<<"SETUP">>) : Coming'[Len(Coming) + i] = <<"SETUP">>[i]
    BY <1>1, <1>2, PrintAppends
  <2>2. Len(Coming) \in Nat
    BY <1>1, ComingLines
  <2> QED
    BY <1>2, <2>1, <2>2
<1>4. \A j \in 1 .. Len(Coming') : Coming'[j] \in Speakers => j \in 1 .. Len(Coming)
  BY <1>3, SpeakersAssumption
<1>5. StaleDropped'
  <2>1. ASSUME NEW j \in 1 .. Len(Coming'), Coming'[j] \in Speakers PROVE pc # "opening"
    BY <1>3, <1>4, <2>1 DEF StaleDropped
  <2>2. ASSUME NEW i \in 1 .. Len(Coming'), NEW j \in 1 .. Len(Coming'), i < j,
               Coming'[i] = "SETUP", Coming'[j] \in Speakers
        PROVE  pc \notin {"enter", "idle", "away"}
    <3>1. i \in 1 .. Len(Coming) /\ j \in 1 .. Len(Coming)
      BY <1>3, <1>4, <2>2
    <3> QED
      BY <1>3, <2>2, <3>1 DEF StaleDropped
  <2>3. ASSUME NEW i \in 1 .. Len(Coming'), NEW j \in 1 .. Len(Coming'), NEW k \in 1 .. Len(Coming'),
               i < j, j < k, Coming'[i] = "BACK", Coming'[j] = "SETUP", Coming'[k] \in Speakers
        PROVE  pc # "setup"
    <3>1. i \in 1 .. Len(Coming) /\ j \in 1 .. Len(Coming) /\ k \in 1 .. Len(Coming)
      BY <1>3, <1>4, <2>3
    <3> QED
      BY <1>3, <2>3, <3>1 DEF StaleDropped
  <2> QED
    BY <1>1, <2>1, <2>2, <2>3 DEF StaleDropped
<1>6. ASSUME told # None, pc = "setup" PROVE \E i \in 0 .. Len(Coming') : Settles(i)'
  <2>1. PICK i \in 0 .. Len(Coming) : Settles(i)
    BY <1>6 DEF ToldKept
  <2>2. At(i)' = told' /\ \A k \in 1 .. i : Coming'[k] # "BACK"
    BY <1>1, <1>3, <2>1 DEF Settles, At
  <2>3. ASSUME NEW j \in i + 1 .. Len(Coming'), Coming'[j] \in Speakers
        PROVE  \E k \in i + 1 .. j : Coming'[k] = "BACK"
    <3>1. j \in i + 1 .. Len(Coming) /\ Coming'[j] = Coming[j]
      BY <1>3, <1>4, <2>3
    <3>2. PICK k \in i + 1 .. j : Coming[k] = "BACK"
      BY <2>1, <2>3, <3>1 DEF Settles
    <3> QED
      BY <1>3, <3>1, <3>2
  <2> QED
    BY <1>3, <2>1, <2>2, <2>3 DEF Settles
<1> QED
  BY <1>1, <1>5, <1>6 DEF ToldKept

(* A reader of IDLE takes the first line, which is dropped or opens the    *)
(* set-up.                                                                 *)
LEMMA IdleLineKeepsTold ==
  ASSUME IInv, ToldKept, StaleDropped, IdleLine
  PROVE  ToldKept' /\ StaleDropped'
<1>0. /\ Types /\ Seqs /\ Len(Coming) \in Nat
      /\ Len(Coming) >= 1 /\ Coming[1] = Head(queue) /\ Len(Coming') = Len(Coming) - 1
      /\ \A i \in 1 .. Len(Coming') : Coming'[i] = Coming[i + 1]
  BY GetTakes, ComingLines DEF IInv, IdleLine
<1>1. /\ pc = "idle" /\ told' = told /\ saved' = saved
      /\ pc' = IF Coming[1] = "SETUP" THEN "opening" ELSE "idle"
  BY <1>0 DEF IdleLine
<1>2. ToldKept'
  BY <1>1 DEF ToldKept
<1>3. ASSUME NEW i \in 1 .. Len(Coming), NEW j \in 1 .. Len(Coming), i < j, Coming[i] = "SETUP"
      PROVE  Coming[j] \notin Speakers
  BY <1>1, <1>3 DEF StaleDropped
<1>4. \A i \in 1 .. Len(Coming') : i + 1 \in 1 .. Len(Coming) /\ Coming'[i] = Coming[i + 1]
  BY <1>0
<1>5. CASE Coming[1] = "SETUP"
  <2>1. \A j \in 1 .. Len(Coming') : Coming'[j] \notin Speakers
    <3> SUFFICES ASSUME NEW j \in 1 .. Len(Coming') PROVE Coming'[j] \notin Speakers
      OBVIOUS
    <3>1. 1 < j + 1 /\ 1 \in 1 .. Len(Coming)
      BY <1>0
    <3> QED
      BY <1>3, <1>4, <1>5, <3>1
  <2> QED
    BY <1>1, <1>2, <1>5, <2>1 DEF StaleDropped
<1>6. CASE Coming[1] # "SETUP"
  <2>1. ASSUME NEW i \in 1 .. Len(Coming'), NEW j \in 1 .. Len(Coming'), i < j, Coming'[i] = "SETUP"
        PROVE  Coming'[j] \notin Speakers
    <3>1. i + 1 < j + 1
      BY <1>0, <2>1
    <3> QED
      BY <1>3, <1>4, <2>1, <3>1
  <2> QED
    BY <1>1, <1>2, <1>6, <2>1 DEF StaleDropped
<1> QED
  BY <1>5, <1>6

(* The other steps of the program.                                         *)
LEMMA ProgramKeepsTold ==
  ASSUME IInv, ToldKept, StaleDropped, Call \/ OpenSetup \/ EnterIdle \/ Phone
  PROVE  ToldKept' /\ StaleDropped'
<1>0. Types /\ Seqs /\ Len(Coming) \in Nat /\ UNCHANGED <<told, saved>>
  BY ComingLines DEF IInv, Call, OpenSetup, EnterIdle, Phone, PhoneComes, KillSplash, ShowAgain, BackToIdle
<1>1. CASE Call
  <2>1. CASE Gone /\ queue = <<>>
    <3>1. Coming = <<>> /\ Coming' = <<>> /\ pc \in {"idle", "setup"} /\ pc' # "setup"
      BY <1>1, <2>1 DEF Call, Gone, Coming, lines
    <3>2. told # None => saved = told
      BY <1>0, <3>1 DEF ToldKept, Settles, At
    <3> QED
      BY <1>0, <3>1, <3>2 DEF ToldKept, StaleDropped
  <2>2. CASE ~(Gone /\ queue = <<>>)
    <3>1. UNCHANGED <<Coming, pc>>
      BY <1>1, <2>2 DEF Call, Coming, lines
    <3> QED
      BY <1>0, <3>1, SameLines
  <2> QED
    BY <2>1, <2>2
<1>2. CASE OpenSetup
  <2>1. pc = "opening" /\ pc' = "setup" /\ Coming' = Coming
    BY <1>2 DEF OpenSetup, lines, Coming
  <2>2. \A j \in 1 .. Len(Coming) : Coming[j] \notin Speakers
    BY <2>1 DEF StaleDropped
  <2>3. ASSUME told # None PROVE Settles(0)'
    <3>1. saved = told
      BY <2>1, <2>3 DEF ToldKept
    <3> QED
      BY <1>0, <2>1, <2>2, <3>1 DEF Settles, At
  <2> QED
    BY <1>0, <2>1, <2>2, <2>3 DEF ToldKept, StaleDropped
<1>3. CASE EnterIdle \/ PhoneComes \/ ShowAgain \/ BackToIdle
  <2>1. /\ pc \in {"enter", "idle", "away"} /\ pc' \in {"enter", "idle", "away"}
        /\ Coming' = Coming
    BY <1>3 DEF EnterIdle, PhoneComes, ShowAgain, BackToIdle, program, lines, Coming
  <2> QED
    BY <1>0, <2>1 DEF ToldKept, StaleDropped
<1>4. CASE KillSplash
  <2>1. pc = "away" /\ pc' = "away" /\ Coming' = queue /\ queue \in Seq(Line) /\ pipe \in Seq(Line)
    BY <1>0, <1>4 DEF KillSplash, program, Coming, Seqs
  <2>2. \A i \in 1 .. Len(queue) : i \in 1 .. Len(Coming) /\ Coming[i] = queue[i]
    BY <2>1 DEF Coming
  <2>3. ASSUME NEW i \in 1 .. Len(queue), NEW j \in 1 .. Len(queue), i < j, queue[i] = "SETUP"
        PROVE  queue[j] \notin Speakers
    BY <2>1, <2>2, <2>3 DEF StaleDropped
  <2> QED
    BY <1>0, <2>1, <2>3 DEF ToldKept, StaleDropped
<1> QED
  BY <1>1, <1>2, <1>3, <1>4 DEF Phone

(* The steps of the process and of the user that print in the set-up.      *)
LEMMA ScreenKeepsTold ==
  ASSUME IInv, ToldKept, StaleDropped, PressBack \/ TapSpeaker \/ ReportPaired
  PROVE  ToldKept' /\ StaleDropped'
<1>0. Types /\ Seqs /\ Shown /\ BackOnce /\ pc' = pc /\ saved' = saved /\ queue' = queue
  BY DEF IInv, PressBack, TapSpeaker, ReportPaired, program
<1>1. splash = "up" /\ view = "setup" /\ pc = "setup"
  <2>1. CASE ReportPaired
    BY <1>0, <2>1 DEF ReportPaired, Shown
  <2>2. CASE PressBack \/ TapSpeaker
    BY <1>0, <2>2 DEF PressBack, TapSpeaker, Shown
  <2> QED
    BY <2>1, <2>2
<1>2. \A i \in 1 .. Len(Coming) : Coming[i] # "BACK"
  BY <1>0, <1>1 DEF BackOnce
<1>3. pipe \in Seq(Line) /\ "BACK" \in Line /\ Speakers \subseteq Line
      /\ "BACK" \notin Speakers
  BY <1>0, SpeakersAssumption DEF Seqs, Line
<1>4. CASE PressBack
  <2>1. PICK l \in Result(helper) : pipe' = Append(pipe, "BACK") \o l
    BY <1>4 DEF PressBack
  <2>2. told' = told /\ (l = <<>> \/ \E x \in Speakers : l = <<x>>)
    BY <1>0, <1>4, <2>1, ResultLines DEF PressBack
  <2>3. CASE l = <<>>
    <3>1. <<"BACK">> \in Seq(Line) /\ Len(<<"BACK">>) = 1 /\ <<"BACK">>[1] = "BACK"
      BY <1>3
    <3>2. pipe' = pipe \o <<"BACK">>
      BY <1>3, <2>1, <2>3, <3>1
    <3>3. \A j \in 1 .. Len(<<"BACK">>) : <<"BACK">>[j] \notin Speakers
      BY <1>3
    <3>4. PICK r \in Seq(Line) : r = <<"BACK">>
      BY <3>1
    <3>5. /\ pipe' = pipe \o r /\ Len(r) <= 2
          /\ \A j \in 1 .. Len(r) : r[j] \in Speakers => j = 2 /\ r[1] = "BACK"
      BY <3>1, <3>2, <3>3, <3>4
    <3> QED
      BY <1>0, <1>1, <1>2, <2>2, <3>5, SetupAppends
  <2>4. CASE \E x \in Speakers : l = <<x>>
    <3>1. PICK x \in Speakers : l = <<x>>
      BY <2>4
    <3>2. <<"BACK", x>> \in Seq(Line) /\ Len(<<"BACK", x>>) = 2 /\ <<"BACK", x>>[1] = "BACK"
      BY <1>3, <3>1
    <3>3. pipe' = pipe \o <<"BACK", x>>
      <4>1. Append(pipe, "BACK") \o <<x>> = pipe \o <<"BACK", x>>
        BY <1>3, <3>1, <3>2
      <4> QED
        BY <2>1, <3>1, <4>1
    <3>4. \A j \in 1 .. Len(<<"BACK", x>>) : <<"BACK", x>>[j] \in Speakers => j = 2
      BY <1>3
    <3>5. PICK r \in Seq(Line) : r = <<"BACK", x>>
      BY <3>2
    <3>6. /\ pipe' = pipe \o r /\ Len(r) <= 2
          /\ \A j \in 1 .. Len(r) : r[j] \in Speakers => j = 2 /\ r[1] = "BACK"
      BY <3>2, <3>3, <3>4, <3>5
    <3> QED
      BY <1>0, <1>1, <1>2, <2>2, <3>6, SetupAppends
  <2> QED
    BY <2>2, <2>3, <2>4
<1>5. ASSUME NEW x \in Speakers, pipe' = pipe \o <<x>>, told' = x
      PROVE  ToldKept' /\ StaleDropped'
  <2>1. <<x>> \in Seq(Line) /\ Len(<<x>>) = 1 /\ <<x>>[1] = x /\ x # "BACK"
    BY <1>3
  <2>2. PICK r \in Seq(Line) : r = <<x>>
    BY <2>1
  <2>3. pipe' = pipe \o r /\ Len(r) <= 2 /\ Len(r) = 1 /\ told' = r[1] /\ r[1] # "BACK"
    BY <1>5, <2>1, <2>2
  <2> QED
    BY <1>0, <1>1, <1>2, <2>3, SetupAppends
<1>6. CASE TapSpeaker
  <2>1. PICK l \in Result(helper) :
               pipe' = pipe \o l /\ told' = IF l = <<>> THEN told ELSE helper.speaker
    BY <1>6 DEF TapSpeaker
  <2>2. l = <<>> \/ (helper.speaker \in Speakers /\ l = <<helper.speaker>>)
    BY <1>0, <2>1, ResultLines
  <2>3. CASE l = <<>>
    <3>1. Coming' = Coming /\ told' = told
      BY <1>0, <1>3, <2>1, <2>3 DEF Coming
    <3> QED
      BY <1>0, <3>1, SameLines
  <2>4. CASE helper.speaker \in Speakers /\ l = <<helper.speaker>>
    <3>1. l # <<>>
      BY <2>4
    <3> QED
      BY <1>5, <2>1, <2>4, <3>1
  <2> QED
    BY <2>2, <2>3, <2>4
<1>7. CASE ReportPaired
  <2>1. helper.speaker \in Speakers /\ pipe' = Append(pipe, helper.speaker) /\ told' = helper.speaker
    BY <1>0, <1>7 DEF ReportPaired, PrintLine, Types, Helper
  <2>2. pipe' = pipe \o <<helper.speaker>>
    BY <1>3, <2>1
  <2> QED
    BY <1>5, <2>1, <2>2
<1> QED
  BY <1>4, <1>6, <1>7

(* The pump and the steps that print nothing.                              *)
LEMMA QuietKeepsTold ==
  ASSUME IInv, ToldKept, StaleDropped,
         Pump \/ ReadCommand \/ HelperSteps \/ SplashDies \/ UNCHANGED vars
  PROVE  ToldKept' /\ StaleDropped'
<1>0. Types /\ Seqs /\ Shown
  BY DEF IInv
<1>1. CASE Pump
  <2>1. UNCHANGED <<Coming, saved, told, pc>>
    BY <1>0, <1>1, PumpKeeps DEF Pump, program
  <2> QED
    BY <2>1, SameLines
<1>2. CASE ReadCommand
  <2>1. view = "idle" /\ helper = None
    BY <1>0, <1>2 DEF ReadCommand, Shown, Types
  <2>2. pipe' = pipe \/ pipe' = pipe \o <<>>
    BY <1>2, <2>1 DEF ReadCommand, Result
  <2>3. UNCHANGED <<queue, saved, told, pc>>
    BY <1>2 DEF ReadCommand, program
  <2>4. Coming' = Coming
    BY <1>0, <2>2, <2>3 DEF Coming, Seqs
  <2> QED
    BY <2>3, <2>4, SameLines
<1>3. CASE HelperSteps \/ SplashDies \/ UNCHANGED vars
  <2>1. UNCHANGED <<Coming, saved, pc>> /\ (told' = told \/ told' = None)
    BY <1>3 DEF HelperSteps, SplashDies, vars, program, lines, Coming
  <2> QED
    BY <2>1, SameLines
<1> QED
  BY <1>1, <1>2, <1>3

(***************************************************************************)
(* What the set-up view says is kept, whatever is left over among the      *)
(* lines and however often the process dies.                               *)
(***************************************************************************)
THEOREM ToldIsKept == Spec => []ToldIsSaved
<1>1. Init => ToldKept /\ StaleDropped
  <2> SUFFICES ASSUME Init PROVE ToldKept /\ StaleDropped
    OBVIOUS
  <2>1. Coming = <<>> /\ told = None /\ pc = "enter"
    BY DEF Init, Coming
  <2> QED
    BY <2>1 DEF ToldKept, StaleDropped
<1>2. IInv /\ (ToldKept /\ StaleDropped) /\ [Next]_vars => (ToldKept /\ StaleDropped)'
  BY SetupLineKeepsTold, IdleLineKeepsTold, ProgramKeepsTold, ScreenKeepsTold, QuietKeepsTold,
     PressSetupKeepsTold DEF Next, Program, Screen, User
<1>3. IInv /\ ToldKept => ToldIsSaved
  <2> SUFFICES ASSUME IInv, ToldKept, told # None, saved # told
               PROVE  pc = "setup" /\ InFlight(told)
    BY DEF ToldIsSaved
  <2>1. pc = "setup"
    BY DEF ToldKept
  <2>2. PICK i \in 0 .. Len(Coming) : Settles(i)
    BY <2>1 DEF ToldKept
  <2>3. i \in 1 .. Len(Coming) /\ Coming[i] = told
    BY <2>2 DEF Settles, At
  <2> QED
    BY <2>1, <2>3, InFlightComing DEF IInv
<1> QED
  BY <1>1, <1>2, <1>3, Invariance, PTL DEF Spec

-----------------------------------------------------------------------------
(* Where the Back is in Coming before and after a step in the set-up.      *)
BackNearer ==
  [][pc = "setup" /\ pc' = "setup" =>
       \A i \in 1 .. Len(Coming) : Coming[i] = "BACK" =>
         \E j \in 1 .. Len(Coming') :
           Coming'[j] = "BACK" /\ j = IF SetupLine THEN i - 1 ELSE i]_vars

LEMMA PrintedBehind ==
  ASSUME Seqs, NEW r \in Seq(Line), pipe' = pipe \o r, queue' = queue
  PROVE  \A i \in 1 .. Len(Coming) : i \in 1 .. Len(Coming') /\ Coming'[i] = Coming[i]
<1>1. Len(Coming) \in Nat /\ Len(r) \in Nat
  BY ComingLines
<1>2. /\ Len(Coming') = Len(Coming) + Len(r)
      /\ \A i \in 1 .. Len(Coming) : Coming'[i] = Coming[i]
  BY PrintAppends
<1> QED
  BY <1>1, <1>2

(* No step but that of the reader moves the lines.                         *)
LEMMA LinesStay ==
  ASSUME Types, Seqs, [Next]_vars, pc = "setup", pc' = "setup", ~SetupLine
  PROVE  \A i \in 1 .. Len(Coming) : i \in 1 .. Len(Coming') /\ Coming'[i] = Coming[i]
<1>p. pipe \in Seq(Line) /\ queue \in Seq(Line)
  BY DEF Seqs
<1>k. ASSUME pipe' = pipe, queue' = queue
      PROVE  \A i \in 1 .. Len(Coming) : i \in 1 .. Len(Coming') /\ Coming'[i] = Coming[i]
  BY <1>k DEF Coming
<1>1. CASE Call \/ HelperSteps \/ SplashDies \/ UNCHANGED vars
  BY <1>1, <1>k DEF Call, HelperSteps, SplashDies, lines, vars
<1>2. CASE Pump
  BY <1>2, PumpKeeps
<1>3. CASE PressSetup
  <2>1. pipe' = pipe \o <<"SETUP">> /\ queue' = queue /\ <<"SETUP">> \in Seq(Line)
    BY <1>3, <1>p DEF PressSetup, PrintLine, Line
  <2> QED
    BY <2>1, PrintedBehind
<1>4. CASE ReportPaired
  <2>1. helper \in Helper
    BY <1>4 DEF ReportPaired, Types
  <2>2. helper.speaker \in Line
    BY <2>1 DEF Helper, Line
  <2>3. pipe' = pipe \o <<helper.speaker>> /\ queue' = queue /\ <<helper.speaker>> \in Seq(Line)
    BY <1>4, <1>p, <2>2 DEF ReportPaired, PrintLine
  <2> QED
    BY <2>3, PrintedBehind
<1>5. CASE ReadCommand
  <2>1. queue' = queue
    BY <1>5 DEF ReadCommand
  <2>2. CASE Head(cmds) = "STATUS"
    <3>1. PICK r \in Result(helper) : pipe' = pipe \o r
      BY <1>5, <2>2 DEF ReadCommand
    <3>2. r \in Seq(Line)
      BY <3>1, ResultLines
    <3> QED
      BY <2>1, <3>1, <3>2, PrintedBehind
  <2>3. CASE Head(cmds) # "STATUS"
    BY <1>5, <2>1, <2>3, <1>k DEF ReadCommand
  <2> QED
    BY <2>2, <2>3
<1>6. CASE PressBack
  <2>1. PICK r \in Result(helper) : pipe' = Append(pipe, "BACK") \o r
    BY <1>6 DEF PressBack
  <2>2. r \in Seq(Line)
    BY <2>1, ResultLines
  <2>3. <<"BACK">> \o r \in Seq(Line) /\ pipe' = pipe \o (<<"BACK">> \o r)
    BY <1>p, <2>1, <2>2 DEF Line
  <2>4. queue' = queue
    BY <1>6 DEF PressBack
  <2> QED
    BY <2>3, <2>4, PrintedBehind
<1>7. CASE TapSpeaker
  <2>1. PICK r \in Result(helper) : pipe' = pipe \o r
    BY <1>7 DEF TapSpeaker
  <2>2. r \in Seq(Line)
    BY <2>1, ResultLines
  <2>3. queue' = queue
    BY <1>7 DEF TapSpeaker
  <2> QED
    BY <2>1, <2>2, <2>3, PrintedBehind
<1>8. ~(EnterIdle \/ IdleLine \/ OpenSetup \/ Phone)
  BY DEF EnterIdle, IdleLine, OpenSetup, Phone, PhoneComes, KillSplash, ShowAgain, BackToIdle
<1> QED
  BY <1>1, <1>2, <1>3, <1>4, <1>5, <1>6, <1>7, <1>8 DEF Next, Program, Screen, User

(***************************************************************************)
(* The user's Back is not lost on its way, whatever else is pressed,       *)
(* paired or dies: while the program stays in the set-up, each line it     *)
(* reads brings the Back one place nearer, and nothing takes it away or    *)
(* gets in before it.  With the fairness of the two event loops this is    *)
(* why BackReturns holds.                                                  *)
(***************************************************************************)
THEOREM BackComesNearer == Spec => BackNearer
<1>1. IInv /\ [Next]_vars =>
        (pc = "setup" /\ pc' = "setup" =>
           \A i \in 1 .. Len(Coming) : Coming[i] = "BACK" =>
             \E j \in 1 .. Len(Coming') :
               Coming'[j] = "BACK" /\ j = IF SetupLine THEN i - 1 ELSE i)
  <2> SUFFICES ASSUME IInv, [Next]_vars, pc = "setup", pc' = "setup",
                      NEW i \in 1 .. Len(Coming), Coming[i] = "BACK"
               PROVE  \E j \in 1 .. Len(Coming') :
                        Coming'[j] = "BACK" /\ j = IF SetupLine THEN i - 1 ELSE i
    OBVIOUS
  <2>1. CASE SetupLine
    <3>1. Seqs /\ Get /\ pipe' = pipe /\ Head(queue) # "BACK"
      BY <2>1 DEF SetupLine, IInv
    <3>2. /\ Coming[1] # "BACK" /\ Len(Coming) \in Nat
          /\ Len(Coming') = Len(Coming) - 1
          /\ \A k \in 1 .. Len(Coming') : Coming'[k] = Coming[k + 1]
      BY <3>1, GetTakes, ComingLines
    <3>3. i # 1
      BY <3>2
    <3>4. i - 1 \in 1 .. Len(Coming') /\ (i - 1) + 1 = i
      BY <3>2, <3>3
    <3>5. Coming'[i - 1] = "BACK"
      BY <3>2, <3>4
    <3> QED
      BY <2>1, <3>4, <3>5
  <2>2. CASE ~SetupLine
    BY <2>2, LinesStay DEF IInv
  <2> QED
    BY <2>1, <2>2
<1> QED
  BY <1>1, Invariance, PTL DEF Spec, BackNearer
=============================================================================
