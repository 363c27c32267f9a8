----------------------------- MODULE SetupScreen -----------------------------
(***************************************************************************)
(* The splash process and the program (piauto/splash.py, and IDLE with its *)
(* _handle_bt_setup in piauto/statemachine.py): commands go down the       *)
(* process's stdin, what the user does comes back as lines of its stdout,  *)
(* which a task moves to a queue that the readers of IDLE and of the       *)
(* set-up share.  The process shows the idle view or the set-up view and   *)
(* starts a helper that pairs a speaker (piauto/bt_pair.py).               *)
(***************************************************************************)
EXTENDS Naturals, Sequences

CONSTANTS
  Speakers,    \* the Bluetooth speakers the user may choose
  None,        \* no speaker
  MaxLines,    \* bound: lines, and commands, on their way
  MaxFaults    \* bound: how often the process dies or cannot be started

ASSUME SpeakersAssumption ==
  None \notin Speakers /\ "SETUP" \notin Speakers /\ "BACK" \notin Speakers
ASSUME BoundsAssumption == MaxLines \in Nat /\ MaxFaults \in Nat

VARIABLES
  pc,        \* the program: "enter", "idle", "opening", "setup", "away"
  reading,   \* where read_stdout_line is: "call", "get"
  splash,    \* the process: "none", "up", "dead"
  cmds,      \* commands in its stdin
  pipe,      \* lines in its stdout
  queue,     \* _line_queue, which outlives the process
  view,      \* the page on the screen: "idle", "setup"
  helper,    \* speaker and step of the helper, or None: pair_process
  saved,     \* bluetooth.speaker_mac, in the program's configuration
  told,      \* the speaker the set-up view last said to be connected
  faults

program == <<pc, reading>>
lines   == <<pipe, queue>>
vars    == <<program, splash, cmds, lines, view, helper, saved, told, faults>>

Step   == {"pairing", "report", "settle"}
Helper == [speaker : Speakers, step : Step]
Line   == {"SETUP", "BACK"} \cup Speakers      \* a speaker stands for PAIRED|mac|name

InFlight(line) == \E l \in {pipe, queue} : \E i \in DOMAIN l : l[i] = line

Init ==
  /\ pc = "enter" /\ reading = "call"
  /\ splash = "none" /\ cmds = <<>> /\ pipe = <<>> /\ queue = <<>> /\ view = "idle"
  /\ helper = None
  /\ saved \in {None} \cup Speakers /\ told = None /\ faults = 0

-----------------------------------------------------------------------------
(* SplashManager.                                                          *)

(* The end of the process is noticed; it is assumed that the loop has      *)
(* delivered by then what the process had printed.                         *)
Gone == splash # "up" /\ pipe = <<>>

(* _ensure_running, then a command.                                        *)
SendTo(cmd) ==
  \/ /\ splash = "up" /\ Len(cmds) < MaxLines
     /\ cmds' = Append(cmds, cmd) /\ UNCHANGED <<splash, view, faults>>
  \/ /\ Gone
     /\ splash' = "up" /\ view' = "idle" /\ cmds' = <<cmd>> /\ UNCHANGED faults
  \/ /\ Gone /\ faults < MaxFaults
     /\ faults' = faults + 1 /\ UNCHANGED <<splash, view, cmds>>

(* Slip: the lines are taken out in the wrong order.                       *)
PumpUnordered ==
  /\ pipe # <<>>
  /\ queue' = <<Head(pipe)>> \o queue /\ pipe' = Tail(pipe)
  /\ UNCHANGED <<program, splash, cmds, view, helper, saved, told, faults>>

Pump ==
  /\ pipe # <<>>
  /\ queue' = Append(queue, Head(pipe)) /\ pipe' = Tail(pipe)
  /\ UNCHANGED <<program, splash, cmds, view, helper, saved, told, faults>>

(* read_stdout_line gives up only if the process is gone when it is called.*)
Call ==
  /\ pc \in {"idle", "setup"} /\ reading = "call"
  /\ IF Gone /\ queue = <<>>
     THEN pc' = (IF pc = "idle" THEN "opening" ELSE "enter") /\ UNCHANGED reading
     ELSE reading' = "get" /\ UNCHANGED pc
  /\ UNCHANGED <<splash, cmds, lines, view, helper, saved, told, faults>>

Get == reading = "get" /\ queue # <<>> /\ queue' = Tail(queue) /\ reading' = "call"

-----------------------------------------------------------------------------
(* The program.                                                            *)

EnterIdle ==
  /\ pc = "enter"
  /\ SendTo("STATUS")
  /\ pc' = "idle" /\ reading' = "call"
  /\ UNCHANGED <<lines, helper, saved, told>>

(* _watch_splash_stdout: other lines are dropped.                          *)
IdleLine ==
  /\ pc = "idle" /\ Get
  /\ pc' = IF Head(queue) = "SETUP" THEN "opening" ELSE "idle"
  /\ UNCHANGED <<splash, cmds, pipe, view, helper, saved, told, faults>>

OpenSetup ==
  /\ pc = "opening"
  /\ SendTo("BT_SETUP")
  /\ pc' = "setup" /\ reading' = "call"
  /\ UNCHANGED <<lines, helper, saved, told>>

(* Slip: a line that is not a pairing is passed over.                      *)
SetupLineDeaf ==
  /\ pc = "setup" /\ Get
  /\ UNCHANGED pc
  /\ saved' = IF Head(queue) \in Speakers THEN Head(queue) ELSE saved
  /\ UNCHANGED <<splash, cmds, pipe, view, helper, told, faults>>

(* Slip: any line that is not a pairing closes the set-up.                 *)
SetupLineAny ==
  /\ pc = "setup" /\ Get
  /\ pc' = IF Head(queue) \in Speakers THEN "setup" ELSE "enter"
  /\ saved' = IF Head(queue) \in Speakers THEN Head(queue) ELSE saved
  /\ UNCHANGED <<splash, cmds, pipe, view, helper, told, faults>>

(* A speaker that has paired is noted in the configuration (and in its     *)
(* file, where a failed write is only logged); Back ends the set-up.       *)
SetupLine ==
  /\ pc = "setup" /\ Get
  /\ pc' = IF Head(queue) = "BACK" THEN "enter" ELSE "setup"
  /\ saved' = IF Head(queue) \in Speakers THEN Head(queue) ELSE saved
  /\ UNCHANGED <<splash, cmds, pipe, view, helper, told, faults>>

(* A phone has been found: "Pairing...".  The reader is cancelled.         *)
PhoneComes ==
  /\ pc = "idle"
  /\ SendTo("STATUS")
  /\ pc' = "away" /\ reading' = "call"
  /\ UNCHANGED <<lines, helper, saved, told>>

(* kill: the pump is cancelled first, then the process quits.  A helper    *)
(* was killed by the STATUS that came before.  (That the limit of          *)
(* BT_PAIRING may cut it off in between is left out.)                      *)
KillSplash ==
  /\ pc = "away" /\ splash # "none"
  /\ splash' = "none" /\ cmds' = <<>> /\ pipe' = <<>> /\ helper' = None
  /\ UNCHANGED <<program, queue, view, saved, told, faults>>

(* "Reconnecting...", or "Waiting for phone..." after a projection.        *)
ShowAgain ==
  /\ pc = "away" /\ splash # "up"
  /\ SendTo("STATUS")
  /\ UNCHANGED <<program, lines, helper, saved, told>>

BackToIdle ==
  /\ pc = "away"
  /\ pc' = "enter"
  /\ UNCHANGED <<reading, splash, cmds, lines, view, helper, saved, told, faults>>

-----------------------------------------------------------------------------
(* The splash process and the user.                                        *)

PrintLine(line) == Len(pipe) + Len(queue) < MaxLines /\ pipe' = Append(pipe, line)

(* The helper is killed; a result that it has written by then is read and  *)
(* passed on all the same, in this step or not at all.                     *)
Result(h) == IF h # None /\ h.step = "report" THEN {<<>>, <<h.speaker>>} ELSE {<<>>}

(* _on_stdin.                                                              *)
ReadCommand ==
  /\ splash = "up" /\ cmds # <<>>
  /\ cmds' = Tail(cmds)
  /\ IF Head(cmds) = "STATUS"
     THEN /\ view' = "idle" /\ helper' = None
          /\ \E r \in Result(helper) : pipe' = pipe \o r
     ELSE view' = "setup" /\ UNCHANGED <<helper, pipe>>
  /\ UNCHANGED <<program, splash, queue, saved, told, faults>>

(* The button is on the idle view, whatever the program is doing.          *)
PressSetup ==
  /\ splash = "up" /\ view = "idle"
  /\ PrintLine("SETUP")
  /\ UNCHANGED <<program, splash, cmds, queue, view, helper, saved, told, faults>>

(* Slip: the view changes and the program is not told.                     *)
PressBackSilently ==
  /\ splash = "up" /\ view = "setup"
  /\ view' = "idle" /\ helper' = None
  /\ UNCHANGED <<program, splash, cmds, lines, saved, told, faults>>

(* Slip: the helper is left to itself.                                     *)
PressBackNoKill ==
  /\ splash = "up" /\ view = "setup"
  /\ PrintLine("BACK") /\ view' = "idle"
  /\ UNCHANGED <<program, splash, cmds, queue, helper, saved, told, faults>>

PressBack ==
  /\ splash = "up" /\ view = "setup"
  /\ Len(pipe) + Len(queue) < MaxLines
  /\ view' = "idle" /\ helper' = None
  /\ \E r \in Result(helper) : pipe' = Append(pipe, "BACK") \o r
  /\ UNCHANGED <<program, splash, cmds, queue, saved, told, faults>>

(* _pair_device: a helper that is still running is killed.                 *)
TapSpeaker ==
  /\ splash = "up" /\ view = "setup"
  /\ Len(pipe) + Len(queue) < MaxLines
  /\ \E s \in Speakers : helper' = [speaker |-> s, step |-> "pairing"]
  /\ \E r \in Result(helper) :
       pipe' = pipe \o r /\ told' = IF r = <<>> THEN told ELSE helper.speaker
  /\ UNCHANGED <<program, splash, cmds, queue, view, saved, faults>>

(* bt_pair.pair: an old entry is removed, the speaker is looked for,       *)
(* trusted and paired with, which is reported some seconds before the end; *)
(* it fails when the speaker is not found or refuses.                      *)
HelperSteps ==
  /\ helper # None
  /\ \/ helper.step = "pairing" /\ helper' = [helper EXCEPT !.step = "report"]
     \/ helper.step \in {"pairing", "settle"} /\ helper' = None
  /\ UNCHANGED <<program, splash, cmds, lines, view, saved, told, faults>>

(* _on_pair_stdout: PAIR_OK.                                               *)
ReportPaired ==
  /\ splash = "up" /\ helper # None /\ helper.step = "report"
  /\ PrintLine(helper.speaker)
  /\ helper' = [helper EXCEPT !.step = "settle"]
  /\ told' = helper.speaker
  /\ UNCHANGED <<program, splash, cmds, queue, view, saved, faults>>

(* The process dies; what it has printed can still be read, what it was    *)
(* sent is lost, and what it has said is not held against the program.     *)
SplashDies ==
  /\ splash = "up" /\ faults < MaxFaults
  /\ splash' = "dead" /\ faults' = faults + 1
  /\ cmds' = <<>> /\ told' = None /\ helper' = None
  /\ UNCHANGED <<program, lines, view, saved>>

Program == EnterIdle \/ IdleLine \/ OpenSetup \/ SetupLine \/ Call

Screen == ReadCommand \/ HelperSteps \/ ReportPaired

User == PressSetup \/ PressBack \/ TapSpeaker

Phone == PhoneComes \/ KillSplash \/ ShowAgain \/ BackToIdle

Next == Program \/ Pump \/ Screen \/ User \/ Phone \/ SplashDies

Spec == Init /\ [][Next]_vars

(* Both event loops; not the user, the phone or the helper.                *)
FairSpec == Spec /\ WF_vars(Program) /\ WF_vars(Pump) /\ WF_vars(ReadCommand)

-----------------------------------------------------------------------------
(***************************************************************************)
(* Every variable has its type, and the helper, which uses the Bluetooth   *)
(* adapter, runs only behind the set-up view of a process that runs.       *)
(***************************************************************************)
TypeOK ==
  /\ pc \in {"enter", "idle", "opening", "setup", "away"} /\ reading \in {"call", "get"}
  /\ splash \in {"none", "up", "dead"} /\ view \in {"idle", "setup"}
  /\ cmds \in Seq({"STATUS", "BT_SETUP"}) /\ pipe \in Seq(Line) /\ queue \in Seq(Line)
  /\ helper \in {None} \cup Helper
  /\ saved \in {None} \cup Speakers /\ told \in {None} \cup Speakers
  /\ faults \in 0 .. MaxFaults
  /\ helper # None => view = "setup" /\ splash = "up"

(***************************************************************************)
(* The screen and the program agree: while the program waits for the user  *)
(* of the set-up, the process shows it, or has been told to, or Back is on *)
(* its way.  Otherwise the program would wait for ever for a button that   *)
(* is not on the screen, deaf to phones and ignition; lines left over from *)
(* earlier processes and presses during a session do not bring that about. *)
(***************************************************************************)
NeverStuck ==
  pc = "setup" /\ splash = "up" /\ view = "idle" =>
    InFlight("BACK") \/ \E i \in DOMAIN cmds : cmds[i] = "BT_SETUP"

(***************************************************************************)
(* The set-up is not closed under the user's hand: the program returns to  *)
(* IDLE, whose STATUS command kills the helper, only when the user has     *)
(* left the set-up view or there is none.  A stale line must not end it.   *)
(***************************************************************************)
SetupKept == [][pc = "setup" /\ pc' = "enter" => view = "idle" \/ splash # "up"]_vars

(***************************************************************************)
(* What the set-up view says is kept: the speaker it last reported as      *)
(* connected is the one in the configuration, or the line that reports it  *)
(* is on its way to the reader of the set-up, ahead of any Back.           *)
(***************************************************************************)
ToldIsSaved ==
  told # None => saved = told \/ (pc = "setup" /\ InFlight(told))

(***************************************************************************)
(* Back works: the program leaves the set-up once the user has.            *)
(***************************************************************************)
BackReturns ==
  (pc = "setup" /\ InFlight("BACK")) ~> (pc # "setup")
=============================================================================
