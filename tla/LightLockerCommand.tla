-------------------------- MODULE LightLockerCommand --------------------------
(***************************************************************************)
(* light-locker-command (light-locker-command.c) among the clients of      *)
(* Inhibitors.  A process makes the calls its options ask for, one after   *)
(* the other, and Inhibit last; then it stays, alone or with the command   *)
(* it was given to run, and gives its cookie back before it exits.  Each   *)
(* call blocks the process until the answer or the time-out of D-Bus.  It  *)
(* can be killed between any two steps.                                    *)
(***************************************************************************)
EXTENDS Inhibitors

CONSTANTS
    Commands,   \* the clients that are light-locker-command processes
    MaxCalls    \* bound on the calls before Inhibit, 8 in the program

ASSUME CommandAssumption ==
    /\ Commands \subseteq Clients
    /\ MaxCalls \in Nat

VARIABLE process

commandVars == <<owner, lastCookie, suspends, inbox, connected, holds, process>>

Process ==
    [ at : {"calls", "inhibits", "waits", "quits", "exits", "gone"},
      calls : 0 .. MaxCalls,    \* calls of the other options still to make
      inhibit : BOOLEAN,        \* do_inhibit
      child : {"none", "given", "runs", "ended"},   \* command_argv
      cookie : Cookies,         \* uninhibit_cookie
      holding : BOOLEAN ]       \* do_uninhibit

\* A process as main enters the main loop: the options are any, a command
\* comes with --inhibit only.
Started ==
    {p \in Process :
        /\ p.at = "calls" /\ p.cookie = 0 /\ ~p.holding
        /\ p.child = "none" \/ (p.child = "given" /\ p.inhibit)}

CommandInit == Init /\ process \in [Commands -> Started]

Goes(c, to) == process' = [process EXCEPT ![c].at = to]

\* A step of the process that sends nothing.
Silently(c, to) == Goes(c, to) /\ UNCHANGED vars

-----------------------------------------------------------------------------
(***************************************************************************)
(* do_command: `goto done' and the end of the function leave the loop.     *)
(***************************************************************************)

\* The call of an option other than --inhibit, with the answer it asks for.
Answered(c) ==
    /\ process[c].at = "calls" /\ process[c].calls > 0
    /\ process' = [process EXCEPT ![c].calls = @ - 1]
    /\ UNCHANGED vars

\* No answer, an error or another answer; or nothing is left to do.
Done(c) ==
    /\ process[c].at = "calls"
    /\ process[c].calls > 0 \/ ~process[c].inhibit
    /\ Silently(c, "quits")

SendInhibit(c) ==
    /\ process[c].at = "calls" /\ process[c].calls = 0 /\ process[c].inhibit
    /\ CallInhibit(c)
    /\ Goes(c, "inhibits")

\* Bug: the cookie in the answer is not read.
ReplyUnread(c) ==
    /\ process[c].at = "inhibits" /\ holds[c] # {}
    /\ process' = [process EXCEPT ![c].at = "waits", ![c].holding = TRUE]
    /\ UNCHANGED vars

\* Process p has a cookie to give back.
Took(p, k, to, child) ==
    [p EXCEPT !.cookie = k, !.holding = TRUE, !.at = to, !.child = child]

\* Inhibit is answered.  The command, if there is one, is spawned; if that
\* fails, the process leaves with the cookie.
Reply(c) ==
    /\ process[c].at = "inhibits"
    /\ \E k \in holds[c] :
          \/ /\ process[c].child = "none"
             /\ process' = [process EXCEPT ![c] = Took(@, k, "waits", "none")]
          \/ /\ process[c].child = "given"
             /\ \/ process' = [process EXCEPT ![c] = Took(@, k, "waits", "runs")]
                \/ process' = [process EXCEPT ![c] = Took(@, k, "quits", "given")]
    /\ UNCHANGED vars

\* The time-out of the call is over.  The answer may still come, too late.
NoReply(c) == process[c].at = "inhibits" /\ Silently(c, "quits")

-----------------------------------------------------------------------------
(***************************************************************************)
(* The end.                                                                *)
(***************************************************************************)

ChildEnds(c) ==
    /\ process[c].at = "waits" /\ process[c].child = "runs"
    /\ process' = [process EXCEPT ![c].child = "ended"]
    /\ UNCHANGED vars

\* Bug: only a child that failed makes the process leave.
ChildTermOnFailure(c) ==
    /\ process[c].at = "waits" /\ process[c].child = "ended"
    /\ UNCHANGED <<vars, process>>

\* child_term
ChildTerm(c) ==
    /\ process[c].at = "waits" /\ process[c].child = "ended"
    /\ Silently(c, "quits")

\* handle_term, installed where no command is run: SIGTERM, SIGINT, SIGHUP.
HandleTerm(c) ==
    /\ process[c].at = "waits" /\ process[c].child = "none"
    /\ Silently(c, "quits")

\* main, after the loop.
SendUnInhibit(c) ==
    /\ process[c].at = "quits" /\ process[c].holding
    /\ CallUnInhibit(c, process[c].cookie)
    /\ process' = [process EXCEPT ![c].at = "exits", ![c].holding = FALSE]

Exit(c) ==
    /\ process[c].at \in {"quits", "exits"} /\ ~process[c].holding
    /\ Leave(c)
    /\ Goes(c, "gone")

\* A signal nobody handles: SIGKILL, or SIGTERM while a command runs.
Kill(c) ==
    /\ process[c].at # "gone"
    /\ Leave(c)
    /\ Goes(c, "gone")

-----------------------------------------------------------------------------

Command(c) ==
    \/ Answered(c) \/ Done(c) \/ SendInhibit(c) \/ Reply(c) \/ NoReply(c)
    \/ ChildEnds(c) \/ ChildTerm(c) \/ HandleTerm(c)
    \/ SendUnInhibit(c) \/ Exit(c) \/ Kill(c)

\* Any other client.
OtherClient(c) ==
    \/ CallInhibit(c) \/ Leave(c) \/ ReleaseName(c)
    \/ \E k \in Cookies : CallUnInhibit(c, k)

CommandNext ==
    \/ \E c \in Commands : Command(c)
    \/ \E c \in Clients \ Commands : OtherClient(c) /\ UNCHANGED process
    \/ Handle /\ UNCHANGED process

CommandSpec == CommandInit /\ [][CommandNext]_commandVars

\* light-locker dispatches, and a process reacts to the end of its child.  It is
\* the bound on the inbox that can keep it from sending for a while.
CommandFairSpec ==
    /\ CommandSpec
    /\ WF_commandVars(Handle /\ UNCHANGED process)
    /\ \A c \in Commands :
          WF_commandVars(ChildTerm(c)) /\ SF_commandVars(SendUnInhibit(c))

-----------------------------------------------------------------------------
(***************************************************************************)
(* Properties.                                                             *)
(***************************************************************************)

\* "Inhibit the screensaver from activating.  Terminate the
\* light-locker-command process to end inhibition" (light-locker-command.1:48):
\* as long as the process waits, for a signal or for its command, its entry is
\* in light-locker's list, whatever other clients send, whether they are gone
\* or not and however late answers are.
CommandInhibits ==
    \A c \in Commands : process[c].at = "waits" => owner[process[c].cookie] = c

\* The process has terminated, or the command it was given has.
Over(c) == c \notin connected \/ (c \in Commands /\ process[c].child = "ended")

\* The inhibitions of a process that terminated end, whichever way it did and
\* even if its Inhibit was not dispatched by then; those of a process whose
\* command ended do without anybody terminating it (light-locker-command.c:294,
\* 562; gs-listener-dbus.c:553).
InhibitionEnds == \A c \in Clients : Over(c) ~> \A k \in Cookies : owner[k] # c

=============================================================================
