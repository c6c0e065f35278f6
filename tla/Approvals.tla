----------------------------- MODULE Approvals -----------------------------
(* The approvals of a project session: the engine asks in a callback       *)
(* thread (workbench/core.py, _on_approval_request), the permission mode,  *)
(* the shell blocklist and the session allowlist answer some requests, and *)
(* the others wait in _pending for browsers, which look a slot up under    *)
(* the lock and answer it after releasing the lock, or for the timeout     *)
(* (workbench/service.py, _on_approval and decide).                        *)
EXTENDS FiniteSets

CONSTANTS Requests,  \* the requests of a session, each asked once
          Browsers,
          Keys,      \* what "allow for this session" remembers: a tool
          None

Modes == {"readonly", "copilot", "auto", "full"}
Kinds == {"trust", "shell", "protected", "tool"}
Answers == {"accept", "reject", "accept_for_session"}

VARIABLES
  mode, autoShell,  \* the permission mode and the auto_shell_approvals setting
  req,        \* request -> its kind, its key and how far its callback is
  slots,      \* request -> _pending's slot: the decision in it, or None
  open,       \* the requests in _pending
  allowed,    \* _session_allow
  hand,       \* browser -> the slot it found and what it is about to say
  verdict,    \* request -> what the engine was told
  told        \* history: request -> what browsers said while its callback waited

vars == <<mode, autoShell, req, slots, open, allowed, hand, verdict, told>>

Init ==
  /\ mode \in Modes /\ autoShell \in BOOLEAN
  /\ req = [r \in Requests |-> [at |-> "new", kind |-> "tool", key |-> None]]
  /\ slots = [r \in Requests |-> None] /\ open = {} /\ allowed = {}
  /\ hand = [b \in Browsers |-> None]
  /\ verdict = [r \in Requests |-> None] /\ told = [r \in Requests |-> {}]

Goto(r, place) == req' = [req EXCEPT ![r].at = place]

-----------------------------------------------------------------------------
\* The request is logged and pushed before anybody could answer it.
Ask(r) ==
  /\ req[r].at = "new"
  /\ \E kind \in Kinds, key \in Keys : req' = [req EXCEPT ![r] = [at |-> "asked", kind |-> kind, key |-> key]]
  /\ UNCHANGED <<mode, autoShell, slots, open, allowed, hand, verdict, told>>

\* What needs no human: full access, our own server's first elicitation and
\* the shell of an unattended run, which is refused in a protected area.
Policy(r) ==
  CASE mode = "full" -> "accept"
    [] mode = "auto" /\ req[r].kind = "trust" -> "accept"
    [] mode = "auto" /\ autoShell /\ req[r].kind = "shell" -> "accept"
    [] mode = "auto" /\ autoShell /\ req[r].kind = "protected" -> "reject"
    [] req[r].key \in allowed -> "accept"
    [] OTHER -> None

Judge(r) ==
  /\ req[r].at = "asked"
  /\ verdict' = [verdict EXCEPT ![r] = Policy(r)]
  /\ Goto(r, IF Policy(r) = None THEN "queue" ELSE "reply")
  /\ UNCHANGED <<mode, autoShell, slots, open, allowed, hand, told>>

Enqueue(r) ==
  /\ req[r].at = "queue"
  /\ open' = open \cup {r} /\ Goto(r, "wait")
  /\ UNCHANGED <<mode, autoShell, slots, allowed, hand, verdict, told>>

\* The gate is set once the slot has a decision; the last one counts.
Wake(r) ==
  /\ req[r].at = "wait" /\ slots[r] # None
  /\ verdict' = [verdict EXCEPT ![r] = slots[r]] /\ Goto(r, "leave")
  /\ UNCHANGED <<mode, autoShell, slots, open, allowed, hand, told>>

\* Bug variant: the clock decides, whatever the slot holds.
TimeOutRegardless(r) ==
  /\ req[r].at = "wait"
  /\ verdict' = [verdict EXCEPT ![r] = "reject"] /\ Goto(r, "leave")
  /\ UNCHANGED <<mode, autoShell, slots, open, allowed, hand, told>>
TimeOut(r) ==
  /\ req[r].at = "wait" /\ slots[r] = None
  /\ verdict' = [verdict EXCEPT ![r] = "reject"] /\ Goto(r, "leave")
  /\ UNCHANGED <<mode, autoShell, slots, open, allowed, hand, told>>

Leave(r) ==
  /\ req[r].at = "leave"
  /\ open' = open \ {r} /\ Goto(r, "reply")
  /\ UNCHANGED <<mode, autoShell, slots, allowed, hand, verdict, told>>

\* The decision is logged and pushed; the engine goes on, the slot is gone.
Reply(r) ==
  /\ req[r].at = "reply"
  /\ req' = [req EXCEPT ![r] = [at |-> "done", kind |-> "tool", key |-> None]]
  /\ slots' = [slots EXCEPT ![r] = None] /\ verdict' = [verdict EXCEPT ![r] = None]
  /\ told' = [told EXCEPT ![r] = {}]
  /\ UNCHANGED <<mode, autoShell, open, allowed, hand>>

-----------------------------------------------------------------------------
\* decide: the slot is looked up under the lock; 404 when there is none.
Find(b, r, answer) ==
  /\ hand[b] = None /\ r \in open
  /\ hand' = [hand EXCEPT ![b] = [slot |-> r, key |-> req[r].key, says |-> answer]]
  /\ UNCHANGED <<mode, autoShell, req, slots, open, allowed, verdict, told>>

Said(answer) == IF answer = "reject" THEN "reject" ELSE "accept"
InTime(r) == req[r].at = "wait"

Decide(b) ==
  /\ hand[b] # None
  /\ LET r == hand[b].slot IN
       /\ slots' = IF r \in open THEN [slots EXCEPT ![r] = Said(hand[b].says)] ELSE slots
       /\ allowed' = IF hand[b].says = "accept_for_session" THEN allowed \cup {hand[b].key} ELSE allowed
       /\ told' = IF InTime(r) THEN [told EXCEPT ![r] = @ \cup {Said(hand[b].says)}] ELSE told
  /\ hand' = [hand EXCEPT ![b] = None]
  /\ UNCHANGED <<mode, autoShell, req, open, verdict>>

\* set_permission_mode, between turns.
SetMode(m) ==
  /\ mode # m /\ \A r \in Requests : req[r].at \in {"new", "done"}
  /\ mode' = m
  /\ UNCHANGED <<autoShell, req, slots, open, allowed, hand, verdict, told>>

Callback(r) == Judge(r) \/ Enqueue(r) \/ Wake(r) \/ TimeOut(r) \/ Leave(r) \/ Reply(r)

Next ==
  \/ \E r \in Requests : Ask(r) \/ Callback(r)
  \/ \E b \in Browsers : Decide(b) \/ \E r \in Requests, a \in Answers : Find(b, r, a)
  \/ \E m \in Modes : SetMode(m)

Spec == Init /\ [][Next]_vars
FairSpec == Spec /\ \A r \in Requests : WF_vars(Callback(r))

-----------------------------------------------------------------------------
TypeOK ==
  /\ mode \in Modes /\ autoShell \in BOOLEAN
  /\ \A r \in Requests : req[r].kind \in Kinds /\ req[r].key \in Keys \cup {None}
  /\ slots \in [Requests -> {"accept", "reject", None}]
  /\ verdict \in [Requests -> {"accept", "reject", None}]
  /\ open = {r \in Requests : req[r].at \in {"wait", "leave"}} /\ allowed \subseteq Keys

\* What a human was asked is decided by humans: of the answers given in time
\* one is the verdict, however many browsers raced; with none it is a refusal.
HumansDecide ==
  \A r \in Requests : verdict[r] # None /\ r \in open =>
    IF told[r] = {} THEN verdict[r] = "reject" ELSE verdict[r] \in told[r]

Waits(r) == req[r].at = "asked"
Answered(r) == req[r].at = "done"

\* Every request is answered, whoever looks at the screen.
EveryRequestEnds == \A r \in Requests : Waits(r) ~> Answered(r)
=============================================================================
