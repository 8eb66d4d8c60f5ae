------------------------------ MODULE Delivery ------------------------------
(***************************************************************************)
(* The way of one message out of the process: notification.Router with its *)
(* primary and fallback channel, dingtalk.Client with its cooldown, and    *)
(* the SMTP session of mailer.Mailer.  A health report goes to one of the  *)
(* two transports directly.                                                *)
(*                                                                         *)
(* A request and its answer are two steps, because time passes, the signal *)
(* context is cancelled and answers are lost between them.  The cooldown   *)
(* is kept as the time that is left of it: the client compares readings of *)
(* the monotonic clock, which nobody can set.  The monitor sends one       *)
(* message at a time; dingtalk/client.go promises "Client is safe for      *)
(* concurrent use", so the model has any number of Callers.                *)
(*                                                                         *)
(* Messages are taken to be valid: a payload that a renderer rejects fails *)
(* before any of this.                                                     *)
(***************************************************************************)
EXTENDS Naturals

CONSTANTS
    Callers,  \* goroutines that send
    Routes,   \* the configurations to be considered
    Pause,    \* rateLimitPause
    Timeout   \* the longest a channel's call takes

Channels == {"smtp", "dingtalk"}
Kinds == {"alert", "health"}

\* What buildAlertRouter and NewRouter accept.
ValidRoutes ==
    {r \in [primary : Channels, fallback : Channels \cup {"none"}, health : Channels] :
        r.fallback # r.primary}

ASSUME DeliveryAssumption ==
    /\ Routes \subseteq ValidRoutes
    /\ Pause \in Nat \ {0}
    /\ Timeout \in Nat \ {0}

VARIABLES
    route,     \* the configuration of this process
    ctxDone,   \* the signal context is cancelled
    blocked,   \* Client.blockedUntil, as the time left until then
    kind,      \* what each caller sends
    hop,       \* which channel of the router each call is at
    stage,     \* "idle", "start", "sending", "quit", "failed" or "sent"
    age,       \* the time since the channel's call began
    \* observers: read by no action's guard
    accepted,  \* the channels that accepted the caller's message
    lost,      \* those of them whose call nevertheless returned an error
    result,    \* of the caller's last call: "none", "nil" or "error"
    pauses     \* the pauses DingTalk has asked for: what is left of them, and
               \* what kind of message it was

callVars == <<kind, hop, stage, age, accepted, lost, result>>
vars == <<route, ctxDone, blocked, callVars, pauses>>

\* The channel a call is at.
Channel(c) ==
    IF kind[c] = "health" THEN route.health
    ELSE IF hop[c] = "primary" THEN route.primary ELSE route.fallback

InFlight(c) == stage[c] \in {"sending", "quit"}

\* Client.send refuses while the cooldown lasts.
Blocked_Never(ch) == FALSE
Blocked(ch) == ch = "dingtalk" /\ blocked > 0

\* What a refused call leaves of the cooldown.
AfterRefusal_Again(ch) == IF Blocked(ch) THEN Pause ELSE blocked
AfterRefusal(ch) == blocked

\* The cooldown after a 410100 answer to a request that is so old.
Cooldown_Adds(a) == IF Pause > a THEN blocked + (Pause - a) ELSE blocked
Cooldown_Latest(a) == IF Pause > a THEN Pause - a ELSE 0
Cooldown(a) == IF Pause > a + blocked THEN Pause - a ELSE blocked

\* Which answers of DingTalk are a success.
Success_AnyAnswer(answer) == answer # "lost"
Success(answer) == answer = "ok"

\* The router goes on to the fallback.
Replays_Always(c) == hop[c] = "primary" /\ route.fallback # "none" /\ ~ctxDone
FallsBack(c) ==
    /\ stage[c] = "failed"
    /\ kind[c] = "alert" /\ hop[c] = "primary"
    /\ route.fallback # "none" /\ ~ctxDone

-----------------------------------------------------------------------------

Init ==
    /\ route \in Routes
    /\ ctxDone = FALSE /\ blocked = 0
    /\ kind = [c \in Callers |-> "alert"]
    /\ hop = [c \in Callers |-> "primary"]
    /\ stage = [c \in Callers |-> "idle"]
    /\ age = [c \in Callers |-> 0]
    /\ accepted = [c \in Callers |-> {}]
    /\ lost = [c \in Callers |-> {}]
    /\ result = [c \in Callers |-> "none"]
    /\ pauses = {}

\* SendBatch of the router, or SendHealth of the transport itself.
Call(c, k) ==
    /\ stage[c] = "idle"
    /\ stage' = [stage EXCEPT ![c] = "start"]
    /\ kind' = [kind EXCEPT ![c] = k]
    /\ hop' = [hop EXCEPT ![c] = "primary"]
    /\ accepted' = [accepted EXCEPT ![c] = {}]
    /\ lost' = [lost EXCEPT ![c] = {}]
    /\ result' = [result EXCEPT ![c] = "none"]
    /\ UNCHANGED <<route, ctxDone, blocked, age, pauses>>

\* The transport returns an error before it has connected.
Refuse(c) ==
    /\ stage[c] = "start"
    /\ ctxDone \/ Blocked(Channel(c))
    /\ stage' = [stage EXCEPT ![c] = "failed"]
    /\ blocked' = AfterRefusal(Channel(c))
    /\ UNCHANGED <<route, ctxDone, kind, hop, age, accepted, lost, result, pauses>>

\* It has looked at the context and at blockedUntil, and goes on to post the
\* request, or to open the SMTP session.  Both happen at some time before the
\* answer, and age counts from the look, as the code's "now" does.
Begin(c) ==
    /\ stage[c] = "start"
    /\ ~ctxDone /\ ~Blocked(Channel(c))
    /\ stage' = [stage EXCEPT ![c] = "sending"]
    /\ UNCHANGED <<route, ctxDone, blocked, kind, hop, age, accepted, lost,
                   result, pauses>>

\* A channel's call has ended: the message was accepted or not, and the call
\* reports success or an error.
Ended(c, taken, next) ==
    /\ stage' = [stage EXCEPT ![c] = next]
    /\ age' = [age EXCEPT ![c] = 0]
    /\ accepted' = IF taken THEN [accepted EXCEPT ![c] = @ \cup {Channel(c)}] ELSE accepted
    /\ lost' = IF taken /\ next = "failed"
               THEN [lost EXCEPT ![c] = @ \cup {Channel(c)}] ELSE lost

\* DingTalk has taken the message ("ok"), asks for a pause ("limited", 410100)
\* or rejects it ("refused"); or there is no answer that can be read ("lost"): a
\* broken connection, a timeout, a cancellation, too long a body, no errcode.
DingTalkAnswers(c, answer, taken) ==
    /\ stage[c] = "sending" /\ Channel(c) = "dingtalk"
    /\ answer = "ok" => taken
    /\ answer \in {"limited", "refused"} => ~taken
    /\ Ended(c, taken, IF Success(answer) THEN "sent" ELSE "failed")
    /\ IF answer = "limited"
       THEN /\ blocked' = Cooldown(age[c])
            /\ pauses' = pauses \cup
                  {p \in {[left |-> Pause - age[c], by |-> kind[c]]} : p.left > 0}
       ELSE UNCHANGED <<blocked, pauses>>
    /\ UNCHANGED <<route, ctxDone, kind, hop, result>>

\* The session up to the answer to the message data.  One refused recipient
\* ends it before the data.
SmtpAnswers(c, ok, taken) ==
    /\ stage[c] = "sending" /\ Channel(c) = "smtp"
    /\ ok => taken
    /\ IF ok
       THEN /\ stage' = [stage EXCEPT ![c] = "quit"]
            /\ accepted' = [accepted EXCEPT ![c] = @ \cup {"smtp"}]
            /\ UNCHANGED <<age, lost>>
       ELSE Ended(c, taken, "failed")
    /\ UNCHANGED <<route, ctxDone, blocked, kind, hop, result, pauses>>

\* The answer to QUIT.
SmtpQuits(c, ok) ==
    /\ stage[c] = "quit"
    /\ Ended(c, TRUE, IF ok THEN "sent" ELSE "failed")
    /\ UNCHANGED <<route, ctxDone, blocked, kind, hop, result, pauses>>

\* The router after the primary's error.
FallBack(c) ==
    /\ stage[c] \in {"failed", "sent"}
    /\ FallsBack(c)
    /\ hop' = [hop EXCEPT ![c] = "fallback"]
    /\ stage' = [stage EXCEPT ![c] = "start"]
    /\ UNCHANGED <<route, ctxDone, blocked, kind, age, accepted, lost, result, pauses>>

Return(c) ==
    /\ stage[c] \in {"failed", "sent"}
    /\ ~FallsBack(c)
    /\ stage' = [stage EXCEPT ![c] = "idle"]
    /\ result' = [result EXCEPT ![c] = IF stage[c] = "sent" THEN "nil" ELSE "error"]
    /\ UNCHANGED <<route, ctxDone, blocked, kind, hop, age, accepted, lost, pauses>>

\* A unit of time.  The timeouts of both transports end a call that lasts.
Tick ==
    /\ \A c \in Callers : age[c] < Timeout
    /\ blocked' = IF blocked = 0 THEN 0 ELSE blocked - 1
    /\ age' = [c \in Callers |-> IF InFlight(c) THEN age[c] + 1 ELSE 0]
    /\ pauses' = {[p EXCEPT !.left = @ - 1] : p \in {q \in pauses : q.left > 1}}
    /\ UNCHANGED <<route, ctxDone, kind, hop, stage, accepted, lost, result>>

Cancel ==
    /\ ~ctxDone
    /\ ctxDone' = TRUE
    /\ UNCHANGED <<route, blocked, callVars, pauses>>

\* The cancelled process has ended, and a new one knows of no cooldown.  (What a
\* crash in the middle of a send means is Alerter's subject.)
Restart ==
    /\ ctxDone /\ \A c \in Callers : stage[c] = "idle"
    /\ ctxDone' = FALSE /\ blocked' = 0 /\ pauses' = {}
    /\ UNCHANGED <<route, callVars>>

Progress(c) ==
    \/ Refuse(c) \/ Begin(c)
    \/ \E answer \in {"ok", "limited", "refused", "lost"}, taken \in BOOLEAN :
          DingTalkAnswers(c, answer, taken)
    \/ \E ok, taken \in BOOLEAN : SmtpAnswers(c, ok, taken)
    \/ \E ok \in BOOLEAN : SmtpQuits(c, ok)
    \/ FallBack(c) \/ Return(c)

Next ==
    \/ \E c \in Callers : \/ \E k \in Kinds : Call(c, k)
                          \/ Progress(c)
    \/ Tick \/ Cancel \/ Restart

Spec == Init /\ [][Next]_vars

\* Both transports have a timeout, and time passes.  Nobody has to send.
FairSpec == Spec /\ WF_vars(Tick) /\ \A c \in Callers : WF_vars(Progress(c))

-----------------------------------------------------------------------------
(* Safety *)

TypeOK ==
    /\ route \in Routes /\ ctxDone \in BOOLEAN
    /\ blocked \in 0..Pause
    /\ kind \in [Callers -> Kinds]
    /\ hop \in [Callers -> {"primary", "fallback"}]
    /\ stage \in [Callers -> {"idle", "start", "sending", "quit", "failed", "sent"}]
    /\ \A c \in Callers : kind[c] = "alert" /\ hop[c] = "fallback" => route.fallback # "none"
    /\ age \in [Callers -> 0..Timeout]
    /\ accepted \in [Callers -> SUBSET Channels]
    /\ lost \in [Callers -> SUBSET Channels]
    /\ result \in [Callers -> {"none", "nil", "error"}]
    /\ pauses \subseteq [left : 1..Pause, by : Kinds]

\* router.go "uses fallback only after primary failure": a message reaches its
\* recipient over two channels only if the primary lost the answer of the first.
SecondCopyIsALostAnswer ==
    \A c \in Callers : accepted[c] = Channels => route.primary \in lost[c]

\* README "A DingTalk 410100 response starts a local ten-minute cooldown": with
\* any number of callers and answers out of order, a call gets past its look at
\* blockedUntil only when every pause that DingTalk asked this process for, and
\* that an earlier call has recorded, is over.
CooldownIsKept ==
    [][\A c \in Callers :
          stage[c] = "start" /\ stage'[c] = "sending" /\ Channel(c) = "dingtalk"
          => pauses = {}]_vars

\* README: "Account conditions, account-check failures, and account-alert
\* delivery failures never block this report".  A report is never refused only
\* because of what became of an alert.
AlertsDoNotBlockReports ==
    [][\A c \in Callers :
          kind[c] = "health" /\ stage[c] = "start" /\ stage'[c] = "failed" /\ ~ctxDone
          => \E p \in pauses : p.by = "health"]_vars

-----------------------------------------------------------------------------
(* Refinement: each caller has a Sender. *)

Promise(c) == INSTANCE Sender WITH
    busy <- stage[c] # "idle",
    accepted <- accepted[c] # {},
    result <- result[c]

\* Fallbacks, cooldowns, lost answers and other callers leave each caller with
\* what Alerter and HealthReport rely on.
EachCallKeepsThePromise ==
    /\ \A c \in Callers : Promise(c)!Init
    /\ [][\A c \in Callers : [Promise(c)!Next]_(Promise(c)!vars)]_vars

-----------------------------------------------------------------------------
(* Liveness *)

Alerting(c) == kind[c] = "alert" /\ stage[c] # "idle"
Tried(ch) == \E c \in Callers : InFlight(c) /\ Channel(c) = ch
AlertDelivered == \E c \in Callers : kind[c] = "alert" /\ result[c] = "nil"

\* design.md "If both the primary and optional fallback delivery fail, ... the
\* next cycle retries": while alerts keep being sent and none gets through, every
\* channel of the route is tried again and again; a cooldown never becomes
\* permanent, and a failing primary never hides the fallback.
NoChannelIsAbandoned ==
    \A ch \in Channels :
        /\ [](ch \in {route.primary, route.fallback})
        /\ <>[]~ctxDone
        /\ []<>(\E c \in Callers : Alerting(c))
        => []<>Tried(ch) \/ []<>AlertDelivered

=============================================================================
