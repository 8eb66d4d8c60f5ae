--------------------------- MODULE DeliveryProofs ---------------------------
(***************************************************************************)
(* Proofs about Delivery for any number of callers, every route and every  *)
(* pause and timeout.                                                      *)
(*                                                                         *)
(* Two facts make its properties inductive: the cooldown lasts at least as *)
(* long as every pause DingTalk asked for (PausesAreCovered), and what is  *)
(* known of a message follows the call through the two channels            *)
(* (OneChannelAtATime).                                                    *)
(***************************************************************************)
EXTENDS Delivery, TLAPS

PausesAreCovered == \A p \in pauses : p.left <= blocked

FollowsTheCall(c) ==
    /\ kind[c] = "health" => accepted[c] \subseteq {route.health}
    /\ kind[c] = "alert" /\ hop[c] = "primary" =>
          /\ accepted[c] \subseteq {route.primary}
          /\ stage[c] \in {"start", "sending"} => accepted[c] = {}
          /\ stage[c] = "failed" => accepted[c] \subseteq lost[c]
    /\ kind[c] = "alert" /\ hop[c] = "fallback" =>
          accepted[c] \cap {route.primary} \subseteq lost[c]
    /\ stage[c] \in {"quit", "sent"} => accepted[c] # {}

OneChannelAtATime == \A c \in Callers : FollowsTheCall(c)

IInv == TypeOK /\ PausesAreCovered /\ OneChannelAtATime

-----------------------------------------------------------------------------

\* The channel a call is at is one of the two.
LEMMA ChannelType ==
    ASSUME TypeOK, NEW c \in Callers, stage[c] # "idle"
    PROVE  Channel(c) \in Channels
BY DeliveryAssumption DEF TypeOK, ValidRoutes, Channel, Channels, Kinds

\* One message, one way: an accepted message is one more of its own channel, which
\* no earlier hop of the call went through.
LEMMA ChannelOfTheHop ==
    ASSUME TypeOK, NEW c \in Callers
    PROVE  /\ kind[c] \in {"alert", "health"} /\ hop[c] \in {"primary", "fallback"}
           /\ kind[c] = "health" => Channel(c) = route.health
           /\ kind[c] = "alert" /\ hop[c] = "primary" => Channel(c) = route.primary
           /\ kind[c] = "alert" /\ hop[c] = "fallback" => Channel(c) # route.primary
BY DeliveryAssumption DEF TypeOK, ValidRoutes, Channel, Kinds

\* A 410100 answer leaves a cooldown within Pause that covers the pause it asked
\* for and every earlier one.
LEMMA CooldownCovers ==
    ASSUME TypeOK, NEW c \in Callers
    PROVE  /\ Cooldown(age[c]) \in 0..Pause
           /\ Cooldown(age[c]) >= blocked
           /\ Cooldown(age[c]) >= Pause - age[c]
BY DeliveryAssumption DEF TypeOK, Cooldown

\* The initial state satisfies the inductive invariant.
LEMMA InitIInv == Init => IInv
<1> SUFFICES ASSUME Init PROVE IInv
  OBVIOUS
<1>1. TypeOK
  <2>1. route \in Routes /\ blocked \in 0..Pause
    BY DeliveryAssumption DEF Init
  <2>2. age \in [Callers -> 0..Timeout]
    BY DeliveryAssumption DEF Init
  <2>3. ctxDone \in BOOLEAN
    BY DEF Init
  <2>. QED
    BY <2>1, <2>2, <2>3 DEF Init, TypeOK, Kinds
<1>2. PausesAreCovered
  BY DEF Init, PausesAreCovered
<1>3. OneChannelAtATime
  BY DEF Init, OneChannelAtATime, FollowsTheCall
<1>. QED
  BY <1>1, <1>2, <1>3 DEF IInv

\* Every step keeps the types.
LEMMA StepTypeOK ==
    ASSUME IInv, [Next]_vars
    PROVE  TypeOK'
<1> USE DeliveryAssumption DEF IInv, TypeOK
<1>1. ASSUME NEW c \in Callers, NEW k \in Kinds, Call(c, k)
      PROVE  TypeOK'
  BY <1>1 DEF Call
<1>2. ASSUME NEW c \in Callers, Refuse(c) \/ Begin(c)
      PROVE  TypeOK'
  BY <1>2 DEF Refuse, Begin, AfterRefusal
<1>3. ASSUME NEW c \in Callers,
             NEW answer \in {"ok", "limited", "refused", "lost"}, NEW taken \in BOOLEAN,
             DingTalkAnswers(c, answer, taken)
      PROVE  TypeOK'
  <2>1. pauses' \subseteq [left : 1..Pause, by : Kinds] /\ blocked' \in 0..Pause
    BY <1>3, CooldownCovers DEF DingTalkAnswers
  <2>2. /\ stage' \in [Callers -> {"idle", "start", "sending", "quit", "failed", "sent"}]
        /\ age' \in [Callers -> 0..Timeout]
        /\ accepted' \in [Callers -> SUBSET Channels]
        /\ lost' \in [Callers -> SUBSET Channels]
    BY <1>3, ChannelType DEF DingTalkAnswers, Ended
  <2>. QED
    BY <1>3, <2>1, <2>2 DEF DingTalkAnswers
<1>4. ASSUME NEW c \in Callers, NEW ok \in BOOLEAN, NEW taken \in BOOLEAN,
             SmtpAnswers(c, ok, taken)
      PROVE  TypeOK'
  BY <1>4, ChannelType DEF SmtpAnswers, Ended, Channels
<1>5. ASSUME NEW c \in Callers, NEW ok \in BOOLEAN, SmtpQuits(c, ok)
      PROVE  TypeOK'
  BY <1>5, ChannelType DEF SmtpQuits, Ended
<1>6. ASSUME NEW c \in Callers, FallBack(c) \/ Return(c)
      PROVE  TypeOK'
  <2>1. CASE FallBack(c)
    BY <2>1 DEF FallBack, FallsBack
  <2>2. CASE Return(c)
    BY <2>2 DEF Return
  <2>. QED
    BY <1>6, <2>1, <2>2
<1>7. CASE Tick
  <2>1. pauses' \subseteq [left : 1..Pause, by : Kinds]
    BY <1>7 DEF Tick
  <2>2. blocked' \in 0..Pause /\ age' \in [Callers -> 0..Timeout]
    BY <1>7 DEF Tick
  <2>. QED
    BY <1>7, <2>1, <2>2 DEF Tick
<1>8. CASE Cancel \/ Restart
  <2>1. ctxDone' \in BOOLEAN
    BY <1>8 DEF Cancel, Restart
  <2>2. blocked' \in 0..Pause /\ pauses' \subseteq [left : 1..Pause, by : Kinds]
    BY <1>8 DEF Cancel, Restart
  <2>. QED
    BY <1>8, <2>1, <2>2 DEF Cancel, Restart, callVars
<1>9. CASE UNCHANGED vars
  BY <1>9 DEF vars, callVars
<1>. QED
  BY <1>1, <1>2, <1>3, <1>4, <1>5, <1>6, <1>7, <1>8, <1>9 DEF Next, Progress

\* Every step keeps the cooldown at least as long as the pauses.
LEMMA StepPausesAreCovered ==
    ASSUME IInv, [Next]_vars
    PROVE  PausesAreCovered'
<1> USE DEF IInv, PausesAreCovered
<1>1. ASSUME NEW c \in Callers,
             NEW answer \in {"ok", "limited", "refused", "lost"}, NEW taken \in BOOLEAN,
             DingTalkAnswers(c, answer, taken)
      PROVE  PausesAreCovered'
  BY <1>1, CooldownCovers, DeliveryAssumption DEF DingTalkAnswers, TypeOK
<1>2. CASE Tick
  BY <1>2, DeliveryAssumption DEF Tick, TypeOK
<1>3. CASE Restart
  BY <1>3 DEF Restart
<1>4. CASE UNCHANGED <<blocked, pauses>>
  BY <1>4
<1>. QED
  BY <1>1, <1>2, <1>3, <1>4
     DEF Next, Progress, Call, Refuse, AfterRefusal, Begin, SmtpAnswers, SmtpQuits,
         FallBack, Return, Cancel, vars

\* Every step keeps what is known of the messages.
LEMMA StepOneChannelAtATime ==
    ASSUME IInv, [Next]_vars
    PROVE  OneChannelAtATime'
<1> SUFFICES ASSUME NEW d \in Callers
             PROVE  FollowsTheCall(d)'
  BY DEF OneChannelAtATime
<1>0. FollowsTheCall(d)
  BY DEF IInv, OneChannelAtATime
<1> USE <1>0 DEF IInv, FollowsTheCall, TypeOK
<1>1. ASSUME NEW c \in Callers, NEW k \in Kinds, Call(c, k)
      PROVE  FollowsTheCall(d)'
  BY <1>1 DEF Call
<1>2. ASSUME NEW c \in Callers, Refuse(c) \/ Begin(c)
      PROVE  FollowsTheCall(d)'
  BY <1>2 DEF Refuse, Begin
<1>3. ASSUME NEW c \in Callers, NEW taken \in BOOLEAN,
             NEW next \in {"sent", "failed"}, next = "sent" \/ stage[c] = "quit" => taken,
             InFlight(c), Ended(c, taken, next), UNCHANGED <<route, kind, hop>>
      PROVE  FollowsTheCall(d)'
  <2>1. stage' = [stage EXCEPT ![c] = next] /\ UNCHANGED <<route, kind, hop>>
    BY <1>3 DEF Ended
  <2>2. /\ taken => accepted' = [accepted EXCEPT ![c] = @ \cup {Channel(c)}]
        /\ ~taken => accepted' = accepted
    BY <1>3 DEF Ended
  <2>3. /\ taken /\ next = "failed" => lost' = [lost EXCEPT ![c] = @ \cup {Channel(c)}]
        /\ ~(taken /\ next = "failed") => lost' = lost
    BY <1>3 DEF Ended
  <2>4. CASE c # d
    BY <2>1, <2>2, <2>3, <2>4
  <2>5. CASE c = d /\ taken
    <3>1. /\ stage'[d] = next /\ kind'[d] = kind[d] /\ hop'[d] = hop[d]
          /\ accepted'[d] = accepted[d] \cup {Channel(d)} /\ route' = route
      BY <2>1, <2>2, <2>5
    <3>2. stage[d] = "sending" \/ stage[d] = "quit"
      BY <1>3, <2>5 DEF InFlight
    <3>3. lost[d] \subseteq lost'[d] /\ (next = "failed" => Channel(d) \in lost'[d])
      BY <2>3, <2>5
    <3>. QED
      BY <3>1, <3>2, <3>3, ChannelOfTheHop
  <2>6. CASE c = d /\ ~taken
    BY <1>3, <2>1, <2>2, <2>3, <2>6 DEF InFlight
  <2>. QED
    BY <2>4, <2>5, <2>6
<1>4. ASSUME NEW c \in Callers,
             NEW answer \in {"ok", "limited", "refused", "lost"}, NEW taken \in BOOLEAN,
             DingTalkAnswers(c, answer, taken)
      PROVE  FollowsTheCall(d)'
  BY <1>3, <1>4 DEF DingTalkAnswers, InFlight, Success
<1>5. ASSUME NEW c \in Callers, NEW ok \in BOOLEAN, NEW taken \in BOOLEAN,
             SmtpAnswers(c, ok, taken)
      PROVE  FollowsTheCall(d)'
  <2>1. CASE ok
    <3>1. /\ stage' = [stage EXCEPT ![c] = "quit"]
          /\ accepted' = [accepted EXCEPT ![c] = @ \cup {Channel(c)}]
          /\ UNCHANGED <<route, kind, hop, lost>>
      BY <1>5, <2>1 DEF SmtpAnswers
    <3>2. CASE c # d
      BY <3>1, <3>2
    <3>3. CASE c = d
      <4>1. /\ stage'[d] = "quit" /\ kind'[d] = kind[d] /\ hop'[d] = hop[d]
            /\ accepted'[d] = accepted[d] \cup {Channel(d)}
            /\ lost' = lost /\ route' = route
        BY <3>1, <3>3
      <4>. QED
        BY <4>1, ChannelOfTheHop
    <3>. QED
      BY <3>2, <3>3
  <2>2. CASE ~ok
    BY <1>3, <1>5, <2>2 DEF SmtpAnswers, InFlight
  <2>. QED
    BY <2>1, <2>2
<1>6. ASSUME NEW c \in Callers, NEW ok \in BOOLEAN, SmtpQuits(c, ok)
      PROVE  FollowsTheCall(d)'
  BY <1>3, <1>6 DEF SmtpQuits, InFlight
<1>7. ASSUME NEW c \in Callers, FallBack(c) \/ Return(c)
      PROVE  FollowsTheCall(d)'
  <2>1. CASE FallBack(c)
    BY <2>1 DEF FallBack, FallsBack
  <2>2. CASE Return(c)
    BY <2>2 DEF Return
  <2>. QED
    BY <1>7, <2>1, <2>2
<1>8. CASE Tick \/ Cancel \/ Restart \/ UNCHANGED vars
  BY <1>8 DEF Tick, Cancel, Restart, vars, callVars
<1>. QED
  BY <1>1, <1>2, <1>4, <1>5, <1>6, <1>7, <1>8 DEF Next, Progress

\* The inductive invariant holds throughout.
THEOREM Inductive == Spec => []IInv
<1>1. IInv /\ [Next]_vars => IInv'
  BY StepTypeOK, StepPausesAreCovered, StepOneChannelAtATime DEF IInv
<1>. QED
  BY InitIInv, <1>1, PTL DEF Spec

-----------------------------------------------------------------------------

\* Type correctness, and that only a router that has a fallback uses it.
THEOREM TypeCorrect == Spec => []TypeOK
<1>1. IInv => TypeOK
  BY DEF IInv
<1>. QED
  BY Inductive, <1>1, PTL

\* router.go: the fallback only after the primary's error.  The recipient sees a
\* message twice only where the answer to the first one was lost.
THEOREM SecondCopies == Spec => []SecondCopyIsALostAnswer
<1>1. IInv => SecondCopyIsALostAnswer
  <2> SUFFICES ASSUME IInv, NEW c \in Callers, accepted[c] = Channels
               PROVE  route.primary \in lost[c]
    BY DEF SecondCopyIsALostAnswer
  <2>1. route.primary \in Channels
    BY DeliveryAssumption DEF IInv, TypeOK, ValidRoutes
  <2>2. kind[c] # "health" /\ hop[c] # "primary"
    BY <2>1 DEF IInv, TypeOK, OneChannelAtATime, FollowsTheCall, Channels, Kinds
  <2>3. kind[c] = "alert" /\ hop[c] = "fallback"
    BY <2>2 DEF IInv, TypeOK, Kinds
  <2>. QED
    BY <2>1, <2>3 DEF IInv, OneChannelAtATime, FollowsTheCall
<1>. QED
  BY Inductive, <1>1, PTL

\* README: no request to DingTalk before the end of every pause it asked for.
THEOREM CooldownHolds == Spec => CooldownIsKept
<1>1. IInv /\ [Next]_vars =>
        [\A c \in Callers :
            stage[c] = "start" /\ stage'[c] = "sending" /\ Channel(c) = "dingtalk"
            => pauses = {}]_vars
  <2> SUFFICES ASSUME IInv, Next, NEW c \in Callers, stage[c] = "start",
                      stage'[c] = "sending", Channel(c) = "dingtalk"
               PROVE  pauses = {}
    OBVIOUS
  <2>1. blocked = 0 => pauses = {}
    BY DEF IInv, TypeOK, PausesAreCovered
  <2>2. CASE Begin(c)
    BY <2>1, <2>2 DEF Begin, Blocked, IInv, TypeOK
  <2>3. CASE ~Begin(c)
    <3>1. ASSUME NEW d \in Callers, NEW k \in Kinds, Call(d, k) PROVE FALSE
      BY <3>1 DEF Call, IInv, TypeOK
    <3>2. ASSUME NEW d \in Callers, Progress(d) PROVE FALSE
      BY <3>2, <2>3
         DEF Progress, Refuse, Begin, DingTalkAnswers, SmtpAnswers, SmtpQuits, Ended,
             FallBack, FallsBack, Return, IInv, TypeOK
    <3>3. ~Tick /\ ~Cancel /\ ~Restart
      BY DEF Tick, Cancel, Restart, callVars
    <3>. QED
      BY <3>1, <3>2, <3>3 DEF Next
  <2>. QED
    BY <2>2, <2>3
<1>. QED
  BY Inductive, <1>1, PTL DEF Spec, CooldownIsKept

-----------------------------------------------------------------------------
(* Refinement of Sender, caller by caller. *)

\* Every step is, for one caller, a step of its Sender or a stutter.
LEMMA PromiseStep ==
    ASSUME IInv, [Next]_vars, NEW c \in Callers
    PROVE  [Promise(c)!Next]_(Promise(c)!vars)
<1> USE DEF IInv, TypeOK, Promise!vars
<1>1. ASSUME NEW d \in Callers, NEW k \in Kinds, Call(d, k)
      PROVE  Promise(c)!Call \/ UNCHANGED Promise(c)!vars
  BY <1>1 DEF Call, Promise!Call
<1>2. ASSUME NEW d \in Callers, Refuse(d) \/ Begin(d) \/ FallBack(d)
      PROVE  UNCHANGED Promise(c)!vars
  BY <1>2 DEF Refuse, Begin, FallBack
<1>3. ASSUME NEW d \in Callers,
             NEW answer \in {"ok", "limited", "refused", "lost"}, NEW taken \in BOOLEAN,
             DingTalkAnswers(d, answer, taken)
      PROVE  Promise(c)!Accept \/ UNCHANGED Promise(c)!vars
  BY <1>3 DEF DingTalkAnswers, Ended, Promise!Accept
<1>4. ASSUME NEW d \in Callers, NEW ok \in BOOLEAN, NEW taken \in BOOLEAN,
             SmtpAnswers(d, ok, taken)
      PROVE  Promise(c)!Accept \/ UNCHANGED Promise(c)!vars
  BY <1>4 DEF SmtpAnswers, Ended, Promise!Accept
<1>5. ASSUME NEW d \in Callers, NEW ok \in BOOLEAN, SmtpQuits(d, ok)
      PROVE  Promise(c)!Accept \/ UNCHANGED Promise(c)!vars
  BY <1>5 DEF SmtpQuits, Ended, Promise!Accept
<1>6. ASSUME NEW d \in Callers, Return(d)
      PROVE  Promise(c)!Return \/ UNCHANGED Promise(c)!vars
  BY <1>6 DEF Return, OneChannelAtATime, FollowsTheCall, Promise!Return
<1>7. ASSUME Tick \/ Cancel \/ Restart \/ UNCHANGED vars
      PROVE  UNCHANGED Promise(c)!vars
  BY <1>7 DEF Tick, Cancel, Restart, vars, callVars
<1>. QED
  BY <1>1, <1>2, <1>3, <1>4, <1>5, <1>6, <1>7
     DEF Next, Progress, Promise!Next

\* Every caller has what the managers rely on: nil only for an accepted message.
THEOREM KeepsThePromise == Spec => EachCallKeepsThePromise
<1>1. Init => \A c \in Callers : Promise(c)!Init
  BY DEF Init, Promise!Init
<1>2. IInv /\ [Next]_vars
      => [\A c \in Callers : [Promise(c)!Next]_(Promise(c)!vars)]_vars
  BY PromiseStep
<1>. QED
  BY Inductive, <1>1, <1>2, PTL DEF Spec, EachCallKeepsThePromise

=============================================================================
