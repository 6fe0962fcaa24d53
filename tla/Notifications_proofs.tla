----------------------- MODULE Notifications_proofs -----------------------
(***************************************************************************)
(* The notifiers of internal/server/slack.go and internal/webhooks: what   *)
(* is notified once per window and never when acked, for any number of     *)
(* findings, subscribers and concurrent deliveries.                        *)
(***************************************************************************)
EXTENDS Notifications, TLAPS

USE NotificationsAssumption

-----------------------------------------------------------------------------
(* The inductive invariant. *)

Sending == {"dispatch", "send"}

\* What a delivery has before it, by where it stands.
Placed ==
  \A d \in Deliveries :
    /\ pc[d] \in {"idle", "post", "dispatch", "send"} => left[d] = {}
    /\ pc[d] \notin Sending => todo[d] = {}
    /\ \A p \in todo[d] : p[2] \in kept[d]
    /\ pc[d] = "send" => cur[d] \in todo[d]

\* A delivery that posts or sends is within the TTL of the clock it read.
Stamped ==
  \A d \in Deliveries : pc[d] \in {"post"} \cup Sending =>
    stamp[d] \in Nat /\ stamp[d] <= now /\ now <= stamp[d] + TTL

\* While a finding is being posted its entry in the map is the post's own; and
\* what Slack was shown is remembered until its window is over.
SlackInv ==
  /\ \A d \in Deliveries : pc[d] = "post" => \A f \in kept[d] : slackSeen[f] = stamp[d]
  /\ \A f \in Findings : slackGot[f] # Never =>
       \/ slackSeen[f] # Never /\ slackSeen[f] >= slackGot[f]
       \/ now > slackGot[f] + TTL
  /\ SlackOncePerWindow

\* The same of a pair that is being sent, which its claim keeps from others.
HookInv ==
  /\ \A d \in Deliveries : pc[d] = "send" => hookSeen[cur[d]] = stamp[d]
  /\ \A p \in Matches : hookGot[p] # Never =>
       \/ hookSeen[p] # Never /\ hookSeen[p] >= hookGot[p]
       \/ now > hookGot[p] + TTL
  /\ WebhookOncePerWindow
  /\ WebhookRemembersDelivered

\* The history of what stayed acked is true, and none of it passed a filter.
QuietInv ==
  \A d \in Deliveries :
    /\ \A f \in quiet[d] : IsAcked(f)
    /\ kept[d] \cap quiet[d] = {}

IInv == TypeOK /\ Placed /\ Stamped /\ SlackInv /\ HookInv /\ QuietInv

-----------------------------------------------------------------------------
\* An operator acks or snoozes: what stayed acked so far stays so unless the
\* snooze is already over.
LEMMA SaveAckInv ==
  ASSUME IInv, NEW f \in Findings, NEW t \in Times, SaveAck(f, t)
  PROVE  IInv'
<1> USE DEF IInv, ackVars, seenVars, gotVars
<1>1. TypeOK'
  BY DEF SaveAck, TypeOK
<1>2. Placed'
  BY DEF SaveAck, TypeOK, Placed, Sending
<1>3. Stamped'
  BY DEF SaveAck, Stamped
<1>4. SlackInv'
  BY DEF SaveAck, SlackInv, SlackOncePerWindow
<1>5. HookInv'
  BY DEF SaveAck, HookInv, WebhookOncePerWindow, WebhookRemembersDelivered
<1>6. QuietInv'
  BY DEF SaveAck, QuietInv, IsAcked
<1> QED
  BY <1>1, <1>2, <1>3, <1>4, <1>5, <1>6

\* An operator withdraws an ack: the finding is no longer owed silence.
LEMMA DeleteAckInv ==
  ASSUME IInv, NEW f \in Findings, DeleteAck(f)
  PROVE  IInv'
<1> USE DEF IInv, ackVars, seenVars, gotVars
<1>1. TypeOK'
  BY DEF DeleteAck, TypeOK
<1>2. Placed'
  BY DEF DeleteAck, TypeOK, Placed, Sending
<1>3. Stamped'
  BY DEF DeleteAck, Stamped
<1>4. SlackInv'
  BY DEF DeleteAck, SlackInv, SlackOncePerWindow
<1>5. HookInv'
  BY DEF DeleteAck, HookInv, WebhookOncePerWindow, WebhookRemembersDelivered
<1>6. QuietInv'
  BY DEF DeleteAck, QuietInv, IsAcked
<1> QED
  BY <1>1, <1>2, <1>3, <1>4, <1>5, <1>6

\* The clock moves: entries and windows age together, and no delivery outlives
\* the TTL of its stamp.
LEMMA TickInv ==
  ASSUME IInv, Tick
  PROVE  IInv'
<1> USE DEF IInv, ackVars, seenVars, gotVars
<1>1. TypeOK'
  BY DEF Tick, TypeOK
<1>2. Placed'
  BY DEF Tick, Placed
<1>3. Stamped'
  BY DEF Tick, InTime, TypeOK, Stamped, Sending
<1>4. SlackInv'
  BY DEF Tick, TypeOK, SlackInv, SlackOncePerWindow, Times
<1>5. HookInv'
  BY DEF Tick, TypeOK, Placed, HookInv, WebhookOncePerWindow, WebhookRemembersDelivered, Times
<1>6. QuietInv'
  BY DEF Tick, TypeOK, QuietInv, IsAcked, Times
<1> QED
  BY <1>1, <1>2, <1>3, <1>4, <1>5, <1>6

\* A delivery starts on a report and owes silence on what is acked now.
LEMMA StartDeliveryInv ==
  ASSUME IInv, NEW d \in Deliveries, NEW R \in SUBSET Findings, startDelivery(d, R)
  PROVE  IInv'
<1> USE DEF IInv, ackVars, seenVars, gotVars
<1>1. TypeOK'
  BY DEF startDelivery, Lookup, Goto, TypeOK
<1>2. Placed'
  BY DEF startDelivery, Lookup, Goto, TypeOK, Placed
<1>3. Stamped'
  BY DEF startDelivery, Lookup, Goto, Stamped, Sending
<1>4. SlackInv'
  BY DEF startDelivery, Lookup, Goto, SlackInv, SlackOncePerWindow
<1>5. HookInv'
  BY DEF startDelivery, Lookup, Goto, HookInv, WebhookOncePerWindow, WebhookRemembersDelivered
<1>6. QuietInv'
  BY DEF startDelivery, Lookup, TypeOK, QuietInv, IsAcked
<1> QED
  BY <1>1, <1>2, <1>3, <1>4, <1>5, <1>6

\* filterAckedFindings: what is acked now, and so all that stayed acked, is dropped.
LEMMA FilterInv ==
  ASSUME IInv, NEW d \in Deliveries, NEW f \in Findings, filterAckedFindings(d, f)
  PROVE  IInv'
<1> USE DEF IInv, ackVars, seenVars, gotVars
<1>1. TypeOK'
  BY DEF filterAckedFindings, TypeOK
<1>2. Placed'
  BY DEF filterAckedFindings, TypeOK, Placed, Sending
<1>3. Stamped'
  BY DEF filterAckedFindings, Stamped
<1>4. SlackInv'
  BY DEF filterAckedFindings, SlackInv, SlackOncePerWindow, Placed
<1>5. HookInv'
  BY DEF filterAckedFindings, HookInv, WebhookOncePerWindow, WebhookRemembersDelivered
<1>6. QuietInv'
  BY DEF filterAckedFindings, QuietInv, IsAcked
<1> QED
  BY <1>1, <1>2, <1>3, <1>4, <1>5, <1>6

\* A failed lookup keeps the finding, and the history counts it as not quiet.
LEMMA LookupFailsInv ==
  ASSUME IInv, NEW d \in Deliveries, NEW f \in Findings, lookupFails(d, f)
  PROVE  IInv'
<1> USE DEF IInv, ackVars, seenVars, gotVars
<1>1. TypeOK'
  BY DEF lookupFails, TypeOK
<1>2. Placed'
  BY DEF lookupFails, TypeOK, Placed, Sending
<1>3. Stamped'
  BY DEF lookupFails, Stamped
<1>4. SlackInv'
  BY DEF lookupFails, SlackInv, SlackOncePerWindow, Placed
<1>5. HookInv'
  BY DEF lookupFails, HookInv, WebhookOncePerWindow, WebhookRemembersDelivered
<1>6. QuietInv'
  BY DEF lookupFails, TypeOK, QuietInv, IsAcked
<1> QED
  BY <1>1, <1>2, <1>3, <1>4, <1>5, <1>6

\* dedupCriticals: what survives was not shown within the TTL, and its entry is
\* this delivery's own before another delivery can look.
LEMMA DedupInv ==
  ASSUME IInv, NEW d \in Deliveries, dedupCriticals(d)
  PROVE  IInv'
<1> USE DEF IInv, ackVars, gotVars
<1> DEFINE seen == Prune(slackSeen, now)
           fresh == {f \in kept[d] : seen[f] = Never}
<1>1. /\ pc[d] = "slackAcks" /\ left[d] = {}
      /\ slackSeen' = [f \in Findings |-> IF f \in fresh THEN now ELSE seen[f]]
      /\ stamp' = [stamp EXCEPT ![d] = now]
      /\ UNCHANGED <<now, ack, until, acks, hookSeen, rpt, todo, cur, slackGot, hookGot, faults>>
  BY DEF dedupCriticals
<1>2. \/ fresh = {} /\ Lookup(d, "hookAcks", rpt[d])
      \/ fresh # {} /\ pc' = [pc EXCEPT ![d] = "post"] /\ kept' = [kept EXCEPT ![d] = fresh]
         /\ left' = left /\ quiet' = quiet
  BY DEF dedupCriticals, Goto
<1>3. /\ seen \in [Findings -> Times]
      /\ \A f \in Findings : \/ seen[f] = slackSeen[f]
                             \/ seen[f] = Never /\ slackSeen[f] # Never /\ now > slackSeen[f] + TTL
  BY DEF Prune, Expired, TypeOK, Times
<1>4. fresh \subseteq kept[d] /\ fresh \in SUBSET Findings /\ now \in Nat
  BY DEF TypeOK
<1> HIDE DEF fresh, seen
<1>5. TypeOK'
  <2>1. slackSeen' \in [Findings -> Times]
    BY <1>1, <1>3, <1>4 DEF Times
  <2>2. stamp' \in [Deliveries -> Times]
    BY <1>1, <1>4 DEF TypeOK, Times
  <2>3. /\ pc' \in [Deliveries -> {"idle", "slackAcks", "post", "hookAcks", "dispatch", "send"}]
        /\ \A e \in Deliveries : pc'[e] = "idle" => e # d /\ pc[e] = "idle"
    BY <1>2 DEF TypeOK, Lookup, Goto
  <2>4. /\ left' \in [Deliveries -> SUBSET Findings]
        /\ \A e \in Deliveries \ {d} : left'[e] = left[e]
    BY <1>2 DEF TypeOK, Lookup
  <2>5. kept' \in [Deliveries -> SUBSET Findings]
    BY <1>2, <1>4 DEF TypeOK, Lookup
  <2>6. quiet' \in [Deliveries -> SUBSET Findings]
    BY <1>2 DEF TypeOK, Lookup
  <2> QED
    BY <1>1, <2>1, <2>2, <2>3, <2>4, <2>5, <2>6 DEF TypeOK
<1>6. Placed'
  BY <1>1, <1>2 DEF TypeOK, Placed, Sending, Lookup, Goto
<1>7. Stamped'
  BY <1>1, <1>2, <1>4 DEF TypeOK, Stamped, Lookup, Goto
<1>8. SlackInv'
  <2>1. \A e \in Deliveries \ {d} : /\ pc'[e] = pc[e] /\ kept'[e] = kept[e] /\ stamp'[e] = stamp[e]
    BY <1>1, <1>2 DEF TypeOK, Lookup, Goto
  <2>2. \A e \in Deliveries : pc[e] = "post" => \A f \in kept[e] : seen[f] = stamp[e] /\ seen[f] # Never
    BY <1>3 DEF TypeOK, Stamped, SlackInv
  <2>3. ASSUME NEW f \in Findings, slackGot[f] # Never, seen[f] = Never
        PROVE  now > slackGot[f] + TTL
    BY <1>3, <1>4, <2>3 DEF TypeOK, SlackInv, Times
  <2>4. pc'[d] = "post" => kept'[d] = fresh /\ stamp'[d] = now
    BY <1>1, <1>2 DEF TypeOK, Lookup, Goto
  <2>5. \A f \in fresh : seen[f] = Never
    BY DEF fresh
  <2>6. \A e \in Deliveries : pc'[e] = "post" => \A f \in kept'[e] : slackSeen'[f] = stamp'[e]
    BY <1>1, <1>4, <2>1, <2>2, <2>4, <2>5 DEF TypeOK
  <2>7. \A f \in Findings : slackGot[f] # Never =>
          \/ slackSeen'[f] # Never /\ slackSeen'[f] >= slackGot[f]
          \/ now > slackGot[f] + TTL
    <3> SUFFICES ASSUME NEW f \in Findings, slackGot[f] # Never, ~(now > slackGot[f] + TTL)
                 PROVE  slackSeen'[f] # Never /\ slackSeen'[f] >= slackGot[f]
      OBVIOUS
    <3>1. seen[f] # Never /\ f \notin fresh
      BY <2>3, <2>5
    <3>2. slackSeen'[f] = slackSeen[f] /\ slackSeen[f] # Never
      BY <1>1, <1>3, <3>1
    <3> QED
      BY <3>2 DEF SlackInv
  <2>8. SlackOncePerWindow'
    <3> SUFFICES ASSUME NEW e \in Deliveries, pc'[e] = "post", NEW f \in kept'[e]
                 PROVE  /\ slackGot[f] # Never => now > slackGot[f] + TTL
                        /\ \A g \in Deliveries \ {e} : pc'[g] = "post" => f \notin kept'[g]
      BY <1>1 DEF SlackOncePerWindow
    <3>1. CASE e = d
      <4>1. f \in fresh /\ f \in Findings /\ seen[f] = Never
        BY <1>4, <2>4, <2>5, <3>1
      <4>2. \A g \in Deliveries \ {e} : pc'[g] = "post" => f \notin kept'[g]
        BY <2>1, <2>2, <3>1, <4>1
      <4> QED
        BY <2>3, <4>1, <4>2
    <3>2. CASE e # d
      <4>1. pc[e] = "post" /\ f \in kept[e] /\ seen[f] # Never
        BY <2>1, <2>2, <3>2
      <4>2. f \notin fresh
        BY <2>5, <4>1
      <4> QED
        BY <2>1, <2>4, <3>2, <4>1, <4>2 DEF SlackInv, SlackOncePerWindow
    <3> QED
      BY <3>1, <3>2
  <2> QED
    BY <1>1, <2>6, <2>7, <2>8 DEF SlackInv
<1>9. HookInv'
  <2>1. \A e \in Deliveries : /\ pc'[e] = "send" <=> pc[e] = "send"
                              /\ pc[e] = "send" => stamp'[e] = stamp[e]
    BY <1>1, <1>2 DEF TypeOK, Lookup, Goto
  <2> QED
    BY <1>1, <2>1 DEF HookInv, WebhookOncePerWindow, WebhookRemembersDelivered
<1>10. QuietInv'
  BY <1>1, <1>2, <1>4 DEF TypeOK, QuietInv, IsAcked, Lookup
<1> QED
  BY <1>5, <1>6, <1>7, <1>8, <1>9, <1>10

\* A post to Slack is over: what it showed has its entry already.
LEMMA PostInv ==
  ASSUME IInv, NEW d \in Deliveries, NEW shown \in SUBSET kept[d], postSlack(d, shown)
  PROVE  IInv'
<1> USE DEF IInv, ackVars, seenVars, gotVars
<1>1. TypeOK'
  BY DEF postSlack, Lookup, Goto, TypeOK
<1>2. Placed'
  BY DEF postSlack, Lookup, Goto, TypeOK, Placed, Sending
<1>3. Stamped'
  BY DEF postSlack, Lookup, Goto, Stamped
<1>4. SlackInv'
  BY DEF postSlack, Lookup, Goto, TypeOK, SlackInv, SlackOncePerWindow, Times
<1>5. HookInv'
  BY DEF postSlack, Lookup, Goto, HookInv, WebhookOncePerWindow, WebhookRemembersDelivered
<1>6. QuietInv'
  BY DEF postSlack, Lookup, TypeOK, QuietInv, IsAcked
<1> QED
  BY <1>1, <1>2, <1>3, <1>4, <1>5, <1>6

\* Dispatch reads the clock and forgets the entries that are out of their window.
LEMMA StartDispatchInv ==
  ASSUME IInv, NEW d \in Deliveries, startDispatch(d)
  PROVE  IInv'
<1> USE DEF IInv, ackVars, seenVars, gotVars
<1>1. TypeOK'
  BY DEF startDispatch, Goto, TypeOK, Times, Prune
<1>2. Placed'
  BY DEF startDispatch, Goto, TypeOK, Placed, Sending
<1>3. Stamped'
  BY DEF startDispatch, Goto, TypeOK, Stamped
<1>4. SlackInv'
  BY DEF startDispatch, Goto, SlackInv, SlackOncePerWindow
<1>5. HookInv'
  BY DEF startDispatch, Goto, TypeOK, Placed, Stamped, HookInv, WebhookOncePerWindow,
     WebhookRemembersDelivered, Prune, Expired, Times, Sending
<1>6. QuietInv'
  BY DEF startDispatch, QuietInv, IsAcked
<1> QED
  BY <1>1, <1>2, <1>3, <1>4, <1>5, <1>6

\* A pair is claimed under the lock before it is sent.
LEMMA ClaimInv ==
  ASSUME IInv, NEW d \in Deliveries, NEW p \in Matches, claimSend(d, p)
  PROVE  IInv'
<1> USE DEF IInv, ackVars, seenVars, gotVars
<1>1. TypeOK'
  BY DEF claimSend, Goto, TypeOK
<1>2. Placed'
  BY DEF claimSend, Goto, TypeOK, Placed, Sending
<1>3. Stamped'
  BY DEF claimSend, Goto, Stamped, Sending
<1>4. SlackInv'
  BY DEF claimSend, Goto, SlackInv, SlackOncePerWindow
<1>5. HookInv'
  BY DEF claimSend, Goto, TypeOK, Stamped, HookInv, WebhookOncePerWindow, WebhookRemembersDelivered,
     Sending
<1>6. QuietInv'
  BY DEF claimSend, QuietInv, IsAcked
<1> QED
  BY <1>1, <1>2, <1>3, <1>4, <1>5, <1>6

\* A pair that has an entry is passed over.
LEMMA SkipInv ==
  ASSUME IInv, NEW d \in Deliveries, NEW p \in Matches, skipSeen(d, p)
  PROVE  IInv'
<1> USE DEF IInv, ackVars, seenVars, gotVars
<1>1. TypeOK'
  BY DEF skipSeen, TypeOK
<1>2. Placed'
  BY DEF skipSeen, TypeOK, Placed, Sending
<1>3. Stamped'
  BY DEF skipSeen, Stamped
<1>4. SlackInv'
  BY DEF skipSeen, SlackInv, SlackOncePerWindow
<1>5. HookInv'
  BY DEF skipSeen, HookInv, WebhookOncePerWindow, WebhookRemembersDelivered
<1>6. QuietInv'
  BY DEF skipSeen, QuietInv, IsAcked
<1> QED
  BY <1>1, <1>2, <1>3, <1>4, <1>5, <1>6

\* A send that succeeded leaves its claim as the memory of it.
LEMMA SendSucceedsInv ==
  ASSUME IInv, NEW d \in Deliveries, sendSucceeds(d)
  PROVE  IInv'
<1> USE DEF IInv, ackVars, seenVars, gotVars
<1>1. TypeOK'
  BY DEF sendSucceeds, SendReturns, Goto, TypeOK
<1>2. Placed'
  BY DEF sendSucceeds, SendReturns, Goto, TypeOK, Placed, Sending
<1>3. Stamped'
  BY DEF sendSucceeds, SendReturns, Goto, Stamped, Sending
<1>4. SlackInv'
  BY DEF sendSucceeds, SendReturns, Goto, SlackInv, SlackOncePerWindow
<1>5. HookInv'
  BY DEF sendSucceeds, SendReturns, Goto, TypeOK, HookInv, WebhookOncePerWindow,
     WebhookRemembersDelivered, Times
<1>6. QuietInv'
  BY DEF sendSucceeds, SendReturns, QuietInv, IsAcked
<1> QED
  BY <1>1, <1>2, <1>3, <1>4, <1>5, <1>6

\* A send that failed withdraws its claim, and only its own: nobody else can hold one
\* on the pair.
LEMMA SendFailsInv ==
  ASSUME IInv, NEW d \in Deliveries, sendFails(d)
  PROVE  IInv'
<1> USE DEF IInv, ackVars, seenVars, gotVars
<1>1. TypeOK'
  BY DEF sendFails, SendReturns, Goto, TypeOK, Times
<1>2. Placed'
  BY DEF sendFails, SendReturns, Goto, TypeOK, Placed, Sending
<1>3. Stamped'
  BY DEF sendFails, SendReturns, Goto, Stamped, Sending
<1>4. SlackInv'
  BY DEF sendFails, SendReturns, Goto, SlackInv, SlackOncePerWindow
<1>5. HookInv'
  <2>1. /\ pc[d] = "send" /\ cur[d] \in Matches /\ pc' = [pc EXCEPT ![d] = "dispatch"]
        /\ cur' = [cur EXCEPT ![d] = NoPair] /\ UNCHANGED <<now, stamp, hookGot>>
        /\ hookSeen' = [hookSeen EXCEPT ![cur[d]] = Never]
    BY DEF sendFails, SendReturns, Goto, TypeOK, Placed
  <2>2. \A e \in Deliveries : pc'[e] = "send" =>
          e # d /\ pc[e] = "send" /\ cur'[e] = cur[e] /\ cur[e] # cur[d] /\ cur[e] \in Matches
    BY <2>1 DEF TypeOK, Placed, HookInv, WebhookOncePerWindow
  <2>3. \A p \in Matches : hookSeen'[p] = IF p = cur[d] THEN Never ELSE hookSeen[p]
    BY <2>1 DEF TypeOK
  <2>4. \A e \in Deliveries : pc'[e] = "send" => hookSeen'[cur'[e]] = stamp'[e]
    BY <2>1, <2>2, <2>3 DEF HookInv
  <2>5. \A p \in Matches : hookGot'[p] # Never =>
          \/ hookSeen'[p] # Never /\ hookSeen'[p] >= hookGot'[p]
          \/ now' > hookGot'[p] + TTL
    BY <2>1, <2>3 DEF HookInv, WebhookOncePerWindow
  <2>6. WebhookOncePerWindow'
    BY <2>1, <2>2 DEF HookInv, WebhookOncePerWindow
  <2>7. WebhookRemembersDelivered'
    <3> SUFFICES ASSUME NEW p \in Matches, hookSeen'[p] # Never, hookGot'[p] # hookSeen'[p]
                 PROVE  \E e \in Deliveries : pc'[e] = "send" /\ cur'[e] = p /\ stamp'[e] = hookSeen'[p]
      BY DEF WebhookRemembersDelivered
    <3>1. p # cur[d] /\ hookSeen'[p] = hookSeen[p]
      BY <2>3
    <3>2. PICK e \in Deliveries : pc[e] = "send" /\ cur[e] = p /\ stamp[e] = hookSeen[p]
      BY <2>1, <3>1 DEF HookInv, WebhookRemembersDelivered
    <3> QED
      BY <2>1, <3>1, <3>2 DEF TypeOK
  <2> QED
    BY <2>4, <2>5, <2>6, <2>7 DEF HookInv
<1>6. QuietInv'
  BY DEF sendFails, SendReturns, QuietInv, IsAcked
<1> QED
  BY <1>1, <1>2, <1>3, <1>4, <1>5, <1>6

\* A delivery that is over holds nothing.
LEMMA EndDeliveryInv ==
  ASSUME IInv, NEW d \in Deliveries, endDelivery(d)
  PROVE  IInv'
<1> USE DEF IInv, ackVars, seenVars, gotVars
<1>1. TypeOK'
  BY DEF endDelivery, Goto, TypeOK, Times, Placed
<1>2. Placed'
  BY DEF endDelivery, Goto, Placed
<1>3. Stamped'
  BY DEF endDelivery, Goto, TypeOK, Stamped, Sending
<1>4. SlackInv'
  BY DEF endDelivery, Goto, SlackInv, SlackOncePerWindow
<1>5. HookInv'
  BY DEF endDelivery, Goto, HookInv, WebhookOncePerWindow, WebhookRemembersDelivered
<1>6. QuietInv'
  BY DEF endDelivery, QuietInv, IsAcked
<1> QED
  BY <1>1, <1>2, <1>3, <1>4, <1>5, <1>6

\* A restart forgets both maps and every delivery.
LEMMA RestartInv ==
  ASSUME IInv, restart
  PROVE  IInv'
<1> USE DEF IInv, ackVars, seenVars, gotVars
<1>1. TypeOK'
  BY DEF restart, NoneOf, UnsetOf, TypeOK, Times
<1>2. Placed'
  BY DEF restart, NoneOf, Placed
<1>3. Stamped'
  BY DEF restart, Stamped, Sending
<1>4. SlackInv'
  BY DEF restart, UnsetOf, SlackInv, SlackOncePerWindow
<1>5. HookInv'
  BY DEF restart, UnsetOf, HookInv, WebhookOncePerWindow, WebhookRemembersDelivered
<1>6. QuietInv'
  BY DEF restart, NoneOf, QuietInv
<1> QED
  BY <1>1, <1>2, <1>3, <1>4, <1>5, <1>6

\* The invariant holds at the start.
LEMMA InitInv ==
  ASSUME Init PROVE IInv
<1>1. TypeOK
  BY DEF Init, TypeOK, NoneOf, UnsetOf, Times
<1>2. Placed /\ Stamped
  BY DEF Init, Placed, Stamped, Sending, NoneOf
<1>3. SlackInv
  BY DEF Init, SlackInv, SlackOncePerWindow, UnsetOf
<1>4. HookInv
  BY DEF Init, HookInv, WebhookOncePerWindow, WebhookRemembersDelivered, UnsetOf
<1>5. QuietInv
  BY DEF Init, QuietInv, NoneOf
<1> QED
  BY <1>1, <1>2, <1>3, <1>4, <1>5 DEF IInv

\* Every step of deliveries, operators and the clock keeps the invariant.
LEMMA StepInv ==
  ASSUME IInv, [Next]_vars PROVE IInv'
<1>1. CASE UNCHANGED vars
  BY <1>1 DEF vars, IInv, TypeOK, Placed, Stamped, SlackInv, SlackOncePerWindow, HookInv,
     WebhookOncePerWindow, WebhookRemembersDelivered, QuietInv, IsAcked
<1>2. ASSUME NEW d \in Deliveries, Slack(d) PROVE IInv'
  <2>1. ASSUME NEW R \in SUBSET Findings \ {{}}, startDelivery(d, R) PROVE IInv'
    BY <2>1, StartDeliveryInv
  <2>2. ASSUME NEW f \in Findings, filterAckedFindings(d, f) \/ lookupFails(d, f) PROVE IInv'
    BY <2>2, FilterInv, LookupFailsInv
  <2>3. ASSUME dedupCriticals(d) PROVE IInv'
    BY <2>3, DedupInv
  <2>4. ASSUME NEW shown \in Shown(kept[d]) \cup {{}}, postSlack(d, shown) PROVE IInv'
    <3>1. shown \in SUBSET kept[d]
      BY DEF Shown
    <3> QED
      BY <2>4, <3>1, PostInv
  <2> QED
    BY <1>2, <2>1, <2>2, <2>3, <2>4 DEF Slack
<1>3. ASSUME NEW d \in Deliveries, Dispatch(d) PROVE IInv'
  BY <1>3, StartDispatchInv, ClaimInv, SkipInv, SendSucceedsInv, SendFailsInv, EndDeliveryInv
     DEF Dispatch
<1>4. ASSUME Operator PROVE IInv'
  <2>1. ASSUME NEW f \in Findings, NEW t \in (0 .. MaxTime) \cup {Never}, SaveAck(f, t) PROVE IInv'
    <3>1. t \in Times
      BY DEF Times
    <3> QED
      BY <2>1, <3>1, SaveAckInv
  <2> QED
    BY <1>4, <2>1, DeleteAckInv DEF Operator
<1> QED
  BY <1>1, <1>2, <1>3, <1>4, TickInv, RestartInv DEF Next

-----------------------------------------------------------------------------
\* The inductive invariant of the notifiers, for every interleaving of deliveries,
\* acks, failures and restarts.
THEOREM NotificationsInvariant == Spec => []IInv
<1>1. Init => IInv
  BY InitInv
<1>2. IInv /\ [Next]_vars => IInv'
  BY StepInv
<1> QED
  BY <1>1, <1>2, PTL DEF Spec

\* The notifiers, the acks and the two maps keep their types, and a delivery that is
\* idle has nothing left to look up or to send (slack.go, webhooks.go).
THEOREM NotificationsTypes == Spec => []TypeOK
<1>1. IInv => TypeOK
  BY DEF IInv
<1> QED
  BY <1>1, NotificationsInvariant, PTL

\* notifySlackForReport: within slackDedupTTL a finding is not posted again, nor by
\* two deliveries at once.
THEOREM SlackOnce == Spec => []SlackOncePerWindow
<1>1. IInv => SlackOncePerWindow
  BY DEF IInv, SlackInv
<1> QED
  BY <1>1, NotificationsInvariant, PTL

\* Dispatch: within dedupTTL a pair that was delivered is not sent again, and never
\* by two deliveries at once.
THEOREM WebhookOnce == Spec => []WebhookOncePerWindow
<1>1. IInv => WebhookOncePerWindow
  BY DEF IInv, HookInv
<1> QED
  BY <1>1, NotificationsInvariant, PTL

\* Dispatch remembers a pair only for a send that succeeded or is under way.
THEOREM WebhookMemory == Spec => []WebhookRemembersDelivered
<1>1. IInv => WebhookRemembersDelivered
  BY DEF IInv, HookInv
<1> QED
  BY <1>1, NotificationsInvariant, PTL

\* A finding acked since before the lookup is neither posted to Slack nor sent to
\* a webhook, whatever operators do meanwhile.
THEOREM AckedIsQuiet == Spec => []AckQuiets
<1>1. IInv => AckQuiets
  BY DEF IInv, Placed, QuietInv, AckQuiets
<1> QED
  BY <1>1, NotificationsInvariant, PTL
==============================================================================
