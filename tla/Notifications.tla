---------------------------- MODULE Notifications ----------------------------
(***************************************************************************)
(* The delivery of a scan's findings to Slack and to outbound webhooks     *)
(* (src/internal/server/slack.go, src/internal/server/webhook_emit.go,     *)
(* src/internal/webhooks/webhooks.go), on top of the acknowledgements kept *)
(* in the store (src/internal/store/acks.go).                              *)
(*                                                                         *)
(* Several deliveries run at once, one per finished scan.  They share the  *)
(* two maps that remember what was notified, race with operators who ack,  *)
(* snooze and un-ack findings, and lose calls to Slack and subscribers.    *)
(* A finding stands for its fingerprint.  Time is counted in ticks.        *)
(***************************************************************************)
EXTENDS Naturals, FiniteSets

CONSTANTS
  Findings,       \* fingerprints of findings
  Critical,       \* the critical ones
  Matches,        \* pairs <<subscriber, finding>> whose filters match
  Deliveries,     \* delivery goroutines, DispatchWorkers of them
  TTL,            \* slackDedupTTL and dedupTTL, in ticks
  MaxPerPost,     \* slackMaxFindingsPerPost
  Never,          \* no time
  MaxTime,        \* bound: the clock stops here
  MaxAcks,        \* bound: acks, snoozes and un-acks
  MaxFaults       \* bound: failed ack lookups and restarts

ASSUME NotificationsAssumption ==
  /\ Critical \subseteq Findings
  /\ \A p \in Matches : p = <<p[1], p[2]>> /\ p[2] \in Findings
  /\ TTL \in Nat \ {0} /\ MaxPerPost \in Nat \ {0} /\ Never \notin Nat
  /\ MaxTime \in Nat /\ MaxAcks \in Nat /\ MaxFaults \in Nat

VARIABLES
  now,        \* the clock
  ack,        \* finding_acks: the set of findings with a row
  until,      \* snooze_until of a row, or Never
  slackSeen,  \* s.slackNotifiedKeys
  hookSeen,   \* d.notified, per pair
  pc,         \* where each delivery stands
  rpt,        \* the findings of its report
  left,       \* findings whose ack it has yet to look up
  kept,       \* findings that passed its filters
  todo,       \* pairs its Dispatch has yet to look at
  cur,        \* the pair it is sending
  stamp,      \* the time it took when it last read the clock
  quiet,      \* history: findings acked ever since its lookups began
  slackGot,   \* history: stamp of the last post that showed a finding
  hookGot,    \* history: stamp of the last send of a pair that succeeded
  acks, faults

seenVars == <<slackSeen, hookSeen>>
gotVars  == <<slackGot, hookGot>>
jobVars  == <<pc, rpt, left, kept, todo, cur, stamp, quiet>>
ackVars  == <<ack, until, acks>>
vars == <<now, ack, until, slackSeen, hookSeen, pc, rpt, left, kept, todo, cur,
          stamp, quiet, slackGot, hookGot, acks, faults>>

-----------------------------------------------------------------------------

Times  == Nat \cup {Never}
NoPair == <<"none", "none">>

\* IsAcked, after pruneExpiredAcks: a snooze holds until it lies in the past.
\* A row that is pruned and one that is ignored are the same to a reader.
IsAcked(f) == f \in ack /\ (until[f] = Never \/ until[f] >= now)

\* An entry older than the TTL is pruned before a map is read.
Expired(at, t) == at # Never /\ t > at + TTL
Prune(seen, t) == [x \in DOMAIN seen |-> IF Expired(seen[x], t) THEN Never ELSE seen[x]]

Goto(d, l) == pc' = [pc EXCEPT ![d] = l]

\* A delivery starts to look up the acks of a set of findings.
Lookup(d, label, findings) ==
  /\ Goto(d, label)
  /\ left' = [left EXCEPT ![d] = findings]
  /\ kept' = [kept EXCEPT ![d] = {}]
  /\ quiet' = [quiet EXCEPT ![d] = {f \in findings : IsAcked(f)}]

-----------------------------------------------------------------------------
(* Operators and the clock. *)

\* SaveAck: an upsert, so a second ack replaces the snooze of the first.
SaveAck(f, t) ==
  /\ acks < MaxAcks /\ acks' = acks + 1
  /\ ack' = ack \cup {f}
  /\ until' = [until EXCEPT ![f] = t]
  /\ quiet' = [d \in Deliveries |->
                 IF t = Never \/ t >= now THEN quiet[d] ELSE quiet[d] \ {f}]
  /\ UNCHANGED <<now, seenVars, pc, rpt, left, kept, todo, cur, stamp, gotVars, faults>>

DeleteAck(f) ==
  /\ f \in ack
  /\ acks < MaxAcks /\ acks' = acks + 1
  /\ ack' = ack \ {f}
  /\ quiet' = [d \in Deliveries |-> quiet[d] \ {f}]
  /\ UNCHANGED <<now, until, seenVars, pc, rpt, left, kept, todo, cur, stamp, gotVars, faults>>

\* A delivery is assumed to end within the TTL of its stamp: a post takes
\* eight seconds and a send six at most, the TTL is six hours.
InTime(d) == pc[d] \in {"post", "dispatch", "send"} => now < stamp[d] + TTL

Tick ==
  /\ now < MaxTime /\ \A d \in Deliveries : InTime(d)
  /\ now' = now + 1
  /\ quiet' = [d \in Deliveries |-> {f \in quiet[d] : until[f] = Never \/ until[f] > now}]
  /\ UNCHANGED <<ackVars, seenVars, pc, rpt, left, kept, todo, cur, stamp, gotVars, faults>>

-----------------------------------------------------------------------------
(* notifySlackForReport. *)

\* The goroutine of dispatchNotifications starts on a report that has findings.
startDelivery(d, findings) ==
  /\ pc[d] = "idle"
  /\ rpt' = [rpt EXCEPT ![d] = findings]
  /\ Lookup(d, "slackAcks", findings \cap Critical)
  /\ UNCHANGED <<now, ackVars, seenVars, todo, cur, stamp, gotVars, faults>>

\* Mutant of filterAckedFindings: the lookup's answer is ignored.
filterAckedFindings_mut(d, f) ==
  /\ f \in left[d]
  /\ left' = [left EXCEPT ![d] = @ \ {f}]
  /\ kept' = [kept EXCEPT ![d] = @ \cup {f}]
  /\ UNCHANGED <<now, ackVars, seenVars, pc, rpt, todo, cur, stamp, quiet, gotVars, faults>>

\* filterAckedFindings drops a finding whose ack is active.
filterAckedFindings(d, f) ==
  /\ f \in left[d]
  /\ left' = [left EXCEPT ![d] = @ \ {f}]
  /\ kept' = [kept EXCEPT ![d] = IF IsAcked(f) THEN @ ELSE @ \cup {f}]
  /\ UNCHANGED <<now, ackVars, seenVars, pc, rpt, todo, cur, stamp, quiet, gotVars, faults>>

\* The lookup fails: its error is dropped and the finding is kept.
lookupFails(d, f) ==
  /\ f \in left[d]
  /\ faults < MaxFaults /\ faults' = faults + 1
  /\ left' = [left EXCEPT ![d] = @ \ {f}]
  /\ kept' = [kept EXCEPT ![d] = @ \cup {f}]
  /\ quiet' = [quiet EXCEPT ![d] = @ \ {f}]
  /\ UNCHANGED <<now, ackVars, seenVars, pc, rpt, todo, cur, stamp, gotVars>>

\* Mutant of dedupCriticals: the survivors are not recorded until posted.
dedupCriticals_mut(d) ==
  LET fresh == {f \in kept[d] : Prune(slackSeen, now)[f] = Never}
  IN /\ pc[d] = "slackAcks" /\ left[d] = {}
     /\ slackSeen' = Prune(slackSeen, now)
     /\ stamp' = [stamp EXCEPT ![d] = now]
     /\ IF fresh = {} THEN Lookup(d, "hookAcks", rpt[d])
        ELSE /\ Goto(d, "post")
             /\ kept' = [kept EXCEPT ![d] = fresh]
             /\ UNCHANGED <<left, quiet>>
     /\ UNCHANGED <<now, ackVars, hookSeen, rpt, todo, cur, gotVars, faults>>

\* dedupCriticals, under slackMu: prune, keep what was not notified, and record
\* the survivors as notified before they are posted.
dedupCriticals(d) ==
  LET fresh == {f \in kept[d] : Prune(slackSeen, now)[f] = Never}
  IN /\ pc[d] = "slackAcks" /\ left[d] = {}
     /\ slackSeen' = [f \in Findings |->
                        IF f \in fresh THEN now ELSE Prune(slackSeen, now)[f]]
     /\ stamp' = [stamp EXCEPT ![d] = now]
     /\ IF fresh = {} THEN Lookup(d, "hookAcks", rpt[d])
        ELSE /\ Goto(d, "post")
             /\ kept' = [kept EXCEPT ![d] = fresh]
             /\ UNCHANGED <<left, quiet>>
     /\ UNCHANGED <<now, ackVars, hookSeen, rpt, todo, cur, gotVars, faults>>

\* buildSlackPayload shows the first few findings and counts the others.
Shown(findings) ==
  {s \in SUBSET findings :
     \/ s = findings /\ Cardinality(findings) <= MaxPerPost
     \/ Cardinality(s) = MaxPerPost}

\* The post to Slack is accepted, or fails; either way the webhooks follow.
postSlack(d, shown) ==
  /\ pc[d] = "post"
  /\ slackGot' = [f \in Findings |-> IF f \in shown THEN stamp[d] ELSE slackGot[f]]
  /\ Lookup(d, "hookAcks", rpt[d])
  /\ UNCHANGED <<now, ackVars, seenVars, rpt, todo, cur, stamp, hookGot, faults>>

-----------------------------------------------------------------------------
(* dispatchWebhooksIfConfigured and Dispatch. *)

\* Dispatch reads the clock once, and gcExpired prunes the map.
startDispatch(d) ==
  /\ pc[d] = "hookAcks" /\ left[d] = {}
  /\ Goto(d, "dispatch")
  /\ stamp' = [stamp EXCEPT ![d] = now]
  /\ hookSeen' = Prune(hookSeen, now)
  /\ todo' = [todo EXCEPT ![d] = {p \in Matches : p[2] \in kept[d]}]
  /\ UNCHANGED <<now, ackVars, slackSeen, rpt, left, kept, cur, quiet, gotVars, faults>>

\* Mutant of claimSend: the pair is marked only after it was sent.
claimSend_mut(d, p) ==
  /\ pc[d] = "dispatch" /\ p \in todo[d] /\ hookSeen[p] = Never
  /\ Goto(d, "send")
  /\ cur' = [cur EXCEPT ![d] = p]
  /\ UNCHANGED <<now, ackVars, slackSeen, hookSeen, rpt, left, kept, todo, stamp,
                 quiet, gotVars, faults>>

\* Dispatch's loop body, under d.mu: claim a pair that was not notified.
claimSend(d, p) ==
  /\ pc[d] = "dispatch" /\ p \in todo[d] /\ hookSeen[p] = Never
  /\ Goto(d, "send")
  /\ cur' = [cur EXCEPT ![d] = p]
  /\ hookSeen' = [hookSeen EXCEPT ![p] = stamp[d]]
  /\ UNCHANGED <<now, ackVars, slackSeen, rpt, left, kept, todo, stamp, quiet, gotVars, faults>>

\* Mutant of skipSeen: the rest of the report is dropped with the pair.
skipSeen_mut(d, p) ==
  /\ pc[d] = "dispatch" /\ p \in todo[d] /\ hookSeen[p] # Never
  /\ Goto(d, "idle")
  /\ UNCHANGED <<now, ackVars, seenVars, rpt, left, kept, todo, cur, stamp, quiet, gotVars, faults>>

\* A pair that was notified is passed over.
skipSeen(d, p) ==
  /\ pc[d] = "dispatch" /\ p \in todo[d] /\ hookSeen[p] # Never
  /\ todo' = [todo EXCEPT ![d] = @ \ {p}]
  /\ UNCHANGED <<now, ackVars, seenVars, pc, rpt, left, kept, cur, stamp, quiet, gotVars, faults>>

SendReturns(d) ==
  /\ pc[d] = "send"
  /\ Goto(d, "dispatch")
  /\ todo' = [todo EXCEPT ![d] = @ \ {cur[d]}]
  /\ cur' = [cur EXCEPT ![d] = NoPair]
  /\ UNCHANGED <<now, ackVars, slackSeen, rpt, left, kept, stamp, quiet, slackGot, faults>>

\* send: the subscriber answers 2xx.
sendSucceeds(d) ==
  /\ SendReturns(d)
  /\ hookGot' = [hookGot EXCEPT ![cur[d]] = stamp[d]]
  /\ UNCHANGED hookSeen

\* Mutant of sendFails: the claim is kept, as the Slack notifier keeps it.
sendFails_mut(d) == SendReturns(d) /\ UNCHANGED <<hookSeen, hookGot>>

\* send fails, before or after the subscriber saw it: the claim is withdrawn.
sendFails(d) ==
  /\ SendReturns(d)
  /\ hookSeen' = [hookSeen EXCEPT ![cur[d]] = Never]
  /\ UNCHANGED hookGot

endDelivery(d) ==
  /\ pc[d] = "dispatch" /\ todo[d] = {}
  /\ Goto(d, "idle")
  /\ rpt' = [rpt EXCEPT ![d] = {}]
  /\ kept' = [kept EXCEPT ![d] = {}]
  /\ quiet' = [quiet EXCEPT ![d] = {}]
  /\ stamp' = [stamp EXCEPT ![d] = Never]
  /\ UNCHANGED <<now, ackVars, seenVars, left, todo, cur, gotVars, faults>>

-----------------------------------------------------------------------------

NoneOf(S) == [x \in S |-> {}]
UnsetOf(S) == [x \in S |-> Never]

\* Acks outlive the process: some findings may be acked when it starts.
Init ==
  /\ now = 0 /\ ack \in SUBSET Findings /\ until = UnsetOf(Findings)
  /\ acks = 0 /\ faults = 0
  /\ slackSeen = UnsetOf(Findings) /\ slackGot = UnsetOf(Findings)
  /\ hookSeen = UnsetOf(Matches) /\ hookGot = UnsetOf(Matches)
  /\ pc = [d \in Deliveries |-> "idle"]
  /\ rpt = NoneOf(Deliveries) /\ left = NoneOf(Deliveries) /\ kept = NoneOf(Deliveries)
  /\ todo = NoneOf(Deliveries) /\ quiet = NoneOf(Deliveries)
  /\ cur = [d \in Deliveries |-> NoPair]
  /\ stamp = UnsetOf(Deliveries)

\* The process restarts: deliveries and both maps are lost, acks are kept.
restart ==
  /\ faults < MaxFaults /\ faults' = faults + 1
  /\ slackSeen' = UnsetOf(Findings) /\ slackGot' = UnsetOf(Findings)
  /\ hookSeen' = UnsetOf(Matches) /\ hookGot' = UnsetOf(Matches)
  /\ pc' = [d \in Deliveries |-> "idle"]
  /\ rpt' = NoneOf(Deliveries) /\ left' = NoneOf(Deliveries) /\ kept' = NoneOf(Deliveries)
  /\ todo' = NoneOf(Deliveries) /\ quiet' = NoneOf(Deliveries)
  /\ cur' = [d \in Deliveries |-> NoPair]
  /\ stamp' = UnsetOf(Deliveries)
  /\ UNCHANGED <<now, ackVars>>

Operator ==
  \E f \in Findings : \/ \E t \in (0..MaxTime) \cup {Never} : SaveAck(f, t)
                      \/ DeleteAck(f)

Slack(d) ==
  \/ \E R \in SUBSET Findings \ {{}} : startDelivery(d, R)
  \/ \E f \in Findings : filterAckedFindings(d, f) \/ lookupFails(d, f)
  \/ dedupCriticals(d)
  \/ \E shown \in Shown(kept[d]) \cup {{}} : postSlack(d, shown)

Dispatch(d) ==
  \/ startDispatch(d)
  \/ \E p \in Matches : claimSend(d, p) \/ skipSeen(d, p)
  \/ sendSucceeds(d) \/ sendFails(d)
  \/ endDelivery(d)

Next ==
  \/ \E d \in Deliveries : Slack(d) \/ Dispatch(d)
  \/ Operator \/ Tick \/ restart

Spec == Init /\ [][Next]_vars

\* Scans go on and keep reporting what they find, a delivery goes on until it
\* ends, and a subscriber that is tried again and again answers some day.
Fairness ==
  \A d \in Deliveries :
    /\ SF_vars(startDelivery(d, Findings))
    /\ WF_vars((\E f \in Findings : filterAckedFindings(d, f)) \/ dedupCriticals(d)
               \/ postSlack(d, {}) \/ Dispatch(d))
    /\ SF_vars(sendSucceeds(d))

FairSpec == Spec /\ Fairness

-----------------------------------------------------------------------------
(* Properties. *)

TypeOK ==
  /\ now \in Nat /\ acks \in Nat /\ faults \in Nat
  /\ ack \subseteq Findings /\ until \in [Findings -> Times]
  /\ slackSeen \in [Findings -> Times] /\ slackGot \in [Findings -> Times]
  /\ hookSeen \in [Matches -> Times] /\ hookGot \in [Matches -> Times]
  /\ pc \in [Deliveries -> {"idle", "slackAcks", "post", "hookAcks", "dispatch", "send"}]
  /\ rpt \in [Deliveries -> SUBSET Findings] /\ left \in [Deliveries -> SUBSET Findings]
  /\ kept \in [Deliveries -> SUBSET Findings] /\ quiet \in [Deliveries -> SUBSET Findings]
  /\ todo \in [Deliveries -> SUBSET Matches]
  /\ cur \in [Deliveries -> Matches \cup {NoPair}]
  /\ stamp \in [Deliveries -> Times]
  /\ \A d \in Deliveries : pc[d] = "idle" => left[d] = {} /\ todo[d] = {}

\* slackDedupTTL: a finding that Slack was shown is not posted again within the
\* TTL, however many deliveries of the same findings run at once.
SlackOncePerWindow ==
  \A d \in Deliveries : pc[d] = "post" =>
    \A f \in kept[d] :
      /\ slackGot[f] # Never => now > slackGot[f] + TTL
      /\ \A e \in Deliveries \ {d} : pc[e] = "post" => f \notin kept[e]

\* dedupTTL: a pair that was delivered is not sent again within the TTL, and
\* never by two deliveries at once.
WebhookOncePerWindow ==
  \A d \in Deliveries : pc[d] = "send" =>
    /\ hookGot[cur[d]] # Never => now > hookGot[cur[d]] + TTL
    /\ \A e \in Deliveries \ {d} : pc[e] = "send" => cur[e] # cur[d]

\* Dispatch remembers only what it delivered: an entry stands for a send that
\* succeeded at its time or that is still under way.
WebhookRemembersDelivered ==
  \A p \in Matches : hookSeen[p] # Never =>
    \/ hookGot[p] = hookSeen[p]
    \/ \E d \in Deliveries : pc[d] = "send" /\ cur[d] = p /\ stamp[d] = hookSeen[p]

\* webhook_emit.go: "a single ack quiets every channel". A finding acked since
\* before the lookup, and whose lookup did not fail, is neither posted nor sent.
AckQuiets ==
  \A d \in Deliveries :
    /\ pc[d] = "post" => kept[d] \cap quiet[d] = {}
    /\ pc[d] = "send" => cur[d][2] \notin quiet[d]

\* A finding that stays unacked reaches every subscriber it matches, although
\* sends fail and one delivery may skip what another is about to fail on.
WebhookDelivered ==
  \A p \in Matches : []<>(hookGot[p] # Never \/ IsAcked(p[2]))

-----------------------------------------------------------------------------
(* A claim of the documentation that the code does not meet. *)

\* docs/integrations/slack.md: "A fingerprint of each posted finding is
\* remembered": what is remembered was posted, or is about to be.
SlackRemembersPosted ==
  \A f \in Findings : slackSeen[f] # Never =>
    \/ slackGot[f] = slackSeen[f]
    \/ \E d \in Deliveries : pc[d] = "post" /\ f \in kept[d]

=============================================================================
