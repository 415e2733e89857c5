----------------------- MODULE WebhookExchangeProofs -----------------------
(***************************************************************************)
(* Proofs about SsrfService and WebhookExchange: for every address, and    *)
(* for any deliveries, setups, resolver, faults and number of attempts.    *)
(***************************************************************************)
EXTENDS WebhookExchange, TLAPS

-----------------------------------------------------------------------------
(* The address rules *)

\* The order of addresses, unfolded octet by octet.
LEMMA AtMostUnfolded ==
    ASSUME NEW o, NEW p
    PROVE  AtMost(o, p) <=>
               /\ o[1] <= p[1]
               /\ o[1] = p[1] => o[2] <= p[2]
               /\ o[1] = p[1] /\ o[2] = p[2] => o[3] <= p[3]
               /\ o[1] = p[1] /\ o[2] = p[2] /\ o[3] = p[3] => o[4] <= p[4]
<1>1. 1 .. 4 = {1, 2, 3, 4} /\ 1 .. 0 = {} /\ 1 .. 1 = {1} /\ 1 .. 2 = {1, 2} /\ 1 .. 3 = {1, 2, 3}
  OBVIOUS
<1>2. 1 - 1 = 0 /\ 2 - 1 = 1 /\ 3 - 1 = 2 /\ 4 - 1 = 3
  OBVIOUS
<1>3. AtMost(o, p) <=>
          /\ (\A k \in 1 .. 0 : o[k] = p[k]) => o[1] <= p[1]
          /\ (\A k \in 1 .. 1 : o[k] = p[k]) => o[2] <= p[2]
          /\ (\A k \in 1 .. 2 : o[k] = p[k]) => o[3] <= p[3]
          /\ (\A k \in 1 .. 3 : o[k] = p[k]) => o[4] <= p[4]
  BY <1>1, <1>2, Zenon DEF AtMost
<1> QED
  BY <1>1, <1>3, Zenon

\* An address lies between two that share all octets before the n-th (n = 2 or 3) and
\* begin and end with that part of the address space.
LEMMA WithinFirst ==
    ASSUME NEW o \in Octets, NEW a \in Octet, NEW b \in Octet
    PROVE  AtMost(<<a, 0, 0, 0>>, o) /\ AtMost(o, <<b, 255, 255, 255>>) <=> a <= o[1] /\ o[1] <= b
  BY AtMostUnfolded, SMTT(60) DEF Octets, Octet

LEMMA WithinSecond ==
    ASSUME NEW o \in Octets, NEW a \in Octet, NEW b \in Octet, NEW c \in Octet
    PROVE  AtMost(<<a, b, 0, 0>>, o) /\ AtMost(o, <<a, c, 255, 255>>) <=>
               o[1] = a /\ b <= o[2] /\ o[2] <= c
  BY AtMostUnfolded, SMTT(60) DEF Octets, Octet

LEMMA WithinThird ==
    ASSUME NEW o \in Octets, NEW a \in Octet, NEW b \in Octet, NEW c \in Octet
    PROVE  AtMost(<<a, b, c, 0>>, o) /\ AtMost(o, <<a, b, c, 255>>) <=>
               o[1] = a /\ o[2] = b /\ o[3] = c
  BY AtMostUnfolded, SMTT(60) DEF Octets, Octet

\* The masks of inRange, for the prefix lengths that blockedV4Reason uses.
LEMMA Masks ==
    ASSUME NEW o \in Octets
    PROVE  /\ inRange(o, <<0, 0, 0, 0>>, 8) <=> o[1] = 0
           /\ inRange(o, <<100, 64, 0, 0>>, 10) <=> o[1] = 100 /\ 64 <= o[2] /\ o[2] <= 127
           /\ inRange(o, <<169, 254, 0, 0>>, 16) <=> o[1] = 169 /\ o[2] = 254
           /\ inRange(o, <<192, 0, 0, 0>>, 24) <=> o[1] = 192 /\ o[2] = 0 /\ o[3] = 0
           /\ inRange(o, <<198, 18, 0, 0>>, 15) <=> o[1] = 198 /\ 18 <= o[2] /\ o[2] <= 19
<1>1. PICK a \in Octet, b \in Octet, c \in Octet, d \in Octet : o = <<a, b, c, d>>
  BY DEF Octets
<1> USE <1>1 DEF Octet, inRange, Leading
<1>2. inRange(o, <<0, 0, 0, 0>>, 8) <=> a = 0
  OBVIOUS
<1>3. inRange(o, <<100, 64, 0, 0>>, 10) <=> a = 100 /\ 64 <= b /\ b <= 127
  OBVIOUS
<1>4. inRange(o, <<169, 254, 0, 0>>, 16) <=> a = 169 /\ b = 254
  OBVIOUS
<1>5. inRange(o, <<192, 0, 0, 0>>, 24) <=> a = 192 /\ b = 0 /\ c = 0
  OBVIOUS
<1>6. inRange(o, <<198, 18, 0, 0>>, 15) <=> a = 198 /\ 18 <= b /\ b <= 19
  OBVIOUS
<1> HIDE DEF inRange, Leading
<1> QED
  BY <1>2, <1>3, <1>4, <1>5, <1>6

\* IPv4: the comparisons of blockedV4Reason and the ranges that its messages name.
LEMMA V4Exact ==
    ASSUME NEW o \in Octets
    PROVE  BlockedV4(o) <=> \E r \in NamedV4 : AtMost(r[1], o) /\ AtMost(o, r[2])
<1> DEFINE In(lo, hi) == AtMost(lo, o) /\ AtMost(o, hi)
<1>1. (\E r \in NamedV4 : AtMost(r[1], o) /\ AtMost(o, r[2])) <=>
          \/ In(<<0, 0, 0, 0>>, <<0, 255, 255, 255>>)
          \/ In(<<10, 0, 0, 0>>, <<10, 255, 255, 255>>)
          \/ In(<<100, 64, 0, 0>>, <<100, 127, 255, 255>>)
          \/ In(<<127, 0, 0, 0>>, <<127, 255, 255, 255>>)
          \/ In(<<169, 254, 0, 0>>, <<169, 254, 255, 255>>)
          \/ In(<<172, 16, 0, 0>>, <<172, 31, 255, 255>>)
          \/ In(<<192, 0, 0, 0>>, <<192, 0, 0, 255>>)
          \/ In(<<192, 168, 0, 0>>, <<192, 168, 255, 255>>)
          \/ In(<<198, 18, 0, 0>>, <<198, 19, 255, 255>>)
          \/ In(<<224, 0, 0, 0>>, <<255, 255, 255, 255>>)
  BY DEF NamedV4
<1>2. \A a, b \in Octet : In(<<a, 0, 0, 0>>, <<b, 255, 255, 255>>) <=> a <= o[1] /\ o[1] <= b
  BY WithinFirst
<1>3. \A a, b, c \in Octet :
          In(<<a, b, 0, 0>>, <<a, c, 255, 255>>) <=> o[1] = a /\ b <= o[2] /\ o[2] <= c
  BY WithinSecond
<1>4. \A a, b, c \in Octet :
          In(<<a, b, c, 0>>, <<a, b, c, 255>>) <=> o[1] = a /\ o[2] = b /\ o[3] = c
  BY WithinThird, ZenonT(60)
<1> HIDE DEF In
<1>5. /\ o[1] \in Octet /\ o[2] \in Octet
      /\ {0, 10, 16, 18, 19, 31, 64, 100, 127, 168, 169, 172, 192, 198, 224, 254, 255} \subseteq Octet
  BY DEF Octets, Octet
<1>6. /\ In(<<0, 0, 0, 0>>, <<0, 255, 255, 255>>) <=> o[1] = 0
      /\ In(<<10, 0, 0, 0>>, <<10, 255, 255, 255>>) <=> o[1] = 10
      /\ In(<<127, 0, 0, 0>>, <<127, 255, 255, 255>>) <=> o[1] = 127
      /\ In(<<224, 0, 0, 0>>, <<255, 255, 255, 255>>) <=> o[1] >= 224
  <2>1. In(<<0, 0, 0, 0>>, <<0, 255, 255, 255>>) <=> 0 <= o[1] /\ o[1] <= 0
    BY <1>2, <1>5
  <2>2. In(<<10, 0, 0, 0>>, <<10, 255, 255, 255>>) <=> 10 <= o[1] /\ o[1] <= 10
    BY <1>2, <1>5
  <2>3. In(<<127, 0, 0, 0>>, <<127, 255, 255, 255>>) <=> 127 <= o[1] /\ o[1] <= 127
    BY <1>2, <1>5
  <2>4. In(<<224, 0, 0, 0>>, <<255, 255, 255, 255>>) <=> 224 <= o[1] /\ o[1] <= 255
    BY <1>2, <1>5
  <2> QED
    BY <1>5, <2>1, <2>2, <2>3, <2>4 DEF Octet
<1>7. /\ In(<<100, 64, 0, 0>>, <<100, 127, 255, 255>>) <=> o[1] = 100 /\ 64 <= o[2] /\ o[2] <= 127
      /\ In(<<169, 254, 0, 0>>, <<169, 254, 255, 255>>) <=> o[1] = 169 /\ o[2] = 254
      /\ In(<<172, 16, 0, 0>>, <<172, 31, 255, 255>>) <=> o[1] = 172 /\ 16 <= o[2] /\ o[2] <= 31
      /\ In(<<192, 168, 0, 0>>, <<192, 168, 255, 255>>) <=> o[1] = 192 /\ o[2] = 168
      /\ In(<<198, 18, 0, 0>>, <<198, 19, 255, 255>>) <=> o[1] = 198 /\ 18 <= o[2] /\ o[2] <= 19
  <2>1. In(<<100, 64, 0, 0>>, <<100, 127, 255, 255>>) <=> o[1] = 100 /\ 64 <= o[2] /\ o[2] <= 127
    BY <1>3, <1>5
  <2>2. In(<<169, 254, 0, 0>>, <<169, 254, 255, 255>>) <=> o[1] = 169 /\ 254 <= o[2] /\ o[2] <= 254
    BY <1>3, <1>5
  <2>3. In(<<172, 16, 0, 0>>, <<172, 31, 255, 255>>) <=> o[1] = 172 /\ 16 <= o[2] /\ o[2] <= 31
    BY <1>3, <1>5
  <2>4. In(<<192, 168, 0, 0>>, <<192, 168, 255, 255>>) <=> o[1] = 192 /\ 168 <= o[2] /\ o[2] <= 168
    BY <1>3, <1>5
  <2>5. In(<<198, 18, 0, 0>>, <<198, 19, 255, 255>>) <=> o[1] = 198 /\ 18 <= o[2] /\ o[2] <= 19
    BY <1>3, <1>5
  <2>6. (254 <= o[2] /\ o[2] <= 254 <=> o[2] = 254) /\ (168 <= o[2] /\ o[2] <= 168 <=> o[2] = 168)
    BY <1>5 DEF Octet
  <2> QED
    BY <2>1, <2>2, <2>3, <2>4, <2>5, <2>6
<1>8. In(<<192, 0, 0, 0>>, <<192, 0, 0, 255>>) <=> o[1] = 192 /\ o[2] = 0 /\ o[3] = 0
  BY <1>4, <1>5
<1>9. BlockedV4(o) <=>
          \/ o[1] \in {0, 10, 127} \/ o[1] >= 224
          \/ o[1] = 100 /\ 64 <= o[2] /\ o[2] <= 127
          \/ o[1] = 169 /\ o[2] = 254
          \/ o[1] = 172 /\ 16 <= o[2] /\ o[2] <= 31
          \/ o[1] = 192 /\ o[2] = 168
          \/ o[1] = 192 /\ o[2] = 0 /\ o[3] = 0
          \/ o[1] = 198 /\ 18 <= o[2] /\ o[2] <= 19
  BY <1>5, Masks DEF BlockedV4, Octet
<1> QED
  BY <1>1, <1>6, <1>7, <1>8, <1>9

\* IPv6: the three masks on the first group.
LEMMA V6Exact ==
    ASSUME NEW g \in Group
    PROVE  BlockedV6(g) <=> \E r \in NamedV6 : r[1] <= g /\ g <= r[2]
<1> USE DEF Group
<1>1. g \div 512 = 126 <=> 64512 <= g /\ g <= 65023
  BY SMTT(30)
<1>2. g \div 64 = 1018 <=> 65152 <= g /\ g <= 65215
  BY SMTT(30)
<1>3. g \div 256 = 255 <=> 65280 <= g /\ g <= 65535
  BY SMTT(30)
<1> QED
  BY <1>1, <1>2, <1>3, SMTT(60) DEF BlockedV6, NamedV6

\* blockedIpReason gives a reason for exactly the addresses of the ranges that its
\* messages name: its masks and comparisons, written in three ways, are right for every
\* IPv4 address, alone or mapped in the dotted form, and for every first group of an
\* IPv6 address.  A mapped address that is written in groups never has a reason.
THEOREM RulesAreExact ==
    \A ip \in Address : Blocked(ip) <=> Internal(ip) /\ ip.kind # "hex"
<1> SUFFICES ASSUME NEW ip \in Address PROVE Blocked(ip) <=> Internal(ip) /\ ip.kind # "hex"
  OBVIOUS
<1>1. ip.kind \in {"v4", "mapped", "hex", "v6", "unspecified"} /\ ip.octets \in Octets /\ ip.group \in Group
  BY DEF Address
<1>2. CASE ip.kind \in {"v4", "mapped"}
  BY <1>1, <1>2, V4Exact DEF Blocked, Internal
<1>3. CASE ip.kind = "v6"
  BY <1>1, <1>3, V6Exact DEF Blocked, Internal
<1>4. CASE ip.kind = "unspecified"
  BY <1>4 DEF Blocked, Internal
<1>5. CASE ip.kind = "hex"
  <2>1. ~BlockedV6(0)
    BY DEF BlockedV6
  <2> QED
    BY <1>5, <2>1 DEF Blocked
<1> QED
  BY <1>1, <1>2, <1>3, <1>4, <1>5

-----------------------------------------------------------------------------
(* The inductive invariant of the exchange *)

Senders == [pc   : {"idle", "claimed", "waiting", "done"},
            got  : {"", "none", "200", "400", "401", "500"},
            peer : SUBSET Address]

TypeInv ==
    /\ phase \in [Deliveries -> {"none", "owed", "succeeded", "dead"}]
    /\ settled \in [Deliveries -> Nat]
    /\ started \in [Deliveries -> SUBSET Numbers]
    /\ acked \in [Deliveries -> SUBSET Numbers]
    /\ page \in [Deliveries -> {"empty", "created", "told", "failed", "subscribed"}]
    /\ told \in [Deliveries -> {"no", "kept", "lost"}]
    /\ endpoint \in Setups
    /\ sender \in [Deliveries -> Senders]
    /\ rows \in [Deliveries -> [Numbers -> {"none", "live", "purged"}]]
    /\ redelivered \in 0 .. MaxRedeliveries
    /\ processed \subseteq Deliveries
    /\ effects \in [Deliveries -> Nat]
    /\ restarts \in Nat
    /\ onFile \in BOOLEAN

\* Attempts and requests under way are of deliveries that were published, and the
\* requests are signed with the secret of their endpoint.
RequestInv ==
    /\ \A r \in wire \cup timers :
          /\ r.id \in Deliveries
          /\ phase[r.id] # "none"
          /\ r.signature = signDeliveryBody(r.id, r.id)
    /\ \A d \in Deliveries : sender[d].pc # "idle" => phase[d] # "none"

\* The receiver's table: what is in it was processed, or was stored by a handler that
\* was killed, and only a restart that loses it lets a delivery be processed again.
EffectInv ==
    \A d \in Deliveries :
        /\ d \in processed => effects[d] > 0 \/ d \in cut
        /\ effects[d] <= (IF d \in processed THEN 1 ELSE 0) + (IF onFile THEN 0 ELSE restarts)

\* The order of the console's requests: except for an early ping there is no delivery
\* before the receiver was told, and it keeps what it was told.
PageInv ==
    \A d \in Deliveries :
        /\ phase[d] # "none" => told[d] # "no" \/ d \in early
        /\ told[d] = "no" <=> page[d] \in {"empty", "created"}
        /\ told[d] = "kept" => d \in secrets

\* A delivery that is owed, or not yet published, has attempts left, within the numbers there are.
BudgetInv ==
    \A d \in Deliveries :
        /\ settled[d] <= MaxAttempts + redelivered
        /\ phase[d] \in {"none", "owed"} => settled[d] < MaxAttempts + redelivered

\* Every attempt that was started has, or had, its row, and the settled ones were
\* started.
RowInv ==
    \A d \in Deliveries :
        /\ \A n \in started[d] : rows[d][n] # "none"
        /\ 1 .. settled[d] \subseteq started[d]

\* What the reader has seen of the delivery's count is not ahead of it.
ViewInv ==
    \/ view.pc = "none"
    \/ /\ view.pc \in {"row", "done"}
       /\ view \in [pc : {"row", "done"}, id : Deliveries, count : Nat, listed : SUBSET Numbers]
       /\ view.count <= settled[view.id]

ExchangeInv ==
    /\ TypeInv /\ RequestInv /\ EffectInv /\ PageInv /\ BudgetInv /\ RowInv /\ ViewInv
    /\ AckedIsProcessed /\ SecretFirst /\ NoBlockedConnect /\ AttemptsCover

USE DEF ledgerVars, receiverVars, pageVars, sendVars

\* An idle worker.
LEMMA IdleType == Idle \in Senders /\ Idle.got = "" /\ Idle.peer = {} /\ Idle.pc = "idle"
  BY DEF Idle, Senders

LEMMA Bounds == MaxAttempts \in Nat /\ MaxAttempts > 0 /\ MaxRedeliveries \in Nat
  BY ExchangeAssumption

\* The initial state: nothing registered, nothing sent.
LEMMA ExchangeInit == Init => ExchangeInv
<1> SUFFICES ASSUME Init PROVE ExchangeInv
  OBVIOUS
<1> USE DEF Init, LedgerInit, ReceiverInit
<1>1. TypeInv
  <2>1. effects \in [Deliveries -> Nat]
    BY ExchangeAssumption
  <2>2. sender \in [Deliveries -> Senders]
    BY IdleType
  <2>3. rows \in [Deliveries -> [Numbers -> {"none", "live", "purged"}]]
    OBVIOUS
  <2> QED
    BY <2>1, <2>2, <2>3, Bounds, ReceiverAssumption DEF TypeInv
<1>2. RequestInv /\ PageInv /\ ViewInv
  BY IdleType DEF RequestInv, PageInv, ViewInv
<1>3. EffectInv /\ AckedIsProcessed
  BY ExchangeAssumption, ReceiverAssumption DEF EffectInv, AckedIsProcessed
<1>4. BudgetInv
  <2>1. redelivered = 0 /\ \A d \in Deliveries : settled[d] = 0
    OBVIOUS
  <2>2. 0 <= MaxAttempts + 0 /\ 0 < MaxAttempts + 0
    BY Bounds
  <2> QED
    BY <2>1, <2>2, Zenon DEF BudgetInv
<1>5. RowInv
  <2>1. 1 .. 0 = {}
    OBVIOUS
  <2> QED
    BY <2>1 DEF RowInv
<1>6. SecretFirst /\ NoBlockedConnect /\ AttemptsCover
  BY IdleType DEF SecretFirst, NoBlockedConnect, AttemptsCover
<1> QED
  BY <1>1, <1>2, <1>3, <1>4, <1>5, <1>6 DEF ExchangeInv

\* An attempt of an owed delivery has a number.
LEMMA NextNumber ==
    ASSUME TypeInv, BudgetInv, NEW d \in Deliveries, phase[d] = "owed"
    PROVE  settled[d] + 1 \in Numbers
  BY ExchangeAssumption DEF TypeInv, BudgetInv, Numbers

\* consume(): afterwards the delivery was processed, or its INSERT failed otherwise, or
\* a killed handler had stored it; what was processed stays so.
LEMMA ConsumeKeeps ==
    ASSUME TypeInv, EffectInv, NEW id \in Deliveries, consume(id),
           restarts' = restarts, onFile' = onFile, cut' = cut
    PROVE  /\ processed' \subseteq Deliveries /\ effects' \in [Deliveries -> Nat]
           /\ EffectInv'
           /\ effects'[id] > 0 \/ id \in dropped' \cup cut
           /\ dropped \subseteq dropped'
           /\ \A d \in Deliveries : effects[d] > 0 => effects'[d] > 0
<1>1. CASE id \in processed \/ UNCHANGED <<processed, effects>>
  BY <1>1 DEF consume, TypeInv, EffectInv
<1>2. CASE /\ id \notin processed
           /\ processed' = processed \cup {id}
           /\ effects' = [effects EXCEPT ![id] = @ + 1]
           /\ dropped' = dropped
  <2>1. processed' \subseteq Deliveries /\ effects' \in [Deliveries -> Nat]
    BY <1>2 DEF TypeInv
  <2>2. effects'[id] = effects[id] + 1 /\ \A d \in Deliveries \ {id} : effects'[d] = effects[d]
    BY <1>2 DEF TypeInv
  <2>3. EffectInv'
    BY <1>2, <2>1, <2>2 DEF TypeInv, EffectInv
  <2> QED
    BY <1>2, <2>1, <2>2, <2>3 DEF TypeInv
<1> QED
  BY <1>1, <1>2 DEF consume

\* The answer reaches the worker that waits for it, if there is one.
LEMMA AnswerKeeps ==
    ASSUME ExchangeInv, NEW r, r.id \in Deliveries,
           NEW status \in {"200", "400", "401", "500", ""}, Answer(r, status),
           told' = told, early' = early, cut' = cut, dropped \subseteq dropped',
           \A d \in Deliveries : effects[d] > 0 => effects'[d] > 0,
           status = "200" => effects'[r.id] > 0 \/ r.id \in dropped' \cup cut,
           status = "401" => told[r.id] = "lost" \/ r.id \in early
    PROVE  /\ phase' = phase /\ settled' = settled /\ started' = started
           /\ \A d \in Deliveries : sender'[d].pc # "idle" => phase[d] # "none"
           /\ acked' \in [Deliveries -> SUBSET Numbers]
           /\ sender' \in [Deliveries -> Senders]
           /\ AckedIsProcessed' /\ SecretFirst' /\ NoBlockedConnect'
<1> USE DEF ExchangeInv
<1>1. phase' = phase /\ settled' = settled /\ started' = started
  BY DEF Answer, Acknowledge
<1>2. \/ acked' = acked
      \/ /\ status = "200"
         /\ settled[r.id] + 1 \in started[r.id]
         /\ acked' = [acked EXCEPT ![r.id] = @ \cup {settled[r.id] + 1}]
  BY DEF Answer, Acknowledge
<1>3. acked' \in [Deliveries -> SUBSET Numbers]
  <2>1. acked \in [Deliveries -> SUBSET Numbers] /\ started[r.id] \subseteq Numbers
    BY DEF TypeInv
  <2>2. CASE acked' = acked
    BY <2>1, <2>2
  <2>3. ASSUME NEW n \in Numbers, acked' = [acked EXCEPT ![r.id] = @ \cup {n}]
        PROVE  acked' \in [Deliveries -> SUBSET Numbers]
    BY <2>1, <2>3
  <2> QED
    BY <1>2, <2>1, <2>2, <2>3
<1>4. AckedIsProcessed'
  BY <1>2 DEF TypeInv, AckedIsProcessed
<1>6. /\ sender' \in [Deliveries -> Senders]
      /\ \A d \in Deliveries : sender'[d].peer = sender[d].peer
      /\ \A d \in Deliveries : sender'[d].got = sender[d].got \/ (d = r.id /\ sender'[d].got = status)
      /\ \A d \in Deliveries : sender'[d].pc # "idle" => sender[d].pc # "idle"
  <2> DEFINE new == [sender[r.id] EXCEPT !.pc = "done", !.got = status]
  <2>1. sender[r.id] \in Senders
    BY DEF TypeInv
  <2>2. status # "" => new \in Senders /\ new.peer = sender[r.id].peer /\ new.got = status
    BY <2>1 DEF Senders
  <2>3. sender' = sender \/ (status # "" /\ sender[r.id].pc = "waiting" /\ Got(r.id, status))
    BY DEF Answer
  <2>4. Got(r.id, status) => sender' = [sender EXCEPT ![r.id] = new]
    BY DEF Got
  <2>5. sender \in [Deliveries -> Senders]
    BY DEF TypeInv
  <2> HIDE DEF new
  <2> QED
    BY <2>2, <2>3, <2>4, <2>5
<1>7. SecretFirst' /\ NoBlockedConnect'
  BY <1>6 DEF SecretFirst, NoBlockedConnect
<1> QED
  BY <1>1, <1>3, <1>4, <1>6, <1>7 DEF RequestInv

\* A step that leaves ledger, rows and view alone keeps what is said about them.
LEMMA LedgerFrame ==
    ASSUME ExchangeInv,
           phase' = phase, settled' = settled, started' = started,
           rows' = rows, view' = view, redelivered' = redelivered
    PROVE  BudgetInv' /\ RowInv' /\ ViewInv' /\ AttemptsCover'
  BY DEF ExchangeInv, BudgetInv, RowInv, ViewInv, AttemptsCover

\* A step that leaves the worker, the receiver and the ledger alone keeps what is said
\* about them.
LEMMA ReceiverFrame ==
    ASSUME ExchangeInv,
           acked' = acked, processed' = processed, effects' = effects, dropped' = dropped,
           restarts' = restarts, onFile' = onFile, cut' = cut
    PROVE  EffectInv' /\ AckedIsProcessed'
  BY DEF ExchangeInv, EffectInv, AckedIsProcessed

\* The console's flow.
LEMMA ConsoleStep ==
    ASSUME ExchangeInv, NEW d \in Deliveries,
           Register(d) \/ TellSecret(d) \/ Subscribe(d) \/ Ping(d)
    PROVE  ExchangeInv'
<1> USE DEF ExchangeInv
<1>1. CASE Register(d)
  <2> USE <1>1 DEF Register
  <2>1. TypeInv'
    BY DEF TypeInv
  <2>2. RequestInv' /\ SecretFirst' /\ NoBlockedConnect'
    BY DEF RequestInv, SecretFirst, NoBlockedConnect
  <2>3. PageInv'
    BY DEF TypeInv, PageInv
  <2> QED
    BY <2>1, <2>2, <2>3, LedgerFrame, ReceiverFrame
<1>2. CASE TellSecret(d)
  <2> USE <1>2 DEF TellSecret, Config
  <2>1. /\ UNCHANGED <<early, endpoint, ledgerVars, sendVars, rows, view, redelivered, onFile,
                       processed, timers, effects, dropped, cut, restarts>>
        /\ page[d] = "created"
        /\ \/ /\ secrets' = secrets \cup {d} /\ told' = [told EXCEPT ![d] = "kept"]
              /\ page' = [page EXCEPT ![d] = "told"]
           \/ /\ secrets' = secrets /\ told' = [told EXCEPT ![d] = "lost"]
              /\ \E p \in {"told", "failed"} : page' = [page EXCEPT ![d] = p]
    OBVIOUS
  <2> HIDE DEF TellSecret, Config
  <2> HIDE <1>2
  <2>2. TypeInv'
    <3>1. /\ told' = [told EXCEPT ![d] = "kept"] \/ told' = [told EXCEPT ![d] = "lost"]
          /\ \E p \in {"told", "failed"} : page' = [page EXCEPT ![d] = p]
      BY <2>1, Zenon
    <3>2. told' \in [Deliveries -> {"no", "kept", "lost"}]
      BY <3>1 DEF TypeInv
    <3>3. page' \in [Deliveries -> {"empty", "created", "told", "failed", "subscribed"}]
      BY <3>1 DEF TypeInv
    <3> QED
      BY <2>1, <3>2, <3>3, Zenon DEF TypeInv
  <2>3. RequestInv' /\ NoBlockedConnect'
    BY <2>1 DEF RequestInv, NoBlockedConnect
  <2>4. PageInv'
    BY <2>1 DEF TypeInv, PageInv
  <2>5. SecretFirst'
    BY <2>1 DEF TypeInv, PageInv, SecretFirst
  <2> QED
    BY <2>1, <2>2, <2>3, <2>4, <2>5, LedgerFrame, ReceiverFrame
<1>3. CASE Subscribe(d)
  <2> USE <1>3 DEF Subscribe, Create
  <2>1. \A e \in Deliveries : phase'[e] = phase[e] \/ (e = d /\ phase[e] = "none" /\ phase'[e] = "owed")
    BY DEF TypeInv
  <2>2. TypeInv'
    BY DEF TypeInv
  <2>3. RequestInv' /\ SecretFirst' /\ NoBlockedConnect'
    BY <2>1 DEF RequestInv, SecretFirst, NoBlockedConnect
  <2>4. PageInv'
    BY <2>1 DEF TypeInv, PageInv
  <2>5. BudgetInv'
    BY <2>1 DEF TypeInv, BudgetInv
  <2>6. RowInv' /\ ViewInv' /\ AttemptsCover'
    BY DEF RowInv, ViewInv, AttemptsCover
  <2> QED
    BY <2>2, <2>3, <2>4, <2>5, <2>6, ReceiverFrame
<1>4. CASE Ping(d)
  <2> USE <1>4 DEF Ping, Create
  <2>1. \A e \in Deliveries : phase'[e] = phase[e] \/ (e = d /\ phase[e] = "none" /\ phase'[e] = "owed")
    BY DEF TypeInv
  <2>2. TypeInv'
    BY DEF TypeInv
  <2>3. RequestInv' /\ SecretFirst' /\ NoBlockedConnect'
    BY <2>1 DEF RequestInv, SecretFirst, NoBlockedConnect
  <2>4. PageInv'
    BY <2>1 DEF TypeInv, PageInv
  <2>5. BudgetInv'
    BY <2>1 DEF TypeInv, BudgetInv
  <2>6. RowInv' /\ ViewInv' /\ AttemptsCover'
    BY DEF RowInv, ViewInv, AttemptsCover
  <2> QED
    BY <2>2, <2>3, <2>4, <2>5, <2>6, ReceiverFrame
<1> QED
  BY <1>1, <1>2, <1>3, <1>4

\* The worker.
LEMMA WorkerStep ==
    ASSUME ExchangeInv, NEW d \in Deliveries,
           Claim(d) \/ Connect(d) \/ GiveUp(d) \/ Finish(d) \/ Crash(d)
    PROVE  ExchangeInv'
<1> USE DEF ExchangeInv
<1>0. sender \in [Deliveries -> Senders] /\ sender[d] \in Senders
  BY DEF TypeInv
<1>1. CASE Claim(d)
  <2> DEFINE n == settled[d] + 1
  <2>1. n \in Numbers
    BY <1>1, NextNumber DEF Claim
  <2>2. /\ UNCHANGED <<pageVars, wire, crashes, view, redelivered, receiverVars, phase, settled, acked>>
        /\ rows' = [rows EXCEPT ![d][n] = "live"]
        /\ sender' = [sender EXCEPT ![d].pc = "claimed"]
        /\ started' = started \/ started' = [started EXCEPT ![d] = @ \cup {n}]
    BY <1>1 DEF Claim, Start
  <2>3. /\ sender' \in [Deliveries -> Senders]
        /\ \A e \in Deliveries : sender'[e].got = sender[e].got /\ sender'[e].peer = sender[e].peer
    BY <1>0, <2>2 DEF Senders
  <2>4. started' \in [Deliveries -> SUBSET Numbers]
    <3>1. started \in [Deliveries -> SUBSET Numbers]
      BY DEF TypeInv
    <3> QED
      BY <2>1, <2>2, <3>1
  <2>5. /\ rows' \in [Deliveries -> [Numbers -> {"none", "live", "purged"}]]
        /\ \A e \in Deliveries, m \in Numbers :
               rows'[e][m] = rows[e][m] \/ (e = d /\ m = n /\ rows'[e][m] = "live")
    <3>1. rows \in [Deliveries -> [Numbers -> {"none", "live", "purged"}]]
      BY DEF TypeInv
    <3> QED
      BY <2>1, <2>2, <3>1
  <2>6. TypeInv'
    BY <2>2, <2>3, <2>4, <2>5 DEF TypeInv
  <2>7. RequestInv' /\ PageInv'
    <3>1. phase[d] = "owed" /\ \A e \in Deliveries \ {d} : sender'[e] = sender[e]
      BY <1>0, <1>1, <2>2 DEF Claim
    <3> QED
      BY <2>2, <3>1 DEF RequestInv, PageInv
  <2>8. SecretFirst' /\ NoBlockedConnect'
    BY <2>2, <2>3 DEF SecretFirst, NoBlockedConnect
  <2>9. BudgetInv' /\ ViewInv'
    BY <2>2 DEF BudgetInv, ViewInv
  <2>10. RowInv'
    <3>1. ASSUME NEW e \in Deliveries, NEW m \in started'[e] PROVE rows'[e][m] # "none"
      <4>1. m \in Numbers
        BY <2>4
      <4>2. m \in started[e] \/ (e = d /\ m = n)
        BY <2>2, <3>1 DEF TypeInv
      <4>3. rows'[d][n] = "live"
        BY <2>1, <2>2 DEF TypeInv
      <4> QED
        BY <2>5, <4>1, <4>2, <4>3 DEF RowInv
    <3>2. ASSUME NEW e \in Deliveries PROVE 1 .. settled'[e] \subseteq started'[e]
      BY <2>2, ZenonT(60) DEF TypeInv, RowInv
    <3> QED
      BY <3>1, <3>2 DEF RowInv
  <2>11. AttemptsCover'
    <3> SUFFICES ASSUME view.pc = "done", NEW m \in 1 .. view.count
                 PROVE  m \in view.listed \/ rows'[view.id][m] = "purged"
      BY <2>2 DEF AttemptsCover
    <3>1. view.id \in Deliveries /\ view.count \in Nat /\ view.count <= settled[view.id]
      BY DEF ViewInv
    <3>2. settled[view.id] \in Nat /\ settled[d] \in Nat
      BY <3>1 DEF TypeInv
    <3>3. m \in started[view.id] /\ m \in Numbers
      <4>1. m \in 1 .. settled[view.id]
        BY <3>1, <3>2
      <4> QED
        BY <3>1, <4>1 DEF RowInv, TypeInv
    <3>4. ~(view.id = d /\ m = n)
      BY <3>1, <3>2
    <3>5. m \in view.listed \/ rows[view.id][m] = "purged"
      BY DEF AttemptsCover
    <3> QED
      BY <2>5, <3>1, <3>3, <3>4, <3>5
  <2> QED
    BY <2>2, <2>6, <2>7, <2>8, <2>9, <2>10, <2>11, ReceiverFrame
<1>2. CASE Connect(d)
  <2>1. UNCHANGED <<pageVars, ledgerVars, crashes, rows, view, redelivered, receiverVars>>
    BY <1>2 DEF Connect
  <2>2. /\ sender' \in [Deliveries -> Senders]
        /\ \A e \in Deliveries : sender'[e].got = "401" => sender[e].got = "401"
        /\ NoBlockedConnect'
    <3>1. CASE Got(d, "none")
      <4>1. [sender[d] EXCEPT !.pc = "done", !.got = "none"] \in Senders
        BY <1>0 DEF Senders
      <4> QED
        BY <1>0, <3>1, <4>1 DEF Got, NoBlockedConnect, Senders
    <3>2. ASSUME NEW answer \in Answers,
                 NEW ip \in HostAddresses(endpoint[d].url, answer),
                 AddressesPass(HostAddresses(endpoint[d].url, answer)),
                 sender' = [sender EXCEPT ![d] = [@ EXCEPT !.pc = "waiting", !.peer = {ip}]]
          PROVE /\ sender' \in [Deliveries -> Senders]
                /\ \A e \in Deliveries : sender'[e].got = sender[e].got
                /\ NoBlockedConnect'
      <4> DEFINE new == [sender[d] EXCEPT !.pc = "waiting", !.peer = {ip}]
      <4>1. ip \in Address
        <5>1. \A i \in Address : hostname(i) \in Address
          BY DEF hostname, Address
        <5>2. endpoint[d].url.ip \subseteq Address /\ answer \subseteq Address
          BY ExchangeAssumption DEF TypeInv
        <5> QED
          BY <5>1, <5>2 DEF HostAddresses
      <4>2. AllowPrivateDestinations \/ (Internal(ip) => ip.kind = "hex")
        BY <3>2, <4>1, RulesAreExact DEF AddressesPass
      <4>3. new \in Senders /\ new.got = sender[d].got /\ new.peer = {ip}
        BY <1>0, <4>1 DEF Senders
      <4>4. sender' = [sender EXCEPT ![d] = new]
        BY <3>2
      <4> HIDE DEF new
      <4> QED
        BY <1>0, <4>2, <4>3, <4>4 DEF NoBlockedConnect
    <3>3. \/ Got(d, "none")
          \/ \E answer \in Answers :
                 /\ AddressesPass(HostAddresses(endpoint[d].url, answer))
                 /\ \E ip \in HostAddresses(endpoint[d].url, answer) : sender' =
                        [sender EXCEPT ![d] = [@ EXCEPT !.pc = "waiting", !.peer = {ip}]]
      BY <1>2, Zenon DEF Connect
    <3> QED
      BY <3>1, <3>2, <3>3
  <2>3. wire' = wire \/ wire' = wire \cup {Request(d)}
    BY <1>2, Zenon DEF Connect
  <2>4. RequestInv'
    <3>1. phase[d] # "none"
      BY <1>2 DEF Connect, RequestInv
    <3>2. \A e \in Deliveries \ {d} : sender'[e] = sender[e]
      BY <1>0, <1>2 DEF Connect, Got
    <3> QED
      BY <2>1, <2>3, <3>1, <3>2 DEF RequestInv, Request
  <2>5. TypeInv' /\ PageInv'
    BY <2>1, <2>2 DEF TypeInv, PageInv
  <2>6. SecretFirst'
    BY <2>1, <2>2 DEF SecretFirst
  <2> QED
    BY <2>1, <2>2, <2>4, <2>5, <2>6, LedgerFrame, ReceiverFrame
<1>3. CASE GiveUp(d)
  <2>1. UNCHANGED <<pageVars, ledgerVars, wire, crashes, rows, view, redelivered, receiverVars>>
    BY <1>3 DEF GiveUp
  <2>2. [sender[d] EXCEPT !.pc = "done", !.got = "none"] \in Senders
    BY <1>0 DEF Senders
  <2>3. /\ sender' \in [Deliveries -> Senders]
        /\ \A e \in Deliveries : /\ sender'[e].got = "401" => sender[e].got = "401"
                                 /\ sender'[e].peer = sender[e].peer
                                 /\ sender'[e].pc # "idle" => sender[e].pc # "idle"
    BY <1>0, <1>3, <2>2 DEF GiveUp, Got, Senders
  <2>4. TypeInv' /\ PageInv' /\ RequestInv'
    BY <2>1, <2>3 DEF TypeInv, PageInv, RequestInv
  <2>5. SecretFirst' /\ NoBlockedConnect'
    BY <2>1, <2>3 DEF SecretFirst, NoBlockedConnect
  <2> QED
    BY <2>1, <2>4, <2>5, LedgerFrame, ReceiverFrame
<1>4. CASE Finish(d)
  <2> DEFINE n == settled[d] + 1
  <2>1. /\ UNCHANGED <<pageVars, wire, crashes, rows, view, redelivered, receiverVars, started, acked>>
        /\ sender' = [sender EXCEPT ![d] = Idle]
        /\ settled' = [settled EXCEPT ![d] = n]
        /\ phase[d] = "owed" /\ n \in started[d]
        /\ phase' = [phase EXCEPT ![d] = IF n \in acked[d] THEN "succeeded"
                                         ELSE IF n >= MaxAttempts THEN "dead" ELSE "owed"]
    BY <1>4 DEF Finish, Settle
  <2>2. /\ sender' \in [Deliveries -> Senders]
        /\ \A e \in Deliveries : /\ sender'[e].got = "401" => sender[e].got = "401"
                                 /\ sender'[e].peer \subseteq sender[e].peer
                                 /\ sender'[e].pc # "idle" => sender[e].pc # "idle"
    BY <1>0, <2>1, IdleType
  <2>3. /\ settled \in [Deliveries -> Nat] /\ settled' \in [Deliveries -> Nat]
        /\ settled'[d] = n /\ \A e \in Deliveries \ {d} : settled'[e] = settled[e]
    BY <2>1 DEF TypeInv
  <2>4. /\ phase' \in [Deliveries -> {"none", "owed", "succeeded", "dead"}]
        /\ \A e \in Deliveries : phase[e] # "none" <=> phase'[e] # "none"
        /\ \A e \in Deliveries \ {d} : phase'[e] = phase[e]
        /\ phase'[d] = "owed" => ~(n >= MaxAttempts)
    BY <2>1 DEF TypeInv
  <2>5. TypeInv' /\ PageInv' /\ RequestInv'
    BY <2>1, <2>2, <2>3, <2>4 DEF TypeInv, PageInv, RequestInv
  <2>6. SecretFirst' /\ NoBlockedConnect'
    BY <2>1, <2>2 DEF SecretFirst, NoBlockedConnect
  <2>7. BudgetInv'
    <3>1. redelivered \in Nat /\ redelivered' = redelivered
      BY <2>1, Bounds DEF TypeInv
    <3>2. settled[d] \in Nat /\ settled[d] < MaxAttempts + redelivered
      BY <2>1 DEF TypeInv, BudgetInv
    <3>3. n <= MaxAttempts + redelivered /\ (phase'[d] \in {"none", "owed"} => n < MaxAttempts + redelivered)
      BY <2>1, <2>4, <3>1, <3>2, Bounds
    <3> QED
      BY <2>3, <2>4, <3>1, <3>3 DEF BudgetInv
  <2>8. RowInv'
    <3>1. 1 .. settled'[d] \subseteq started[d]
      <4>1. 1 .. settled[d] \subseteq started[d]
        BY DEF RowInv
      <4>2. \A m \in 1 .. n : m \in 1 .. settled[d] \/ m = n
        BY <2>3
      <4> QED
        BY <2>1, <2>3, <4>1, <4>2
    <3> QED
      BY <2>1, <2>3, <3>1 DEF RowInv
  <2>9. ViewInv' /\ AttemptsCover'
    <3>1. \A e \in Deliveries : settled[e] \in Nat /\ settled'[e] \in Nat /\ settled[e] <= settled'[e]
      BY <2>3
    <3> QED
      BY <2>1, <3>1 DEF ViewInv, AttemptsCover
  <2> QED
    BY <2>1, <2>5, <2>6, <2>7, <2>8, <2>9, ReceiverFrame
<1>5. CASE Crash(d)
  <2>1. /\ UNCHANGED <<pageVars, ledgerVars, wire, rows, view, redelivered, receiverVars>>
        /\ sender' = [sender EXCEPT ![d] = Idle]
    BY <1>5 DEF Crash
  <2>2. /\ sender' \in [Deliveries -> Senders]
        /\ \A e \in Deliveries : /\ sender'[e].got = "401" => sender[e].got = "401"
                                 /\ sender'[e].peer \subseteq sender[e].peer
                                 /\ sender'[e].pc # "idle" => sender[e].pc # "idle"
    BY <1>0, <2>1, IdleType
  <2>3. TypeInv' /\ PageInv' /\ RequestInv'
    BY <2>1, <2>2 DEF TypeInv, PageInv, RequestInv
  <2>4. SecretFirst' /\ NoBlockedConnect'
    BY <2>1, <2>2 DEF SecretFirst, NoBlockedConnect
  <2> QED
    BY <2>1, <2>3, <2>4, LedgerFrame, ReceiverFrame
<1> QED
  BY <1>1, <1>2, <1>3, <1>4, <1>5

\* The receiver: a request is handled, a timer runs, the process restarts.
LEMMA ReceiverStep ==
    ASSUME ExchangeInv,
           \/ \E r \in wire : Receive(r)
           \/ \E r \in timers : SlowAnswer(r)
           \/ \E secret \in EnvSecrets : ReceiverRestart(secret)
    PROVE  ExchangeInv'
<1> USE DEF ExchangeInv
<1>1. ASSUME NEW r \in wire, Receive(r) PROVE ExchangeInv'
  <2>1. PICK inTime \in BOOLEAN, status \in {"200", "400", "401", "500", ""} :
            /\ \/ Refuse(r, inTime, status)
               \/ Hooks(r, inTime, status)
               \/ HooksFail(r, inTime, status)
               \/ HooksSlow(r, inTime, status)
            /\ Answer(r, status)
    BY <1>1 DEF Receive
  <2>2. UNCHANGED <<pageVars, crashes, rows, view, redelivered>> /\ wire' = wire \ {r}
    BY <1>1 DEF Receive
  <2>3. /\ r.id \in Deliveries /\ phase[r.id] # "none"
        /\ r.signature = signDeliveryBody(r.id, r.id)
    BY <1>1 DEF RequestInv
  <2>4. /\ UNCHANGED <<secrets, restarts, onFile, cut>> /\ timers' \subseteq timers \cup {r}
        /\ UNCHANGED <<processed, effects, dropped>> \/ (status = "200" /\ consume(r.id))
        /\ status = "200" => consume(r.id)
        /\ status = "401" => verify(r, inTime) = "401"
    BY <2>1, Zenon DEF Refuse, Hooks, HooksFail, HooksSlow, verify
  <2>5. status = "401" => told[r.id] = "lost" \/ r.id \in early
    <3>1. verify(r, inTime) = "401" => r.id \notin secrets
      BY <2>3 DEF verify
    <3>2. told[r.id] \in {"no", "kept", "lost"}
      BY <2>3 DEF TypeInv
    <3> QED
      BY <2>3, <2>4, <3>1, <3>2 DEF PageInv
  <2>6. /\ processed' \subseteq Deliveries /\ effects' \in [Deliveries -> Nat]
        /\ EffectInv'
        /\ status = "200" => effects'[r.id] > 0 \/ r.id \in dropped' \cup cut
        /\ dropped \subseteq dropped'
        /\ \A d \in Deliveries : effects[d] > 0 => effects'[d] > 0
    <3>1. CASE consume(r.id)
      BY <2>3, <2>4, <3>1, ConsumeKeeps
    <3>2. CASE ~consume(r.id)
      BY <2>4, <3>2 DEF TypeInv, EffectInv
    <3> QED
      BY <3>1, <3>2
  <2>7. /\ phase' = phase /\ settled' = settled /\ started' = started
        /\ \A d \in Deliveries : sender'[d].pc # "idle" => phase[d] # "none"
        /\ acked' \in [Deliveries -> SUBSET Numbers]
        /\ sender' \in [Deliveries -> Senders]
        /\ AckedIsProcessed' /\ SecretFirst' /\ NoBlockedConnect'
    BY <2>1, <2>2, <2>3, <2>4, <2>5, <2>6, AnswerKeeps
  <2>8. TypeInv' /\ PageInv'
    BY <2>2, <2>4, <2>6, <2>7 DEF TypeInv, PageInv
  <2>9. RequestInv'
    BY <2>2, <2>3, <2>4, <2>7 DEF RequestInv
  <2> QED
    BY <2>2, <2>6, <2>7, <2>8, <2>9, LedgerFrame
<1>2. ASSUME NEW r \in timers, SlowAnswer(r) PROVE ExchangeInv'
  <2>1. UNCHANGED <<pageVars, wire, crashes, rows, view, redelivered>> /\ Answer(r, "200")
    BY <1>2 DEF SlowAnswer
  <2>2. /\ UNCHANGED <<secrets, restarts, onFile, cut>> /\ timers' \subseteq timers
        /\ consume(r.id)
    BY <1>2 DEF SlowAnswer, SlowTimer
  <2>3. r.id \in Deliveries
    BY <1>2 DEF RequestInv
  <2>4. /\ processed' \subseteq Deliveries /\ effects' \in [Deliveries -> Nat]
        /\ EffectInv'
        /\ effects'[r.id] > 0 \/ r.id \in dropped' \cup cut
        /\ dropped \subseteq dropped'
        /\ \A d \in Deliveries : effects[d] > 0 => effects'[d] > 0
    BY <2>2, <2>3, ConsumeKeeps
  <2>5. /\ phase' = phase /\ settled' = settled /\ started' = started
        /\ \A d \in Deliveries : sender'[d].pc # "idle" => phase[d] # "none"
        /\ acked' \in [Deliveries -> SUBSET Numbers]
        /\ sender' \in [Deliveries -> Senders]
        /\ AckedIsProcessed' /\ SecretFirst' /\ NoBlockedConnect'
    BY <2>1, <2>2, <2>3, <2>4, AnswerKeeps
  <2>6. TypeInv' /\ PageInv'
    BY <2>1, <2>2, <2>4, <2>5 DEF TypeInv, PageInv
  <2>7. RequestInv'
    BY <2>1, <2>2, <2>5 DEF RequestInv
  <2> QED
    BY <2>1, <2>4, <2>5, <2>6, <2>7, LedgerFrame
<1>3. ASSUME NEW secret \in EnvSecrets, ReceiverRestart(secret) PROVE ExchangeInv'
  <2>1. PICK stored \in SUBSET Deliveries :
            /\ secrets' = {secret} /\ timers' = {} /\ wire' \subseteq wire
            /\ processed' = IF onFile THEN processed \cup stored ELSE {}
            /\ cut' = IF onFile THEN cut \cup (stored \ processed) ELSE cut
            /\ restarts' = restarts + 1
            /\ UNCHANGED <<onFile, effects, dropped>>
    <3>1. \A r \in wire \cup timers : {r.id} \in SUBSET Deliveries
      BY DEF RequestInv
    <3>2. \/ Restart(secret, {}) /\ UNCHANGED wire
          \/ \E r \in wire : HooksKilled(secret, r, TRUE) /\ wire' = wire \ {r}
          \/ \E r \in timers : SlowTimerKilled(secret, r) /\ UNCHANGED wire
      BY <1>3 DEF ReceiverRestart
    <3>3. \E stored \in SUBSET Deliveries : Restart(secret, stored) /\ wire' \subseteq wire
      BY <3>1, <3>2 DEF HooksKilled, SlowTimerKilled
    <3> QED
      BY <3>3, Zenon DEF Restart
  <2>2. /\ UNCHANGED <<page, early, endpoint, ledgerVars, sender, crashes, rows, view, redelivered>>
        /\ told' = [e \in Deliveries |->
                       IF told[e] = "kept" /\ e # secret THEN "lost" ELSE told[e]]
    BY <1>3 DEF ReceiverRestart
  <2>3. TypeInv'
    BY <2>1, <2>2 DEF TypeInv
  <2>4. RequestInv' /\ NoBlockedConnect'
    BY <2>1, <2>2 DEF RequestInv, NoBlockedConnect
  <2>5. PageInv'
    BY <2>1, <2>2 DEF TypeInv, PageInv
  <2>6. SecretFirst'
    BY <2>2 DEF TypeInv, SecretFirst
  <2>7. EffectInv'
    <3>1. CASE onFile
      BY <2>1, <3>1 DEF TypeInv, EffectInv
    <3>2. CASE ~onFile
      BY <2>1, <3>2 DEF TypeInv, EffectInv
    <3> QED
      BY <3>1, <3>2
  <2>8. AckedIsProcessed'
    BY <2>1, <2>2 DEF AckedIsProcessed
  <2> QED
    BY <2>2, <2>3, <2>4, <2>5, <2>6, <2>7, <2>8, LedgerFrame
<1> QED
  BY <1>1, <1>2, <1>3

\* The tenant who redelivers and reads, and the purge job.
LEMMA TenantStep ==
    ASSUME ExchangeInv, NEW d \in Deliveries,
           Redeliver(d) \/ Attempts(d) \/ \E k \in Numbers : Purge(d, k)
    PROVE  ExchangeInv'
<1> USE DEF ExchangeInv
<1>1. CASE Redeliver(d)
  <2>1. /\ UNCHANGED <<pageVars, sendVars, rows, view, receiverVars, settled, started, acked>>
        /\ phase[d] # "none" /\ phase' = [phase EXCEPT ![d] = "owed"]
        /\ redelivered < MaxRedeliveries /\ redelivered' = redelivered + 1
    BY <1>1 DEF Redeliver, Reopen
  <2>2. /\ phase' \in [Deliveries -> {"none", "owed", "succeeded", "dead"}]
        /\ \A e \in Deliveries : phase[e] # "none" <=> phase'[e] # "none"
        /\ \A e \in Deliveries \ {d} : phase'[e] = phase[e]
    BY <2>1 DEF TypeInv
  <2>3. redelivered' \in 0 .. MaxRedeliveries
    BY <2>1, Bounds DEF TypeInv
  <2>4. TypeInv' /\ PageInv' /\ RequestInv'
    BY <2>1, <2>2, <2>3 DEF TypeInv, PageInv, RequestInv
  <2>5. BudgetInv'
    <3>1. ASSUME NEW e \in Deliveries
          PROVE settled'[e] < MaxAttempts + redelivered'
      <4>1. settled[e] \in Nat /\ redelivered \in Nat
        BY DEF TypeInv
      <4>2. settled[e] <= MaxAttempts + redelivered
        BY DEF BudgetInv
      <4>3. settled' = settled /\ redelivered' = redelivered + 1
        BY <2>1
      <4> QED
        BY <4>1, <4>2, <4>3, Bounds
    <3>2. \A e \in Deliveries : settled'[e] \in Nat
      BY <2>1 DEF TypeInv
    <3>3. MaxAttempts + redelivered' \in Nat
      <4>1. redelivered \in Nat
        BY DEF TypeInv
      <4> QED
        BY <4>1, <2>1, Bounds
    <3> QED
      BY <3>1, <3>2, <3>3 DEF BudgetInv
  <2>6. RowInv' /\ ViewInv' /\ AttemptsCover' /\ SecretFirst' /\ NoBlockedConnect'
    BY <2>1 DEF RowInv, ViewInv, AttemptsCover, SecretFirst, NoBlockedConnect
  <2> QED
    BY <2>1, <2>4, <2>5, <2>6, ReceiverFrame
<1>2. CASE Attempts(d)
  <2>1. UNCHANGED <<pageVars, ledgerVars, sendVars, rows, redelivered, receiverVars>>
    BY <1>2 DEF Attempts
  <2>2. settled[d] \in Nat /\ Live(d) \in SUBSET Numbers
    BY DEF TypeInv, Live
  <2>3. TypeInv' /\ PageInv' /\ RequestInv' /\ BudgetInv' /\ RowInv'
    BY <2>1 DEF TypeInv, PageInv, RequestInv, BudgetInv, RowInv
  <2>4. SecretFirst' /\ NoBlockedConnect'
    BY <2>1 DEF SecretFirst, NoBlockedConnect
  <2>5. CASE view' = [pc |-> "row", id |-> d, count |-> settled[d], listed |-> {}]
    <3>1. ViewInv' /\ AttemptsCover'
      BY <2>1, <2>2, <2>5 DEF ViewInv, AttemptsCover
    <3> QED
      BY <2>1, <2>3, <2>4, <3>1, ReceiverFrame
  <2>6. CASE /\ view.pc = "row" /\ view.id = d
             /\ view' = [view EXCEPT !.pc = "done", !.listed = Live(d)]
    <3>1. /\ view' \in [pc : {"row", "done"}, id : Deliveries, count : Nat, listed : SUBSET Numbers]
          /\ view'.pc = "done" /\ view'.id = d /\ view'.count = view.count /\ view'.listed = Live(d)
          /\ view.count \in Nat /\ view.count <= settled[d]
      BY <2>2, <2>6 DEF ViewInv
    <3>2. ASSUME NEW m \in 1 .. view.count PROVE m \in Live(d) \/ rows[d][m] = "purged"
      <4>1. m \in 1 .. settled[d]
        BY <2>2, <3>1
      <4>2. m \in Numbers /\ rows[d][m] # "none" /\ rows[d][m] \in {"none", "live", "purged"}
        BY <4>1 DEF RowInv, TypeInv
      <4> QED
        BY <4>2 DEF Live
    <3>3. ViewInv' /\ AttemptsCover'
      BY <2>1, <3>1, <3>2 DEF ViewInv, AttemptsCover
    <3> QED
      BY <2>1, <2>3, <2>4, <3>3, ReceiverFrame
  <2> QED
    BY <1>2, <2>5, <2>6 DEF Attempts
<1>3. ASSUME NEW k \in Numbers, Purge(d, k) PROVE ExchangeInv'
  <2>1. UNCHANGED <<pageVars, ledgerVars, sendVars, view, redelivered, receiverVars>>
    BY <1>3 DEF Purge
  <2>2. /\ rows' \in [Deliveries -> [Numbers -> {"none", "live", "purged"}]]
        /\ \A e \in Deliveries, m \in Numbers :
               rows'[e][m] = rows[e][m] \/ (rows[e][m] = "live" /\ rows'[e][m] = "purged")
    <3>1. rows \in [Deliveries -> [Numbers -> {"none", "live", "purged"}]]
      BY DEF TypeInv
    <3> DEFINE new == [n \in Numbers |-> IF n <= k /\ rows[d][n] = "live" THEN "purged" ELSE rows[d][n]]
    <3>2. rows' = [rows EXCEPT ![d] = new]
      BY <1>3 DEF Purge
    <3>3. /\ new \in [Numbers -> {"none", "live", "purged"}]
          /\ \A m \in Numbers : new[m] = rows[d][m] \/ (rows[d][m] = "live" /\ new[m] = "purged")
      BY <3>1
    <3> HIDE DEF new
    <3> QED
      BY <3>1, <3>2, <3>3
  <2>3. TypeInv' /\ PageInv' /\ RequestInv' /\ BudgetInv' /\ ViewInv'
    BY <2>1, <2>2 DEF TypeInv, PageInv, RequestInv, BudgetInv, ViewInv
  <2>4. SecretFirst' /\ NoBlockedConnect'
    BY <2>1 DEF SecretFirst, NoBlockedConnect
  <2>5. RowInv'
    <3>1. \A e \in Deliveries : started[e] \subseteq Numbers
      BY DEF TypeInv
    <3> QED
      BY <2>1, <2>2, <3>1 DEF RowInv
  <2>6. AttemptsCover'
    <3> SUFFICES ASSUME view.pc = "done", NEW m \in 1 .. view.count
                 PROVE  m \in view.listed \/ rows'[view.id][m] = "purged"
      BY <2>1 DEF AttemptsCover
    <3>1. view.id \in Deliveries /\ view.count \in Nat /\ view.count <= settled[view.id]
      BY DEF ViewInv
    <3>2. settled[view.id] \in Nat
      BY <3>1 DEF TypeInv
    <3>3. m \in 1 .. settled[view.id]
      BY <3>1, <3>2
    <3>4. m \in Numbers
      BY <3>1, <3>3 DEF RowInv, TypeInv
    <3>5. m \in view.listed \/ rows[view.id][m] = "purged"
      BY DEF AttemptsCover
    <3> QED
      BY <2>2, <3>1, <3>4, <3>5
  <2> QED
    BY <2>1, <2>3, <2>4, <2>5, <2>6, ReceiverFrame
<1> QED
  BY <1>1, <1>2, <1>3

\* The inductive invariant holds in every reachable state.
LEMMA ExchangeInvariant == Spec => []ExchangeInv
<1>1. ASSUME ExchangeInv, [Next]_vars PROVE ExchangeInv'
  <2>1. CASE UNCHANGED vars
    BY <1>1, <2>1
       DEF vars, ExchangeInv, TypeInv, RequestInv, EffectInv, PageInv, BudgetInv, RowInv, ViewInv,
           AckedIsProcessed, SecretFirst, NoBlockedConnect, AttemptsCover
  <2>2. CASE Next
    BY <1>1, <2>2, ConsoleStep, WorkerStep, TenantStep, ReceiverStep DEF Next
  <2> QED
    BY <1>1, <2>1, <2>2
<1> QED
  BY ExchangeInit, <1>1, PTL DEF Spec

-----------------------------------------------------------------------------
(* Results *)

\* However attempts are repeated, time out, wait for timers and are redelivered, a
\* delivery has its effect once, plus once for each restart that lost the table.
THEOREM ProcessedOnce == Spec => []EffectOnce
<1>1. ExchangeInv => EffectOnce
  <2> SUFFICES ASSUME ExchangeInv, NEW d \in Deliveries
               PROVE  effects[d] <= 1 + (IF onFile THEN 0 ELSE restarts)
    BY DEF EffectOnce
  <2>1. effects[d] \in Nat /\ restarts \in Nat
    BY DEF ExchangeInv, TypeInv
  <2>2. effects[d] <= (IF d \in processed THEN 1 ELSE 0) + (IF onFile THEN 0 ELSE restarts)
    BY DEF ExchangeInv, EffectInv
  <2>3. CASE onFile
    BY <2>1, <2>2, <2>3
  <2>4. CASE ~onFile
    BY <2>1, <2>2, <2>4
  <2> QED
    BY <2>3, <2>4
<1> QED
  BY ExchangeInvariant, <1>1, PTL

\* What counts as delivered was processed, or its INSERT failed for another reason than
\* the key, or a process that ended between INSERT and processing left it in the file:
\* late answers, timers, retries and restarts of an in-memory table lose nothing.
THEOREM DeliveredMeansProcessed == Spec => []AckedIsProcessed
<1>1. ExchangeInv => AckedIsProcessed
  BY DEF ExchangeInv
<1> QED
  BY ExchangeInvariant, <1>1, PTL

\* The receiver refuses the signature of an event only if the secret was lost on its way
\* or in a restart; that of a ping also when it came before the secret.
THEOREM SecretsInTime == Spec => []SecretFirst
<1>1. ExchangeInv => SecretFirst
  BY DEF ExchangeInv
<1> QED
  BY ExchangeInvariant, <1>1, PTL

\* No connection is made to an internal address, whatever the resolver answers and
\* whatever literal is registered, other than a mapped literal.
THEOREM ConnectionsAreSafe == Spec => []NoBlockedConnect
<1>1. ExchangeInv => NoBlockedConnect
  BY DEF ExchangeInv
<1> QED
  BY ExchangeInvariant, <1>1, PTL

\* The history that a tenant reads has every attempt that was counted and not purged.
THEOREM HistoryIsComplete == Spec => []AttemptsCover
<1>1. ExchangeInv => AttemptsCover
  BY DEF ExchangeInv
<1> QED
  BY ExchangeInvariant, <1>1, PTL
=============================================================================
