--------------------------- MODULE EndToEndProofs ---------------------------
(***************************************************************************)
(* Theorems of EndToEnd for every set of gateways, devices and allowlists, *)
(* every capacity and claim size.                                          *)
(*                                                                         *)
(* TypeOK is inductive by itself; what is said of the firmware and of the  *)
(* deliveries rests on an invariant of its own each, FirmwareInv and       *)
(* DeliveryInv.                                                            *)
(***************************************************************************)
EXTENDS EndToEnd, FiniteSetTheorems, SequenceTheorems, WellFoundedInduction, TLAPS

----------------------------------------------------------------------------
(* The types.                                                              *)

Observations == [mac: Macs, number: Nat]
Decoded == [kind: {"none", "undecoded", "reading"}, number: Nat]

\* The lists a gateway may be started with.
Lists == {ToSet(text) : text \in Texts} \union {FromJson({}, Compiled[g]) : g \in Gateways}

ServerTypes ==
  /\ subscribed \in BOOLEAN
  /\ states \in [Ids -> [error: BOOLEAN, decoded: Decoded]]
  /\ delta \in [id: Ids \union {Never}, reading: Decoded, bit: BOOLEAN]
  /\ inbox \in Seq(Observations)
  /\ path \in [Ids -> Nat] /\ newest \in [Ids -> Nat]

FirmwareTypes ==
  /\ boot \in [Gateways -> BootOutcomes]
  /\ file \in [Gateways -> {ToSet(text) : text \in Texts} \union {NoFile}]
  /\ allowed \in [Gateways -> Lists]
  /\ wanted \in [Gateways -> [now: Lists, booted: Lists]]

QueueTypes ==
  /\ heard \in Nat
  /\ held \in [Gateways -> Seq(Observations)]
  /\ claimed \in [Gateways -> Nat]
  /\ \A g \in Gateways : claimed[g] <= Len(held[g])

TypeOK == ServerTypes /\ FirmwareTypes /\ QueueTypes

----------------------------------------------------------------------------
(* What the operators come to.                                             *)

\* The least of a non-empty set of indices is one of them: the sets 1..i of its
\* members are well-founded by inclusion.
LEMMA LeastIsMember ==
  ASSUME NEW n \in Nat, NEW M \in SUBSET (1..n), M # {}
  PROVE  Min(M) \in M
<1> DEFINE S == 1..n
           T == {1..i : i \in M}
           R == StrictSubsetOrdering(S)
<1>1. IsFiniteSet(S)
  BY FS_Interval
<1>2. IsWellFoundedOn(R, SUBSET S)
  BY <1>1, FS_StrictSubsetOrderingWellFounded, FS_FiniteSubsetsOfFinite
<1>3. T \subseteq SUBSET S /\ T # {}
  <2>1. \A i \in M : 1..i \subseteq S
    OBVIOUS
  <2>2. \A i \in M : 1..i \in T
    OBVIOUS
  <2>3. \E i : i \in M
    OBVIOUS
  <2>4. T \subseteq SUBSET S
    BY <2>1
  <2> QED
    BY <2>2, <2>3, <2>4
<1>4. PICK x \in T : \A y \in T : ~(<<y, x>> \in R)
  <2> HIDE DEF T, R, S
  <2> QED BY <1>2, <1>3, WFMin
<1>5. PICK m \in M : x = 1..m
  BY <1>4
<1>6. \A k \in M : m <= k
  <2> SUFFICES ASSUME NEW k \in M, k < m PROVE FALSE
    OBVIOUS
  <2>1. 1..k \in T /\ 1..k \subseteq 1..m /\ m \in 1..m /\ m \notin 1..k
    OBVIOUS
  <2>2. 1..k \in SUBSET S /\ 1..m \in SUBSET S
    OBVIOUS
  <2>3. <<1..k, 1..m>> \in R
    BY <2>1, <2>2 DEF StrictSubsetOrdering
  <2> QED
    BY <1>4, <1>5, <2>1, <2>3
<1> QED
  BY <1>6 DEF Min

\* The device of an address that is configured is one of the devices.
LEMMA DeviceIsConfigured ==
  ASSUME NEW mac, Matching(mac) # {}
  PROVE  DeviceOf(mac) \in Ids
<1>1. Len(Devices) \in Nat
  BY ConsumerAssumption
<1>2. Matching(mac) \in SUBSET (1..Len(Devices))
  BY DEF Matching
<1>3. Min(Matching(mac)) \in 1..Len(Devices)
  BY <1>1, <1>2, LeastIsMember
<1> QED
  BY <1>3 DEF DeviceOf, Device, Ids

LEMMA MaxOfTwo ==
  ASSUME NEW a \in Nat, NEW b \in Nat
  PROVE  Max({a, b}) = IF a <= b THEN b ELSE a
BY DEF Max

LEMMA MinOfTwo ==
  ASSUME NEW a \in Nat, NEW b \in Nat
  PROVE  Min({a, b}) = IF a <= b THEN a ELSE b
BY DEF Min

\* A sequence taken apart.
LEMMA PartsOf ==
  ASSUME NEW S, NEW s \in Seq(S), NEW c \in 0..Len(s)
  PROVE  /\ SubSeq(s, 1, c) \in Seq(S) /\ Len(SubSeq(s, 1, c)) = c
         /\ \A i \in 1..c : SubSeq(s, 1, c)[i] = s[i]
         /\ SubSeq(s, c + 1, Len(s)) \in Seq(S)
         /\ Len(SubSeq(s, c + 1, Len(s))) = Len(s) - c
         /\ \A i \in 1..Len(s) - c : SubSeq(s, c + 1, Len(s))[i] = s[c + i]
<1>1. Len(s) \in Nat /\ c \in Nat /\ \A i \in 1..Len(s) : s[i] \in S
  BY LenProperties, ElementOfSeq
<1>2. \A i \in 1..c : s[i] \in S
  BY <1>1
<1>3. /\ SubSeq(s, 1, c) \in Seq(S) /\ Len(SubSeq(s, 1, c)) = c
      /\ \A i \in 1..c : SubSeq(s, 1, c)[i] = s[i]
  <2>1. \A i \in 1..c - 1 + 1 : SubSeq(s, 1, c)[i] = s[1 + i - 1]
    BY <1>1, <1>2, SubSeqProperties
  <2>2. Len(SubSeq(s, 1, c)) = IF 1 <= c THEN c - 1 + 1 ELSE 0
    BY <1>1, <1>2, SubSeqProperties
  <2>3. SubSeq(s, 1, c) \in Seq(S)
    BY <1>1, <1>2, SubSeqProperties
  <2> QED
    BY <1>1, <2>1, <2>2, <2>3
<1>4. \A i \in c + 1..Len(s) : s[i] \in S
  BY <1>1
<1> DEFINE m == c + 1
           n == Len(s)
<1>5. m \in Int /\ n \in Int
  BY <1>1
<1>6. /\ SubSeq(s, m, n) \in Seq(S)
      /\ Len(SubSeq(s, m, n)) = IF m <= n THEN n - m + 1 ELSE 0
      /\ \A i \in 1..n - m + 1 : SubSeq(s, m, n)[i] = s[m + i - 1]
  <2> HIDE DEF m, n
  <2>1. \A i \in m..n : s[i] \in S
    BY <1>4 DEF m, n
  <2> QED
    BY <1>5, <2>1, SubSeqProperties
<1>7. \A i \in 1..Len(s) - c : i \in 1..n - m + 1 /\ m + i - 1 = c + i
  BY <1>1
<1> QED
  BY <1>1, <1>3, <1>6, <1>7

\* A queue with room gets one longer; a full one gives up its oldest unclaimed
\* observation.  What is claimed stays where it is.
LEMMA KeepIs ==
  ASSUME TypeOK, NEW g \in Gateways, NEW o \in Observations
  PROVE  LET n == Len(held[g])
             kept == Keep(g, o)
         IN /\ kept \in Seq(Observations)
            /\ IF n - claimed[g] < Capacity
                 THEN /\ Len(kept) = n + 1
                      /\ \A i \in 1..n : kept[i] = held[g][i]
                 ELSE /\ Len(kept) = n
                      /\ \A i \in 1..n - 1 :
                           kept[i] = IF i <= claimed[g] THEN held[g][i] ELSE held[g][i + 1]
            /\ kept[Len(kept)] = o
            /\ claimed[g] < Len(kept)
<1> DEFINE n == Len(held[g])
           c == claimed[g]
           claim == SubSeq(held[g], 1, c)
           rest == SubSeq(held[g], c + 1, n)
           room == IF Len(rest) < Capacity THEN rest ELSE Tail(rest)
<1>1. /\ held[g] \in Seq(Observations) /\ n \in Nat
      /\ c \in Nat /\ c <= n
      /\ \A i \in 1..n : held[g][i] \in Observations
      /\ Capacity \in Nat \ {0}
  <2>1. held[g] \in Seq(Observations) /\ c \in Nat /\ c <= n
    BY DEF TypeOK, QueueTypes
  <2> QED
    BY <2>1, EndToEndAssumption, LenProperties, ElementOfSeq
<1>2. /\ claim \in Seq(Observations) /\ Len(claim) = c
      /\ \A i \in 1..c : claim[i] = held[g][i]
  BY <1>1, PartsOf
<1>3. /\ rest \in Seq(Observations) /\ Len(rest) = n - c
      /\ \A i \in 1..n - c : rest[i] = held[g][c + i]
  <2>1. c \in 0..Len(held[g])
    BY <1>1
  <2> HIDE DEF c
  <2> QED
    BY <1>1, <2>1, PartsOf
<1>4. Keep(g, o) = claim \o Append(room, o)
  BY DEF Keep
<1> HIDE DEF claim, rest
<1>5. n - c < Capacity \/ rest # <<>>
  BY <1>1, <1>3
<1>6. /\ room \in Seq(Observations)
      /\ Len(room) = IF n - c < Capacity THEN n - c ELSE n - c - 1
  BY <1>1, <1>3, <1>5, HeadTailProperties
<1>7. \A i \in 1..Len(room) : room[i] = IF n - c < Capacity THEN held[g][c + i]
                                                          ELSE held[g][c + i + 1]
  <2>1. CASE n - c < Capacity
    BY <1>3, <1>6, <2>1
  <2>2. CASE ~(n - c < Capacity)
    <3>1. rest # <<>> /\ room = Tail(rest)
      BY <1>3, <1>5, <2>2
    <3>2. \A i \in 1..Len(room) : Tail(rest)[i] = rest[i + 1] /\ i + 1 \in 1..n - c
      BY <1>1, <1>3, <1>6, <2>2, <3>1, HeadTailProperties
    <3>3. \A i \in 1..Len(room) : rest[i + 1] = held[g][c + (i + 1)]
                                 /\ c + (i + 1) = c + i + 1
      <4>1. \A i \in 1..Len(room) : i \in Int /\ c \in Int
        BY <1>1, <1>6, <2>2
      <4>2. \A i \in 1..Len(room) : c + (i + 1) = c + i + 1
        BY <4>1
      <4>3. \A i \in 1..Len(room) : rest[i + 1] = held[g][c + (i + 1)]
        BY <1>3, <3>2
      <4> QED
        BY <4>2, <4>3
    <3> QED
      BY <2>2, <3>1, <3>2, <3>3
  <2> QED
    BY <2>1, <2>2
<1> HIDE DEF room
<1> DEFINE more == Append(room, o)
<1>8. /\ more \in Seq(Observations) /\ Len(more) = Len(room) + 1
      /\ \A i \in 1..Len(room) : more[i] = room[i]
      /\ more[Len(room) + 1] = o
  BY <1>6, AppendProperties
<1>9. /\ Keep(g, o) \in Seq(Observations)
      /\ Len(Keep(g, o)) = c + Len(more)
      /\ \A i \in 1..c + Len(more) :
           Keep(g, o)[i] = IF i <= c THEN claim[i] ELSE more[i - c]
  <2> HIDE DEF more
  <2> QED BY <1>2, <1>4, <1>8, ConcatProperties DEF more
<1> HIDE DEF more
<1>10. Len(room) \in Nat
  BY <1>6, LenProperties
<1>11. Keep(g, o)[Len(Keep(g, o))] = o /\ c < Len(Keep(g, o))
  BY <1>1, <1>8, <1>9, <1>10
<1>12. CASE n - c < Capacity
  <2>1. \A i \in 1..n : Keep(g, o)[i] = held[g][i]
    <3> SUFFICES ASSUME NEW i \in 1..n PROVE Keep(g, o)[i] = held[g][i]
      OBVIOUS
    <3>1. CASE i <= c
      BY <1>1, <1>2, <1>6, <1>8, <1>9, <1>10, <1>12, <3>1
    <3>2. CASE ~(i <= c)
      <4>1. i - c \in 1..Len(room) /\ i \in 1..c + Len(more) /\ c + (i - c) = i
        BY <1>1, <1>6, <1>8, <1>10, <1>12, <3>2
      <4>2. Keep(g, o)[i] = more[i - c] /\ more[i - c] = room[i - c]
        BY <1>8, <1>9, <3>2, <4>1
      <4> QED
        BY <1>7, <1>12, <4>1, <4>2
    <3> QED
      BY <3>1, <3>2
  <2> QED
    BY <1>1, <1>6, <1>8, <1>9, <1>11, <1>12, <2>1
<1>13. CASE ~(n - c < Capacity)
  <2>1. \A i \in 1..n - 1 :
           Keep(g, o)[i] = IF i <= c THEN held[g][i] ELSE held[g][i + 1]
    <3> SUFFICES ASSUME NEW i \in 1..n - 1
                 PROVE  Keep(g, o)[i] = IF i <= c THEN held[g][i] ELSE held[g][i + 1]
      OBVIOUS
    <3>0. Len(room) = n - c - 1 /\ n - c >= 1
      BY <1>1, <1>6, <1>13
    <3>1. CASE i <= c
      <4>1. i \in 1..c /\ i \in 1..c + Len(more)
        BY <1>1, <1>8, <3>0, <3>1
      <4> QED
        BY <1>2, <1>9, <3>1, <4>1
    <3>2. CASE ~(i <= c)
      <4>1. i - c \in 1..Len(room) /\ i \in 1..c + Len(more) /\ c + (i - c) + 1 = i + 1
        BY <1>1, <1>8, <3>0, <3>2
      <4>2. Keep(g, o)[i] = more[i - c] /\ more[i - c] = room[i - c]
        BY <1>8, <1>9, <3>2, <4>1
      <4> QED
        BY <1>7, <1>13, <3>2, <4>1, <4>2
    <3> QED
      BY <3>1, <3>2
  <2> QED
    BY <1>1, <1>6, <1>8, <1>9, <1>11, <1>13, <2>1
<1> QED
  BY <1>12, <1>13

----------------------------------------------------------------------------
(* What the actions come to.                                               *)

\* The listener is handed an observation: it publishes its number if the plugin runs
\* and can read it, and nothing otherwise.
LEMMA HandedOver ==
  ASSUME TypeOK, HandOver, NEW o, o = Head(inbox), NEW id, id = DeviceOf(o.mac)
  PROVE  /\ o \in Observations /\ inbox # <<>> /\ inbox' = Tail(inbox)
         /\ ServerTypes' /\ subscribed' = subscribed
         /\ IF subscribed /\ CanRead(o.mac)
              THEN /\ id \in Ids
                   /\ path' = [path EXCEPT ![id] = o.number]
                   /\ newest' = [newest EXCEPT
                                   ![id] = IF @ <= o.number THEN o.number ELSE @]
              ELSE UNCHANGED <<path, newest>>
<1>1. inbox # <<>> /\ inbox' = Tail(inbox)
  BY DEF HandOver
<1>2. /\ subscribed \in BOOLEAN
      /\ states \in [Ids -> [error: BOOLEAN, decoded: Decoded]]
      /\ delta \in [id: Ids \union {Never}, reading: Decoded, bit: BOOLEAN]
      /\ inbox \in Seq(Observations)
      /\ path \in [Ids -> Nat] /\ newest \in [Ids -> Nat]
  BY DEF TypeOK, ServerTypes
<1>3. o \in Observations /\ Tail(inbox) \in Seq(Observations)
  BY <1>1, <1>2, HeadTailProperties
<1>4. o.number \in Nat
  BY <1>3 DEF Observations
<1>5. CASE ~subscribed
  <2>1. UNCHANGED <<subscribed, states, delta, path, newest>>
    BY <1>5 DEF HandOver, OnAdvertisement, pluginVars, consumerVars
  <2> QED
    BY <1>1, <1>2, <1>3, <1>5, <2>1 DEF ServerTypes
<1> DEFINE a == Readout(o)
<1>6. ASSUME subscribed
      PROVE  /\ Accept(o.mac, a) /\ Publish(o.mac, a)
             /\ subscribed' = subscribed
             /\ IF delta' = delta
                  THEN UNCHANGED <<path, newest>>
                  ELSE /\ path' = [path EXCEPT ![delta'.id] = delta'.reading.number]
                       /\ newest' = [newest EXCEPT
                                       ![delta'.id] = Max({@, delta'.reading.number})]
  BY <1>6 DEF HandOver, OnAdvertisement
<1>7. CASE subscribed /\ Matching(o.mac) = {}
  <2>1. Result(o.mac, a) = Nothing
    BY <1>7 DEF Result
  <2>2. UNCHANGED <<states, delta>>
    BY <1>6, <1>7, <2>1 DEF Accept, Publish, Ignore, Nothing
  <2> QED
    BY <1>1, <1>2, <1>3, <1>6, <1>7, <2>2 DEF ServerTypes, CanRead
<1>8. CASE subscribed /\ Matching(o.mac) # {} /\ ~CanRead(o.mac)
  <2>1. id \in Ids
    BY <1>8, DeviceIsConfigured
  <2>2. Result(o.mac, a) = Exception
    BY <1>8 DEF Result, CanRead, Readout, InstantReadout, DecodeEnvelope
  <2>3. states' = [states EXCEPT ![id].error = TRUE]
    BY <1>6, <1>8, <2>2 DEF Accept, Exception, Fail
  <2>4. /\ states' \in [Ids -> [error: BOOLEAN, decoded: Decoded]]
        /\ states'[id].error
    BY <1>2, <2>1, <2>3
  <2>5. delta' = delta
    BY <1>6, <1>8, <2>4 DEF Publish
  <2> QED
    BY <1>1, <1>2, <1>3, <1>6, <1>8, <2>4, <2>5 DEF ServerTypes
<1>9. CASE subscribed /\ CanRead(o.mac)
  <2>1. Matching(o.mac) # {} /\ id \in Ids
    BY <1>9, DeviceIsConfigured DEF CanRead
  <2>2. Result(o.mac, a) = Reading(o.number)
    BY <1>9 DEF Result, CanRead, Readout, InstantReadout, DecodeEnvelope
  <2>3. states' = [states EXCEPT ![id] = [error |-> FALSE, decoded |-> Reading(o.number)]]
    <3>1. Decode(id, Reading(o.number))
      BY <1>6, <1>9, <2>2 DEF Accept, Reading
    <3> QED
      BY <3>1 DEF Decode
  <2>4. Reading(o.number) \in Decoded /\ Reading(o.number).number = o.number
    BY <1>4 DEF Reading, Decoded
  <2>5. /\ states' \in [Ids -> [error: BOOLEAN, decoded: Decoded]]
        /\ ~states'[id].error /\ states'[id].decoded = Reading(o.number)
    BY <1>2, <2>1, <2>3, <2>4
  <2>6. delta' = [id |-> id, reading |-> Reading(o.number), bit |-> ~delta.bit]
    BY <1>6, <1>9, <2>2, <2>5 DEF Publish, IsReading, Message, Reading
  <2>7. delta' # delta
    <3>1. delta'.bit = ~delta.bit /\ delta.bit \in BOOLEAN
      BY <1>2, <2>6
    <3> QED
      BY <3>1
  <2>8. /\ path' = [path EXCEPT ![id] = o.number]
        /\ newest' = [newest EXCEPT ![id] = Max({@, o.number})]
    BY <1>6, <1>9, <2>4, <2>6, <2>7
  <2>9. newest' = [newest EXCEPT ![id] = IF @ <= o.number THEN o.number ELSE @]
    BY <1>2, <1>4, <2>1, <2>8, MaxOfTwo
  <2>10. delta' \in [id: Ids \union {Never}, reading: Decoded, bit: BOOLEAN]
    BY <1>2, <2>1, <2>4, <2>6
  <2>11. path' \in [Ids -> Nat] /\ newest' \in [Ids -> Nat]
    BY <1>2, <1>4, <2>1, <2>8, <2>9
  <2> QED
    BY <1>1, <1>3, <1>6, <1>9, <2>1, <2>5, <2>8, <2>9, <2>10, <2>11 DEF ServerTypes
<1> QED
  BY <1>2, <1>5, <1>7, <1>8, <1>9

\* A device is heard: who keeps it puts it behind all it has.
LEMMA HeardBy ==
  ASSUME TypeOK, NEW mac \in Macs, NEW hearers \in SUBSET Gateways,
         NEW late \in SUBSET hearers, Hear(mac, hearers, late),
         NEW o, o = [mac |-> mac, number |-> heard + 1], NEW g \in Gateways
  PROVE  /\ heard' = heard + 1 /\ claimed' = claimed /\ o \in Observations
         /\ \/ held'[g] = held[g]
            \/ held'[g] = Keep(g, o) /\ Allows(allowed[g], mac)
<1>1. heard \in Nat
  BY DEF TypeOK, QueueTypes
<1>2. heard' = heard + 1 /\ claimed' = claimed
  BY DEF Hear
<1>3. o \in Observations
  BY <1>1 DEF Observations
<1>4. held'[g] = held[g] \/ (held'[g] = Keep(g, o) /\ Allows(allowed[g], mac))
  BY <1>2 DEF Hear
<1> QED
  BY <1>2, <1>3, <1>4

----------------------------------------------------------------------------
(* The invariants.                                                         *)

\* What a gateway was started with is what its operator then wanted; what it has
\* saved is what the operator wants now; and what it holds it has let through.
FirmwareInv ==
  \A g \in Gateways :
    /\ wanted[g].now = Loaded(Compiled[g], file[g])
    /\ wanted[g].booted = allowed[g]
    /\ \A i \in 1..Len(held[g]) : Allows(allowed[g], held[g][i].mac)

\* An observation that the plugin, when it runs, publishes for the device.
IsOf(o, id) == CanRead(o.mac) /\ DeviceOf(o.mac) = id

Ascending(s) == \A i, j \in 1..Len(s) : i < j => s[i].number < s[j].number
HasAny(s, n, id) == \E i \in 1..n : IsOf(s[i], id)
HasNotOlder(s, n, id, number) == \E i \in 1..n : IsOf(s[i], id) /\ number <= s[i].number

\* In the order they were heard, and none from the future.
InOrder ==
  /\ \A g \in Gateways : /\ Ascending(held[g])
                         /\ \A i \in 1..Len(held[g]) : held[g][i].number <= heard
  /\ Ascending(inbox)
  /\ \A i \in 1..Len(inbox) : inbox[i].number <= heard
  /\ \A id \in Ids : newest[id] <= heard

\* With s held and c of it claimed: what the server has of a device is older than all
\* that is unclaimed, and not newer than the newest of the device in the claim, which
\* may have been delivered before.
Covers(s, c, id, number) ==
  /\ \A i \in c + 1..Len(s) : number < s[i].number
  /\ HasAny(s, c, id) => HasNotOlder(s, c, id, number)

Covered ==
  \A g \in Gateways, id \in Ids :
    /\ Covers(held[g], claimed[g], id, newest[id])
    /\ \A k \in 1..Len(inbox) :
         IsOf(inbox[k], id) => Covers(held[g], claimed[g], id, inbox[k].number)

\* The paths show the newest, unless something of the device not older is yet to come.
Shown ==
  \A id \in Ids :
    IF subscribed /\ HasAny(inbox, Len(inbox), id)
      THEN HasNotOlder(inbox, Len(inbox), id, newest[id])
      ELSE path[id] = newest[id]

DeliveryInv == InOrder /\ Covered /\ Shown

----------------------------------------------------------------------------
(* The types are right.                                                    *)

\* A list that is entered, and the one that is loaded.
LEMMA ListsAreRead ==
  ASSUME NEW text, NEW value
  PROVE  /\ Range(text) = ToSet(text)
         /\ FromJson(value, text) = IF NotAMac \in Range(text) THEN value ELSE Range(text)
<1>1. Range(text) = ToSet(text)
  BY DEF Range, ToSet
<1> QED
  BY <1>1 DEF FromJson, Normalize

LEMMA LoadedIsAList ==
  ASSUME NEW g \in Gateways,
         NEW saved \in {ToSet(text) : text \in Texts} \union {NoFile}
  PROVE  Loaded(Compiled[g], saved) \in Lists
BY DEF Loaded, Lists

LEMMA TypeInit == Init => TypeOK
<1> SUFFICES ASSUME Init PROVE TypeOK
  OBVIOUS
<1>1. ServerTypes
  <2>1. /\ subscribed = FALSE /\ states = [id \in Ids |-> NoState] /\ delta = NoDelta
        /\ inbox = <<>> /\ path = [id \in Ids |-> 0] /\ newest = [id \in Ids |-> 0]
    BY DEF Init, ConsumerInit
  <2>2. NoReading \in Decoded
    BY DEF NoReading, Decoded
  <2>3. states \in [Ids -> [error: BOOLEAN, decoded: Decoded]]
    BY <2>1, <2>2 DEF NoState
  <2>4. delta \in [id: Ids \union {Never}, reading: Decoded, bit: BOOLEAN]
    BY <2>1, <2>2 DEF NoDelta
  <2>5. inbox \in Seq(Observations)
    BY <2>1, EmptySeq
  <2> QED
    BY <2>1, <2>3, <2>4, <2>5 DEF ServerTypes
<1>2. FirmwareTypes
  <2>1. \A g \in Gateways : allowed[g] \in Lists
    BY LoadedIsAList DEF Init
  <2> QED
    BY <2>1 DEF Init, FirmwareTypes
<1>3. QueueTypes
  <2>1. <<>> \in Seq(Observations) /\ Len(<<>>) = 0
    BY EmptySeq
  <2> QED
    BY <2>1 DEF Init, QueueTypes
<1> QED
  BY <1>1, <1>2, <1>3 DEF TypeOK

\* What is taken over or settled is whole.
LEMMA QueueSteps ==
  ASSUME TypeOK, NEW g \in Gateways
  PROVE  /\ Claim(g) => /\ held' = held /\ claimed[g] = 0
                        /\ claimed' = [claimed EXCEPT ![g] = claimed'[g]]
                        /\ claimed'[g] \in 1..Len(held[g])
         /\ Arrive(g) => /\ inbox' \in Seq(Observations) /\ Len(inbox') = claimed[g]
                         /\ \A i \in 1..claimed[g] : inbox'[i] = held[g][i]
         /\ Release(g) => /\ held' = [held EXCEPT ![g] = held'[g]]
                          /\ claimed' = [claimed EXCEPT ![g] = 0]
                          /\ held'[g] \in Seq(Observations)
                          /\ Len(held'[g]) = Len(held[g]) - claimed[g]
                          /\ \A i \in 1..Len(held'[g]) : held'[g][i] = held[g][claimed[g] + i]
<1>1. /\ held \in [Gateways -> Seq(Observations)] /\ claimed \in [Gateways -> Nat]
      /\ claimed[g] \in 0..Len(held[g]) /\ held[g] \in Seq(Observations)
      /\ Len(held[g]) \in Nat
  <2>1. /\ held \in [Gateways -> Seq(Observations)] /\ claimed \in [Gateways -> Nat]
        /\ claimed[g] <= Len(held[g])
    BY DEF TypeOK, QueueTypes
  <2> QED
    BY <2>1, LenProperties
<1>2. ASSUME Claim(g)
      PROVE  /\ held' = held /\ claimed[g] = 0
             /\ claimed' = [claimed EXCEPT ![g] = claimed'[g]]
             /\ claimed'[g] \in 1..Len(held[g])
  <2>1. /\ held' = held /\ claimed[g] = 0 /\ held[g] # <<>>
        /\ claimed' = [claimed EXCEPT ![g] = Min({Len(held[g]), Claimable})]
    BY <1>2 DEF Claim
  <2>2. Len(held[g]) > 0
    BY <1>1, <2>1, EmptySeq
  <2>3. Min({Len(held[g]), Claimable}) \in 1..Len(held[g])
    <3>1. Claimable \in Nat /\ Claimable > 0
      BY EndToEndAssumption
    <3>2. Min({Len(held[g]), Claimable}) = IF Len(held[g]) <= Claimable
                                             THEN Len(held[g]) ELSE Claimable
      BY <1>1, <3>1, MinOfTwo
    <3> QED
      BY <1>1, <2>2, <3>1, <3>2
  <2> QED
    BY <1>1, <2>1, <2>3
<1>3. ASSUME Arrive(g)
      PROVE  /\ inbox' \in Seq(Observations) /\ Len(inbox') = claimed[g]
             /\ \A i \in 1..claimed[g] : inbox'[i] = held[g][i]
  BY <1>1, <1>3, PartsOf DEF Arrive
<1>4. ASSUME Release(g)
      PROVE  /\ held' = [held EXCEPT ![g] = held'[g]]
             /\ claimed' = [claimed EXCEPT ![g] = 0]
             /\ held'[g] \in Seq(Observations)
             /\ Len(held'[g]) = Len(held[g]) - claimed[g]
             /\ \A i \in 1..Len(held'[g]) : held'[g][i] = held[g][claimed[g] + i]
  <2>1. /\ held' = [held EXCEPT ![g] = SubSeq(held[g], claimed[g] + 1, Len(held[g]))]
        /\ claimed' = [claimed EXCEPT ![g] = 0]
    BY <1>4 DEF Release
  <2>2. held'[g] = SubSeq(held[g], claimed[g] + 1, Len(held[g]))
    BY <1>1, <2>1
  <2> QED
    BY <1>1, <2>1, <2>2, PartsOf
<1> QED
  BY <1>2, <1>3, <1>4

LEMMA TypeStep == TypeOK /\ [Next]_vars => TypeOK'
<1> SUFFICES ASSUME TypeOK, [Next]_vars PROVE TypeOK'
  OBVIOUS
<1>1. ServerTypes /\ FirmwareTypes /\ QueueTypes
  BY DEF TypeOK
<1>2. ASSUME NEW mac \in Macs, NEW hearers \in SUBSET Gateways,
             NEW late \in SUBSET hearers, Hear(mac, hearers, late)
      PROVE  TypeOK'
  <2>1. /\ heard' \in Nat /\ claimed' = claimed
        /\ \A g \in Gateways : /\ held'[g] \in Seq(Observations)
                               /\ claimed[g] <= Len(held'[g])
    <3> SUFFICES ASSUME NEW g \in Gateways
                 PROVE  /\ heard' \in Nat /\ claimed' = claimed
                        /\ held'[g] \in Seq(Observations) /\ claimed[g] <= Len(held'[g])
      BY <1>2 DEF Hear, TypeOK, QueueTypes
    <3> DEFINE o == [mac |-> mac, number |-> heard + 1]
    <3>1. /\ heard' = heard + 1 /\ claimed' = claimed /\ o \in Observations
          /\ held'[g] = held[g] \/ held'[g] = Keep(g, o)
      BY <1>2, HeardBy
    <3>2. Keep(g, o) \in Seq(Observations) /\ claimed[g] < Len(Keep(g, o))
      BY <3>1, KeepIs
    <3>3. /\ heard \in Nat /\ held[g] \in Seq(Observations) /\ claimed[g] \in Nat
          /\ claimed[g] <= Len(held[g])
      BY <1>1 DEF QueueTypes
    <3>4. Len(Keep(g, o)) \in Nat
      BY <3>2, LenProperties
    <3> HIDE DEF o
    <3> QED
      BY <3>1, <3>2, <3>3, <3>4
  <2>2. held' \in [Gateways -> Seq(Observations)]
    BY <1>2, <2>1 DEF Hear
  <2>3. ServerTypes' /\ FirmwareTypes'
    BY <1>1, <1>2 DEF Hear, pluginVars, consumerVars, firmwareVars, serverVars,
       ServerTypes, FirmwareTypes
  <2> QED
    BY <1>1, <2>1, <2>2, <2>3 DEF TypeOK, QueueTypes
<1>3. ASSUME NEW g \in Gateways, NEW text \in Texts, Edit(g, text)
      PROVE  TypeOK'
  <2>1. FirmwareTypes'
    <3>1. file' = [file EXCEPT ![g] = FromJson(file[g], text)]
      BY <1>3 DEF Edit
    <3>2. FromJson(file[g], text) \in {ToSet(t) : t \in Texts} \union {NoFile}
      BY <1>1, ListsAreRead DEF FirmwareTypes
    <3>3. wanted' = [wanted EXCEPT ![g].now =
                      IF NotAMac \in Range(text) THEN wanted[g].now ELSE Range(text)]
      BY <1>1, <1>3 DEF Edit, FirmwareTypes
    <3>4. Range(text) \in Lists
      BY ListsAreRead DEF Lists
    <3>5. wanted' \in [Gateways -> [now: Lists, booted: Lists]]
      BY <1>1, <3>3, <3>4 DEF FirmwareTypes
    <3>6. boot' = boot /\ allowed' = allowed
      BY <1>3 DEF Edit
    <3> QED
      BY <1>1, <3>1, <3>2, <3>5, <3>6 DEF FirmwareTypes
  <2>2. ServerTypes' /\ QueueTypes'
    BY <1>1, <1>3 DEF Edit, pluginVars, consumerVars, queues, serverVars, ServerTypes,
       QueueTypes
  <2> QED
    BY <2>1, <2>2 DEF TypeOK
<1>4. ASSUME NEW g \in Gateways, Reboot(g)
      PROVE  TypeOK'
  <2>1. FirmwareTypes'
    <3>1. Loaded(Compiled[g], file[g]) \in Lists
      BY <1>1, LoadedIsAList DEF FirmwareTypes
    <3>2. allowed' \in [Gateways -> Lists]
      BY <1>1, <1>4, <3>1 DEF Reboot, FirmwareTypes
    <3>3. wanted' \in [Gateways -> [now: Lists, booted: Lists]]
      BY <1>1, <1>4 DEF Reboot, FirmwareTypes
    <3>4. boot' \in [Gateways -> BootOutcomes] /\ file' = file
      BY <1>1, <1>4 DEF Reboot, FirmwareTypes
    <3> QED
      BY <1>1, <3>2, <3>3, <3>4 DEF FirmwareTypes
  <2>2. <<>> \in Seq(Observations) /\ Len(<<>>) = 0
    BY EmptySeq
  <2>3. QueueTypes'
    BY <1>1, <1>4, <2>2 DEF Reboot, QueueTypes
  <2>4. ServerTypes'
    BY <1>1, <1>4 DEF Reboot, pluginVars, consumerVars, serverVars, ServerTypes
  <2> QED
    BY <2>1, <2>3, <2>4 DEF TypeOK
<1>5. ASSUME NEW g \in Gateways, Claim(g)
      PROVE  TypeOK'
  <2>1. QueueTypes'
    <3>1. /\ held' = held /\ claimed' = [claimed EXCEPT ![g] = claimed'[g]]
          /\ claimed'[g] \in 1..Len(held[g]) /\ Len(held[g]) \in Nat
      BY <1>1, <1>5, QueueSteps, LenProperties DEF QueueTypes
    <3>2. heard' = heard
      BY <1>5 DEF Claim
    <3>3. claimed' \in [Gateways -> Nat]
      BY <1>1, <3>1 DEF QueueTypes
    <3>4. \A h \in Gateways : claimed'[h] <= Len(held[h])
      <4> TAKE h \in Gateways
      <4>1. CASE h = g
        BY <3>1, <4>1
      <4>2. CASE h # g
        BY <1>1, <3>1, <4>2 DEF QueueTypes
      <4> QED
        BY <4>1, <4>2
    <3> QED
      BY <1>1, <3>1, <3>2, <3>3, <3>4 DEF QueueTypes
  <2>2. ServerTypes' /\ FirmwareTypes'
    BY <1>1, <1>5 DEF Claim, pluginVars, consumerVars, firmwareVars, serverVars,
       ServerTypes, FirmwareTypes
  <2> QED
    BY <2>1, <2>2 DEF TypeOK
<1>6. ASSUME NEW g \in Gateways, Arrive(g)
      PROVE  TypeOK'
  <2>1. inbox' \in Seq(Observations)
    BY <1>6, QueueSteps
  <2> QED
    BY <1>1, <1>6, <2>1 DEF Arrive, pluginVars, consumerVars, firmwareVars,
       ServerTypes, FirmwareTypes, QueueTypes, TypeOK
<1>7. ASSUME NEW g \in Gateways, Release(g)
      PROVE  TypeOK'
  <2>1. QueueTypes'
    <3>1. /\ held' = [held EXCEPT ![g] = held'[g]]
          /\ claimed' = [claimed EXCEPT ![g] = 0]
          /\ held'[g] \in Seq(Observations)
      BY <1>7, QueueSteps
    <3>2. Len(held'[g]) \in Nat
      BY <3>1, LenProperties
    <3>3. heard' = heard
      BY <1>7 DEF Release
    <3>4. /\ held' \in [Gateways -> Seq(Observations)]
          /\ claimed' \in [Gateways -> Nat]
      BY <1>1, <3>1 DEF QueueTypes
    <3>5. \A h \in Gateways : claimed'[h] <= Len(held'[h])
      <4> TAKE h \in Gateways
      <4>1. CASE h = g
        BY <1>1, <3>1, <3>2, <4>1 DEF QueueTypes
      <4>2. CASE h # g
        BY <1>1, <3>1, <4>2 DEF QueueTypes
      <4> QED
        BY <4>1, <4>2
    <3> QED
      BY <1>1, <3>3, <3>4, <3>5 DEF QueueTypes
  <2>2. ServerTypes' /\ FirmwareTypes'
    BY <1>1, <1>7 DEF Release, pluginVars, consumerVars, firmwareVars, serverVars,
       ServerTypes, FirmwareTypes
  <2> QED
    BY <2>1, <2>2 DEF TypeOK
<1>8. ASSUME HandOver
      PROVE  TypeOK'
  <2>1. ServerTypes'
    BY <1>8, HandedOver
  <2>2. FirmwareTypes' /\ QueueTypes'
    BY <1>1, <1>8 DEF HandOver, gatewayVars, firmwareVars, queues, FirmwareTypes, QueueTypes
  <2> QED
    BY <2>1, <2>2 DEF TypeOK
<1>9. ASSUME StartPlugin \/ StopPlugin
      PROVE  TypeOK'
  <2>1. /\ subscribed' \in BOOLEAN /\ states' = [id \in Ids |-> NoState] /\ delta' = delta
    BY <1>9 DEF StartPlugin, StopPlugin, Start, Stop, NewConsumer
  <2>2. UNCHANGED <<gatewayVars, serverVars, heard>>
    BY <1>9 DEF StartPlugin, StopPlugin
  <2>3. states' \in [Ids -> [error: BOOLEAN, decoded: Decoded]]
    BY <2>1 DEF NoState, NoReading, Decoded
  <2> QED
    BY <1>1, <2>1, <2>2, <2>3 DEF gatewayVars, firmwareVars, queues, serverVars,
       ServerTypes, FirmwareTypes, QueueTypes, TypeOK
<1>10. CASE UNCHANGED vars
  BY <1>1, <1>10 DEF vars, pluginVars, consumerVars, gatewayVars, firmwareVars, queues,
     serverVars, ServerTypes, FirmwareTypes, QueueTypes, TypeOK
<1> QED
  BY <1>2, <1>3, <1>4, <1>5, <1>6, <1>7, <1>8, <1>9, <1>10 DEF Next, Settle, WriteOff

\* Every variable keeps its type, and a gateway claims no more than it holds.
THEOREM TypeCorrect == Spec => []TypeOK
  BY TypeInit, TypeStep, PTL DEF Spec

----------------------------------------------------------------------------
(* The firmware.                                                           *)

\* What a gateway keeps besides the new observation it held before, in the same order
\* and on the same side of the claim.
LEMMA KeptFrom ==
  ASSUME TypeOK, NEW g \in Gateways, NEW o \in Observations
  PROVE  LET last1 == Len(Keep(g, o)) - 1
         IN \E from \in [1..last1 -> 1..Len(held[g])] :
              /\ \A i \in 1..last1 : /\ Keep(g, o)[i] = held[g][from[i]]
                                    /\ IF i <= claimed[g] THEN from[i] = i
                                                         ELSE from[i] > claimed[g]
              /\ \A i, j \in 1..last1 : i < j => from[i] < from[j]
<1> DEFINE n == Len(held[g])
           c == claimed[g]
           kept == Keep(g, o)
           from1 == [i \in 1..n |-> i]
           from2 == [i \in 1..n - 1 |-> IF i <= c THEN i ELSE i + 1]
<1>1. n \in Nat /\ c \in Nat /\ c <= n
  <2>1. held[g] \in Seq(Observations) /\ c \in Nat /\ c <= n
    BY DEF TypeOK, QueueTypes
  <2> QED
    BY <2>1, LenProperties
<1>2. IF n - c < Capacity
        THEN /\ Len(kept) = n + 1
             /\ \A k \in 1..n : kept[k] = held[g][k]
        ELSE /\ Len(kept) = n
             /\ \A k \in 1..n - 1 :
                  kept[k] = IF k <= c THEN held[g][k] ELSE held[g][k + 1]
  BY KeepIs
<1> HIDE DEF n, c, kept
<1>3. CASE n - c < Capacity
  <2>1. Len(kept) - 1 = n
    BY <1>1, <1>2, <1>3
  <2>2. from1 \in [1..n -> 1..n]
    OBVIOUS
  <2>3. \A i \in 1..n : kept[i] = held[g][from1[i]]
    BY <1>2, <1>3
  <2>4. \A i \in 1..n : IF i <= c THEN from1[i] = i ELSE from1[i] > c
    BY <1>1
  <2>5. \A i, j \in 1..n : i < j => from1[i] < from1[j]
    OBVIOUS
  <2> HIDE DEF from1
  <2> QED
    BY <2>1, <2>2, <2>3, <2>4, <2>5 DEF n, c, kept
<1>4. CASE ~(n - c < Capacity)
  <2>1. Len(kept) - 1 = n - 1
    BY <1>2, <1>4
  <2>2. from2 \in [1..n - 1 -> 1..n]
    BY <1>1
  <2>3. \A i \in 1..n - 1 : kept[i] = held[g][from2[i]]
    BY <1>2, <1>4
  <2>4. \A i \in 1..n - 1 : IF i <= c THEN from2[i] = i ELSE from2[i] > c
    BY <1>1
  <2>5. \A i, j \in 1..n - 1 : i < j => from2[i] < from2[j]
    BY <1>1
  <2> HIDE DEF from2
  <2> QED
    BY <2>1, <2>2, <2>3, <2>4, <2>5 DEF n, c, kept
<1> QED
  BY <1>3, <1>4

LEMMA FirmwareInit == Init => FirmwareInv
BY EmptySeq DEF Init, FirmwareInv

LEMMA FirmwareStep == TypeOK /\ FirmwareInv /\ [Next]_vars => FirmwareInv'
<1> SUFFICES ASSUME TypeOK, FirmwareInv, [Next]_vars,
                    NEW h \in Gateways
             PROVE  /\ wanted'[h].now = Loaded(Compiled[h], file'[h])
                    /\ wanted'[h].booted = allowed'[h]
                    /\ \A i \in 1..Len(held'[h]) : Allows(allowed'[h], held'[h][i].mac)
  BY DEF FirmwareInv
<1>1. /\ wanted[h].now = Loaded(Compiled[h], file[h])
      /\ wanted[h].booted = allowed[h]
      /\ \A i \in 1..Len(held[h]) : Allows(allowed[h], held[h][i].mac)
  BY DEF FirmwareInv
<1>2. FirmwareTypes /\ QueueTypes
  BY DEF TypeOK
<1>3. ASSUME NEW mac \in Macs, NEW hearers \in SUBSET Gateways,
             NEW late \in SUBSET hearers, Hear(mac, hearers, late)
      PROVE  /\ UNCHANGED firmwareVars
             /\ \A i \in 1..Len(held'[h]) : Allows(allowed[h], held'[h][i].mac)
  <2> DEFINE o == [mac |-> mac, number |-> heard + 1]
  <2>1. /\ o \in Observations
        /\ held'[h] = held[h] \/ (held'[h] = Keep(h, o) /\ Allows(allowed[h], mac))
    BY <1>3, HeardBy
  <2>2. o.mac = mac
    OBVIOUS
  <2> HIDE DEF o
  <2>3. CASE held'[h] = Keep(h, o) /\ Allows(allowed[h], mac)
    <3>1. \A i \in 1..Len(Keep(h, o)) :
             Keep(h, o)[i] = o \/ \E j \in 1..Len(held[h]) : Keep(h, o)[i] = held[h][j]
      <4> SUFFICES ASSUME NEW i \in 1..Len(Keep(h, o)), Keep(h, o)[i] # o
                   PROVE  \E j \in 1..Len(held[h]) : Keep(h, o)[i] = held[h][j]
        OBVIOUS
      <4>1. /\ Keep(h, o) \in Seq(Observations)
            /\ Keep(h, o)[Len(Keep(h, o))] = o
        BY <2>1, KeepIs
      <4>2. i \in 1..Len(Keep(h, o)) - 1
        BY <4>1, LenProperties
      <4> QED
        BY <2>1, <4>2, KeptFrom
    <3>2. \A i \in 1..Len(Keep(h, o)) : Allows(allowed[h], Keep(h, o)[i].mac)
      BY <1>1, <2>2, <2>3, <3>1
    <3>3. UNCHANGED firmwareVars
      BY <1>3 DEF Hear
    <3> QED
      BY <2>3, <3>2, <3>3
  <2> QED
    BY <1>1, <1>3, <2>1, <2>3 DEF Hear
<1>4. ASSUME NEW g \in Gateways, NEW text \in Texts, Edit(g, text)
      PROVE  /\ wanted'[h].now = Loaded(Compiled[h], file'[h])
             /\ wanted'[h].booted = allowed[h] /\ allowed' = allowed /\ held' = held
  <2>1. /\ allowed' = allowed /\ held' = held
        /\ file' = [file EXCEPT ![g] = FromJson(file[g], text)]
        /\ wanted' = [wanted EXCEPT ![g].now =
                        IF NotAMac \in Range(text) THEN wanted[g].now ELSE Range(text)]
    BY <1>2, <1>4 DEF Edit, FirmwareTypes, queues
  <2>2. FromJson(file[g], text) = IF NotAMac \in Range(text) THEN file[g] ELSE Range(text)
    BY ListsAreRead
  <2>3. Range(text) # NoFile
    BY ListsAreRead, EndToEndAssumption
  <2>4. CASE h = g
    <3>1. /\ file'[h] = FromJson(file[h], text)
          /\ wanted'[h].now = IF NotAMac \in Range(text) THEN wanted[h].now ELSE Range(text)
          /\ wanted'[h].booted = wanted[h].booted
      BY <1>2, <2>1, <2>4 DEF FirmwareTypes
    <3> QED
      BY <1>1, <2>1, <2>2, <2>3, <2>4, <3>1 DEF Loaded
  <2>5. CASE h # g
    BY <1>1, <1>2, <2>1, <2>5 DEF FirmwareTypes
  <2> QED
    BY <2>4, <2>5
<1>5. ASSUME NEW g \in Gateways, Reboot(g)
      PROVE  /\ wanted'[h].now = Loaded(Compiled[h], file'[h])
             /\ wanted'[h].booted = allowed'[h]
             /\ \A i \in 1..Len(held'[h]) : Allows(allowed'[h], held'[h][i].mac)
  <2>1. /\ file' = file
        /\ allowed' = [allowed EXCEPT ![g] = Loaded(Compiled[g], file[g])]
        /\ wanted' = [wanted EXCEPT ![g].booted = wanted[g].now]
        /\ held' = [held EXCEPT ![g] = <<>>]
    BY <1>5 DEF Reboot
  <2>2. Len(<<>>) = 0
    BY EmptySeq
  <2>3. CASE h = g
    BY <1>1, <1>2, <2>1, <2>2, <2>3 DEF FirmwareTypes, QueueTypes
  <2>4. CASE h # g
    BY <1>1, <1>2, <2>1, <2>4 DEF FirmwareTypes, QueueTypes
  <2> QED
    BY <2>3, <2>4
<1>6. ASSUME NEW g \in Gateways, Release(g)
      PROVE  /\ UNCHANGED firmwareVars
             /\ \A i \in 1..Len(held'[h]) : Allows(allowed[h], held'[h][i].mac)
  <2>1. /\ held' = [held EXCEPT ![g] = held'[g]]
        /\ Len(held'[g]) = Len(held[g]) - claimed[g]
        /\ \A i \in 1..Len(held'[g]) : held'[g][i] = held[g][claimed[g] + i]
    BY <1>6, QueueSteps
  <2>2. claimed[g] \in Nat /\ Len(held[g]) \in Nat
    BY <1>2, LenProperties DEF QueueTypes
  <2>3. \A i \in 1..Len(held'[g]) : claimed[g] + i \in 1..Len(held[g])
    BY <2>1, <2>2
  <2>4. \A i \in 1..Len(held'[h]) : Allows(allowed[h], held'[h][i].mac)
    <3>1. CASE h = g
      BY <1>1, <2>1, <2>3, <3>1
    <3>2. CASE h # g
      BY <1>1, <1>2, <2>1, <3>2 DEF QueueTypes
    <3> QED
      BY <3>1, <3>2
  <2> QED
    BY <1>6, <2>4 DEF Release
<1>7. ASSUME \/ \E g \in Gateways : Claim(g) \/ Arrive(g)
             \/ HandOver \/ StartPlugin \/ StopPlugin \/ UNCHANGED vars
      PROVE  UNCHANGED <<held, firmwareVars>>
  BY <1>7 DEF Claim, Arrive, HandOver, StartPlugin, StopPlugin, vars, gatewayVars, queues
<1>8. CASE \/ \E mac \in Macs, hearers \in SUBSET Gateways :
                \E late \in SUBSET hearers : Hear(mac, hearers, late)
           \/ \E g \in Gateways : Release(g)
           \/ UNCHANGED <<held, firmwareVars>>
  BY <1>1, <1>3, <1>6, <1>8 DEF firmwareVars
<1>9. CASE \E g \in Gateways, text \in Texts : Edit(g, text)
  BY <1>1, <1>4, <1>9
<1>10. CASE \E g \in Gateways : Reboot(g)
  BY <1>5, <1>10
<1> QED
  BY <1>7, <1>8, <1>9, <1>10 DEF Next, Settle, WriteOff

\* A gateway forwards only devices in the list its operator wanted when it was last
\* started, whatever is entered, refused and restarted: in every network of gateways,
\* with every compiled list and every text an operator may enter.
THEOREM ForwardsTheAllowed == Spec => []AllowlistInForce
<1>1. TypeOK /\ FirmwareInv => AllowlistInForce
  <2> SUFFICES ASSUME TypeOK, FirmwareInv, NEW g \in Gateways, NEW i \in DOMAIN held[g]
               PROVE  Allows(wanted[g].booted, held[g][i].mac)
    BY DEF AllowlistInForce
  <2>1. DOMAIN held[g] = 1..Len(held[g])
    BY LenProperties DEF TypeOK, QueueTypes
  <2> QED
    BY <2>1 DEF FirmwareInv
<1> QED
  BY <1>1, TypeInit, TypeStep, FirmwareInit, FirmwareStep, PTL DEF Spec

----------------------------------------------------------------------------
(* How a boot goes.                                                        *)

\* A call that is made and goes well takes its part from the state it is for to the
\* next; one that fails ends the reset; nothing else changes anything.
CallResults == [ok: BOOLEAN, bluetooth: BluetoothStates]

LEMMA CallIs ==
  ASSUME NEW i \in 1..4, NEW failing, NEW a \in CallResults,
         NEW c, c = Called(a, i, a.bluetooth, failing)
  PROVE  /\ c \in CallResults
         /\ c.ok /\ i = 1 => c.bluetooth.host # "enabled"
         /\ c.ok => a.ok
         /\ c.ok /\ i = 2 /\ a.bluetooth.host # "enabled" =>
              c.bluetooth.host = "uninitialized"
         /\ i \in {3, 4} => c.bluetooth.host = a.bluetooth.host
<1> DEFINE call == Calls[i]
           b == a.bluetooth
<1>1. /\ call.part \in {"host", "controller"}
      /\ call.part = "host" <=> i \in {1, 2}
      /\ call.part = "host" => call.to \in {"initialized", "uninitialized"}
      /\ call.part = "controller" => call.to \in {"initialized", "idle"}
      /\ i = 1 => call.from = "enabled"
      /\ i = 2 => call.from = "initialized" /\ call.to = "uninitialized"
  <2>1. CASE i = 1
    <3>1. call = [part |-> "host", from |-> "enabled", to |-> "initialized"]
      BY <2>1 DEF Calls
    <3> QED BY <2>1, <3>1
  <2>2. CASE i = 2
    <3>1. call = [part |-> "host", from |-> "initialized", to |-> "uninitialized"]
      BY <2>2 DEF Calls
    <3> QED BY <2>2, <3>1
  <2>3. CASE i = 3
    <3>1. call = [part |-> "controller", from |-> "enabled", to |-> "initialized"]
      BY <2>3 DEF Calls
    <3> QED BY <2>3, <3>1
  <2>4. CASE i = 4
    <3>1. call = [part |-> "controller", from |-> "initialized", to |-> "idle"]
      BY <2>4 DEF Calls
    <3> QED BY <2>4, <3>1
  <2> QED
    BY <2>1, <2>2, <2>3, <2>4
<1>2. c = IF ~a.ok \/ b[call.part] # call.from THEN a
          ELSE IF i \in failing THEN [a EXCEPT !.ok = FALSE]
          ELSE [a EXCEPT !.bluetooth[call.part] = call.to]
  BY DEF Called
<1> HIDE DEF call
<1>3. /\ a.ok \in BOOLEAN /\ b \in BluetoothStates
      /\ b.host \in {"uninitialized", "initialized", "enabled"}
      /\ b.controller \in {"idle", "initialized", "enabled"}
  BY DEF CallResults, BluetoothStates
<1>4. CASE ~a.ok \/ b[call.part] # call.from
  BY <1>1, <1>2, <1>3, <1>4
<1>5. CASE ~(~a.ok \/ b[call.part] # call.from) /\ i \in failing
  <2>1. c = [a EXCEPT !.ok = FALSE]
    BY <1>2, <1>5
  <2>2. c.ok = FALSE /\ c.bluetooth = b
    BY <2>1 DEF CallResults
  <2>3. c \in CallResults
    BY <2>1 DEF CallResults
  <2> QED
    BY <1>1, <2>2, <2>3
<1>6. CASE ~(~a.ok \/ b[call.part] # call.from) /\ i \notin failing
  <2>1. c = [a EXCEPT !.bluetooth = [b EXCEPT ![call.part] = call.to]]
    BY <1>2, <1>6
  <2>2. [b EXCEPT ![call.part] = call.to] \in BluetoothStates
    <3>1. CASE call.part = "host"
      BY <1>1, <1>3, <3>1 DEF BluetoothStates
    <3>2. CASE call.part = "controller"
      BY <1>1, <1>3, <3>2 DEF BluetoothStates
    <3> QED
      BY <1>1, <3>1, <3>2
  <2>3. /\ c \in CallResults /\ c.ok = a.ok
        /\ c.bluetooth = [b EXCEPT ![call.part] = call.to]
    BY <2>1, <2>2 DEF CallResults
  <2>4. CASE call.part = "host"
    <3>1. c.bluetooth.host = call.to
      BY <1>3, <2>3, <2>4 DEF BluetoothStates
    <3> QED
      BY <1>1, <1>6, <2>3, <2>4, <3>1
  <2>5. CASE call.part = "controller"
    <3>1. c.bluetooth.host = b.host
      BY <1>3, <2>3, <2>5 DEF BluetoothStates
    <3> QED
      BY <1>1, <1>6, <2>3, <2>5, <3>1
  <2> QED
    BY <1>1, <2>4, <2>5
<1> QED
  BY <1>4, <1>5, <1>6

\* A reset that goes well leaves no host behind, whatever it found.
LEMMA ResetIsClean ==
  ASSUME NEW bluetooth \in BluetoothStates, NEW failing
  PROVE  Reset(bluetooth, failing).ok =>
           /\ Reset(bluetooth, failing).bluetooth \in BluetoothStates
           /\ Reset(bluetooth, failing).bluetooth.host = "uninitialized"
<1> DEFINE s0 == [ok |-> TRUE, bluetooth |-> bluetooth]
           s1 == Called(s0, 1, s0.bluetooth, failing)
           s2 == Called(s1, 2, s1.bluetooth, failing)
           s3 == Called(s2, 3, s2.bluetooth, failing)
           s4 == Called(s3, 4, s3.bluetooth, failing)
<1>1. Reset(bluetooth, failing) = s4
  BY DEF Reset
<1>2. s0 \in CallResults /\ s0.bluetooth = bluetooth
  BY DEF CallResults
<1> HIDE DEF s0
<1>3. s1 \in CallResults /\ (s1.ok => s1.bluetooth.host # "enabled")
  BY <1>2, CallIs
<1> HIDE DEF s1
<1>4. s2 \in CallResults /\ (s2.ok => s2.bluetooth.host = "uninitialized")
  <2>1. 2 \in 1..4
    OBVIOUS
  <2>2. s2.ok => s1.ok
    BY <1>3, <2>1, CallIs
  <2>3. s2.ok /\ s1.bluetooth.host # "enabled" => s2.bluetooth.host = "uninitialized"
    BY <1>3, <2>1, CallIs
  <2>4. s2 \in CallResults
    BY <1>3, <2>1, CallIs
  <2> QED
    BY <1>3, <2>2, <2>3, <2>4
<1> HIDE DEF s2
<1>5. s3 \in CallResults /\ (s3.ok => s3.bluetooth.host = "uninitialized")
  BY <1>4, CallIs
<1> HIDE DEF s3
<1>6. s4 \in CallResults /\ (s4.ok => s4.bluetooth.host = "uninitialized")
  BY <1>5, CallIs
<1>7. s4.bluetooth \in BluetoothStates
  BY <1>6 DEF CallResults
<1> QED
  BY <1>1, <1>6, <1>7

\* Of every boot: the gateway is started, on a Bluetooth that was reset, or an error is
\* shown.  The host is down because each of its calls was made when it was due; of the
\* controller setup() makes sure itself.
LEMMA OutcomeIsTold ==
  ASSUME NEW outcome \in BootOutcomes
  PROVE  IF outcome.error THEN ~outcome.up ELSE outcome.up /\ outcome.clean
<1>1. PICK bluetooth \in BluetoothStates, failing \in SUBSET (1..Len(Calls)),
           idles \in BOOLEAN, starts \in BOOLEAN :
             outcome = BootOutcome(bluetooth, failing, idles, starts)
  BY DEF BootOutcomes
<1> DEFINE reset == Reset(bluetooth, failing)
           ble == reset.ok /\ idles /\ reset.bluetooth.controller = "idle"
<1>2. /\ outcome.up <=> ble /\ starts
      /\ outcome.error <=> ~ble \/ ~starts
      /\ outcome.clean <=> reset.bluetooth = Normal
  BY <1>1 DEF BootOutcome
<1>3. ble => reset.bluetooth = Normal
  BY ResetIsClean DEF BluetoothStates, Normal
<1> QED
  BY <1>2, <1>3

\* Whatever the Bluetooth is found in and whichever calls fail, at every boot of every
\* gateway: no error means started and clean, not started means an error.
THEOREM FailureIsShown == Spec => []RunningOrErrorShown
<1>1. TypeOK => RunningOrErrorShown
  BY OutcomeIsTold DEF TypeOK, FirmwareTypes, RunningOrErrorShown
<1> QED
  BY <1>1, TypeInit, TypeStep, PTL DEF Spec

----------------------------------------------------------------------------
(* The order of the observations.                                          *)

LEMMA Elements ==
  ASSUME TypeOK, NEW g \in Gateways
  PROVE  /\ claimed[g] \in Nat /\ Len(held[g]) \in Nat /\ claimed[g] <= Len(held[g])
         /\ \A i \in 1..Len(held[g]) : held[g][i].number \in Nat
         /\ Len(inbox) \in Nat /\ \A i \in 1..Len(inbox) : inbox[i].number \in Nat
         /\ heard \in Nat /\ newest \in [Ids -> Nat] /\ path \in [Ids -> Nat]
         /\ subscribed \in BOOLEAN
<1>1. /\ held[g] \in Seq(Observations) /\ inbox \in Seq(Observations)
      /\ claimed[g] \in Nat /\ claimed[g] <= Len(held[g])
      /\ heard \in Nat /\ newest \in [Ids -> Nat] /\ path \in [Ids -> Nat]
      /\ subscribed \in BOOLEAN
  BY DEF TypeOK, QueueTypes, ServerTypes
<1>2. /\ \A i \in 1..Len(held[g]) : held[g][i] \in Observations
      /\ \A i \in 1..Len(inbox) : inbox[i] \in Observations
      /\ Len(held[g]) \in Nat /\ Len(inbox) \in Nat
  BY <1>1, ElementOfSeq, LenProperties
<1> QED
  BY <1>1, <1>2 DEF Observations

\* The new observation is the newest of those that are kept.
LEMMA KeptInOrder ==
  ASSUME TypeOK, NEW g \in Gateways, NEW o \in Observations, o.number = heard + 1,
         Ascending(held[g]), \A i \in 1..Len(held[g]) : held[g][i].number <= heard
  PROVE  /\ Ascending(Keep(g, o))
         /\ \A i \in 1..Len(Keep(g, o)) : Keep(g, o)[i].number <= heard + 1
<1> DEFINE kept == Keep(g, o)
           m == Len(kept)
<1>1. m \in Nat /\ m > 0 /\ kept[m] = o
  <2>1. kept \in Seq(Observations) /\ kept[m] = o /\ claimed[g] < m
    BY KeepIs
  <2> QED
    BY <2>1, Elements, LenProperties
<1>2. PICK from \in [1..m - 1 -> 1..Len(held[g])] :
        /\ \A i \in 1..m - 1 : kept[i] = held[g][from[i]]
        /\ \A i, j \in 1..m - 1 : i < j => from[i] < from[j]
  BY KeptFrom
<1> HIDE DEF kept, m
<1>3. \A i \in 1..m - 1 : kept[i].number <= heard /\ kept[i].number \in Nat
  BY <1>2, Elements
<1>4. heard \in Nat
  BY Elements
<1>5. \A i \in 1..m : kept[i].number <= heard + 1
  <2> TAKE i \in 1..m
  <2>1. CASE i = m
    BY <1>1, <1>4, <2>1
  <2>2. CASE i # m
    BY <1>1, <1>3, <1>4, <2>2
  <2> QED
    BY <2>1, <2>2
<1>6. ASSUME NEW i \in 1..m, NEW j \in 1..m, i < j
      PROVE  kept[i].number < kept[j].number
  <2>1. i \in 1..m - 1
    BY <1>1, <1>6
  <2>2. CASE j = m
    BY <1>1, <1>3, <1>4, <2>1, <2>2
  <2>3. CASE j # m
    <3>1. j \in 1..m - 1
      BY <1>1, <2>3
    <3> QED
      BY <1>2, <1>6, <2>1, <3>1 DEF Ascending
  <2> QED
    BY <2>2, <2>3
<1> QED
  BY <1>5, <1>6 DEF Ascending, kept, m

LEMMA OrderInit == Init => InOrder
BY EmptySeq DEF Init, InOrder, Ascending

LEMMA OrderStep == TypeOK /\ InOrder /\ [Next]_vars => InOrder'
<1> SUFFICES ASSUME TypeOK, InOrder, [Next]_vars PROVE InOrder'
  OBVIOUS
<1> DEFINE QueueOrder(s, n) ==
             Ascending(s) /\ \A i \in 1..Len(s) : s[i].number <= n
<1>1. /\ \A g \in Gateways : QueueOrder(held[g], heard)
      /\ QueueOrder(inbox, heard)
      /\ \A id \in Ids : newest[id] <= heard
  BY DEF InOrder
<1>2. SUFFICES /\ \A g \in Gateways : QueueOrder(held'[g], heard')
               /\ QueueOrder(inbox', heard')
               /\ \A id \in Ids : newest'[id] <= heard'
  BY DEF InOrder, Ascending
<1>3. heard \in Nat /\ newest \in [Ids -> Nat] /\ inbox \in Seq(Observations)
  BY DEF TypeOK, QueueTypes, ServerTypes
<1>4. /\ Len(inbox) \in Nat
      /\ \A i \in 1..Len(inbox) : inbox[i].number \in Nat
  <2>1. Len(inbox) \in Nat /\ \A i \in 1..Len(inbox) : inbox[i] \in Observations
    BY <1>3, ElementOfSeq, LenProperties
  <2> QED
    BY <2>1 DEF Observations
<1>5. Len(<<>>) = 0
  BY EmptySeq
<1>6. ASSUME NEW mac \in Macs, NEW hearers \in SUBSET Gateways,
             NEW late \in SUBSET hearers, Hear(mac, hearers, late)
      PROVE  /\ \A g \in Gateways : QueueOrder(held'[g], heard')
             /\ QueueOrder(inbox', heard')
             /\ \A id \in Ids : newest'[id] <= heard'
  <2>1. heard' = heard + 1 /\ UNCHANGED <<inbox, newest>>
    BY <1>6 DEF Hear, serverVars
  <2>2. \A g \in Gateways : QueueOrder(held'[g], heard')
    <3> TAKE g \in Gateways
    <3> DEFINE o == [mac |-> mac, number |-> heard + 1]
    <3>1. o \in Observations /\ (held'[g] = held[g] \/ held'[g] = Keep(g, o))
      BY <1>6, HeardBy
    <3>2. o.number = heard + 1
      OBVIOUS
    <3> HIDE DEF o
    <3>3. CASE held'[g] = Keep(g, o)
      BY <1>1, <2>1, <3>1, <3>2, <3>3, KeptInOrder
    <3>4. CASE held'[g] = held[g]
      <4>1. \A i \in 1..Len(held[g]) : held[g][i].number \in Nat
        BY Elements
      <4>2. Ascending(held[g]) /\ \A i \in 1..Len(held[g]) : held[g][i].number <= heard
        BY <1>1
      <4>3. \A i \in 1..Len(held[g]) : held[g][i].number <= heard + 1
        BY <1>3, <4>1, <4>2
      <4> QED
        BY <2>1, <3>4, <4>2, <4>3
    <3> QED
      BY <3>1, <3>3, <3>4
  <2> QED
    BY <1>1, <1>3, <1>4, <2>1, <2>2
<1>7. ASSUME NEW g \in Gateways, Reboot(g)
      PROVE  /\ \A h \in Gateways : QueueOrder(held'[h], heard')
             /\ QueueOrder(inbox', heard')
             /\ \A id \in Ids : newest'[id] <= heard'
  <2>1. held' = [held EXCEPT ![g] = <<>>] /\ UNCHANGED <<heard, inbox, newest>>
    BY <1>7 DEF Reboot, serverVars
  <2>2. held \in [Gateways -> Seq(Observations)]
    BY DEF TypeOK, QueueTypes
  <2>3. QueueOrder(<<>>, heard)
    BY <1>5 DEF Ascending
  <2> QED
    BY <1>1, <2>1, <2>2, <2>3
<1>8. ASSUME NEW g \in Gateways, Release(g)
      PROVE  /\ \A h \in Gateways : QueueOrder(held'[h], heard')
             /\ QueueOrder(inbox', heard')
             /\ \A id \in Ids : newest'[id] <= heard'
  <2>1. /\ held' = [held EXCEPT ![g] = held'[g]]
        /\ Len(held'[g]) = Len(held[g]) - claimed[g]
        /\ \A i \in 1..Len(held'[g]) : held'[g][i] = held[g][claimed[g] + i]
    BY <1>8, QueueSteps
  <2>2. UNCHANGED <<heard, inbox, newest>>
    BY <1>8 DEF Release, serverVars
  <2>3. \A i \in 1..Len(held'[g]) : claimed[g] + i \in 1..Len(held[g])
    BY <2>1, Elements
  <2>4. Ascending(held'[g])
    <3> SUFFICES ASSUME NEW i \in 1..Len(held'[g]), NEW j \in 1..Len(held'[g]), i < j
                 PROVE  held'[g][i].number < held'[g][j].number
      BY DEF Ascending
    <3>1. claimed[g] + i < claimed[g] + j
      BY <2>1, Elements
    <3> QED
      BY <1>1, <2>1, <2>3, <3>1 DEF Ascending
  <2>5. QueueOrder(held'[g], heard)
    BY <1>1, <2>1, <2>3, <2>4
  <2>6. \A h \in Gateways \ {g} : held'[h] = held[h]
    BY <2>1 DEF TypeOK, QueueTypes
  <2> QED
    BY <1>1, <2>2, <2>5, <2>6
<1>9. ASSUME NEW g \in Gateways, Arrive(g)
      PROVE  /\ \A h \in Gateways : QueueOrder(held'[h], heard')
             /\ QueueOrder(inbox', heard')
             /\ \A id \in Ids : newest'[id] <= heard'
  <2>1. /\ Len(inbox') = claimed[g]
        /\ \A i \in 1..claimed[g] : inbox'[i] = held[g][i]
    BY <1>9, QueueSteps
  <2>2. UNCHANGED <<held, heard, newest>>
    BY <1>9 DEF Arrive
  <2>3. \A i \in 1..claimed[g] : i \in 1..Len(held[g])
    BY Elements
  <2>4. QueueOrder(inbox', heard)
    BY <1>1, <2>1, <2>3 DEF Ascending
  <2> QED
    BY <1>1, <2>2, <2>4
<1>10. ASSUME HandOver
       PROVE  /\ \A h \in Gateways : QueueOrder(held'[h], heard')
              /\ QueueOrder(inbox', heard')
              /\ \A id \in Ids : newest'[id] <= heard'
  <2> DEFINE o == Head(inbox)
             d == DeviceOf(o.mac)
  <2>1. /\ o \in Observations /\ inbox # <<>> /\ inbox' = Tail(inbox)
        /\ \/ /\ d \in Ids
              /\ newest' = [newest EXCEPT ![d] = IF @ <= o.number THEN o.number ELSE @]
           \/ newest' = newest
    BY <1>10, HandedOver
  <2>2. UNCHANGED <<held, heard>>
    BY <1>10 DEF HandOver, gatewayVars, queues
  <2>3. /\ Len(Tail(inbox)) = Len(inbox) - 1
        /\ \A i \in 1..Len(Tail(inbox)) : Tail(inbox)[i] = inbox[i + 1]
    BY <1>3, <2>1, HeadTailProperties
  <2>4. Len(inbox) > 0 /\ o = inbox[1]
    BY <1>3, <2>1, EmptySeq
  <2>5. o.number <= heard /\ o.number \in Nat
    BY <1>1, <1>4, <2>4
  <2>6. \A i \in 1..Len(Tail(inbox)) : i + 1 \in 1..Len(inbox) /\ i \in Nat
    BY <1>4, <2>3, <2>4
  <2>7. QueueOrder(Tail(inbox), heard)
    BY <1>1, <2>3, <2>6 DEF Ascending
  <2>8. \A id \in Ids : newest'[id] <= heard
    <3> HIDE DEF o, d
    <3> QED BY <1>1, <1>3, <2>1, <2>5
  <2> QED
    BY <1>1, <2>1, <2>2, <2>7, <2>8
<1>11. ASSUME \/ \E g \in Gateways : Claim(g) \/ \E text \in Texts : Edit(g, text)
              \/ StartPlugin \/ StopPlugin \/ UNCHANGED vars
       PROVE  UNCHANGED <<held, heard, inbox, newest>>
  BY <1>11 DEF Claim, Edit, StartPlugin, StopPlugin, vars, gatewayVars, queues, serverVars
<1>12. CASE UNCHANGED <<held, heard, inbox, newest>>
  BY <1>1, <1>12
<1> HIDE DEF QueueOrder
<1> QED
  BY <1>6, <1>7, <1>8, <1>9, <1>10, <1>11, <1>12 DEF Next, Settle, WriteOff

----------------------------------------------------------------------------
(* What was delivered is covered by what is held.                          *)

OneGateway == \A g, h \in Gateways : g = h

LEMMA CoveredInit == Init => Covered
<1> SUFFICES ASSUME Init PROVE Covered
  OBVIOUS
<1>1. /\ held = [g \in Gateways |-> <<>>] /\ claimed = [g \in Gateways |-> 0]
      /\ inbox = <<>>
  BY DEF Init
<1>2. Len(<<>>) = 0
  BY EmptySeq
<1> QED
  BY <1>1, <1>2 DEF Covered, Covers, HasAny

\* The observation that is heard is newer than all that the server has.
LEMMA HearingCovers ==
  ASSUME TypeOK, NEW g \in Gateways, NEW o \in Observations, o.number = heard + 1,
         NEW id, NEW number \in Nat, number <= heard,
         Covers(held[g], claimed[g], id, number)
  PROVE  Covers(Keep(g, o), claimed[g], id, number)
<1> DEFINE kept == Keep(g, o)
           m == Len(kept)
           c == claimed[g]
<1>1. m \in Nat /\ m > c /\ kept[m] = o /\ c \in Nat /\ heard \in Nat
      /\ Len(held[g]) \in Nat
  <2>1. kept \in Seq(Observations) /\ kept[m] = o /\ c < m
    BY KeepIs
  <2> QED
    BY <2>1, Elements, LenProperties
<1>2. PICK from \in [1..m - 1 -> 1..Len(held[g])] :
        /\ \A i \in 1..m - 1 : /\ kept[i] = held[g][from[i]]
                              /\ IF i <= c THEN from[i] = i ELSE from[i] > c
  BY KeptFrom
<1> HIDE DEF kept, m, c
<1>3. \A i \in 1..c : kept[i] = held[g][i]
  <2>1. \A i \in 1..c : i \in 1..m - 1 /\ i <= c
    BY <1>1
  <2> QED
    BY <1>2, <2>1
<1>4. ASSUME NEW i \in c + 1..m
      PROVE  number < kept[i].number
  <2>1. CASE i = m
    BY <1>1, <2>1
  <2>2. CASE i # m
    <3>1. i \in 1..m - 1 /\ ~(i <= c)
      BY <1>1, <2>2
    <3>2. from[i] > c /\ from[i] \in 1..Len(held[g]) /\ kept[i] = held[g][from[i]]
      BY <1>2, <3>1
    <3>3. from[i] \in c + 1..Len(held[g])
      BY <1>1, <3>2
    <3> QED
      BY <3>2, <3>3 DEF Covers, c
  <2> QED
    BY <2>1, <2>2
<1>5. HasAny(kept, c, id) => HasNotOlder(kept, c, id, number)
  BY <1>3 DEF Covers, HasAny, HasNotOlder, c
<1> QED
  BY <1>4, <1>5 DEF Covers, kept, m, c

LEMMA CoveredStep ==
  ASSUME OneGateway
  PROVE  TypeOK /\ InOrder /\ Covered /\ [Next]_vars => Covered'
<1> SUFFICES ASSUME TypeOK, InOrder, Covered, [Next]_vars,
                    NEW g \in Gateways, NEW id \in Ids
             PROVE  /\ Covers(held'[g], claimed'[g], id, newest'[id])
                    /\ \A k \in 1..Len(inbox') : IsOf(inbox'[k], id) =>
                         Covers(held'[g], claimed'[g], id, inbox'[k].number)
  BY DEF Covered
<1>1. /\ Covers(held[g], claimed[g], id, newest[id])
      /\ \A k \in 1..Len(inbox) :
           IsOf(inbox[k], id) => Covers(held[g], claimed[g], id, inbox[k].number)
  BY DEF Covered
<1>2. /\ claimed[g] \in Nat /\ Len(held[g]) \in Nat /\ claimed[g] <= Len(held[g])
      /\ \A i \in 1..Len(held[g]) : held[g][i].number \in Nat
      /\ Len(inbox) \in Nat /\ \A i \in 1..Len(inbox) : inbox[i].number \in Nat
      /\ heard \in Nat /\ newest[id] \in Nat
  BY Elements
<1>3. /\ held \in [Gateways -> Seq(Observations)] /\ claimed \in [Gateways -> Nat]
      /\ inbox \in Seq(Observations)
  BY DEF TypeOK, QueueTypes, ServerTypes
<1>4. Gateways = {g}
  BY DEF OneGateway
<1> DEFINE Goal == /\ Covers(held'[g], claimed'[g], id, newest'[id])
                   /\ \A k \in 1..Len(inbox') : IsOf(inbox'[k], id) =>
                        Covers(held'[g], claimed'[g], id, inbox'[k].number)
<1>5. ASSUME NEW mac \in Macs, NEW hearers \in SUBSET Gateways,
             NEW late \in SUBSET hearers, Hear(mac, hearers, late)
      PROVE  Goal
  <2> DEFINE o == [mac |-> mac, number |-> heard + 1]
  <2>1. o \in Observations /\ claimed' = claimed
        /\ (held'[g] = held[g] \/ held'[g] = Keep(g, o))
    BY <1>5, HeardBy
  <2>2. UNCHANGED <<inbox, newest>>
    BY <1>5 DEF Hear, serverVars
  <2>3. o.number = heard + 1
    OBVIOUS
  <2> HIDE DEF o
  <2>4. /\ newest[id] <= heard
        /\ \A k \in 1..Len(inbox) : inbox[k].number <= heard
    BY DEF InOrder
  <2>5. CASE held'[g] = Keep(g, o)
    <3>1. Covers(Keep(g, o), claimed[g], id, newest[id])
      BY <1>1, <1>2, <2>1, <2>3, <2>4, HearingCovers
    <3>2. \A k \in 1..Len(inbox) :
            IsOf(inbox[k], id) => Covers(Keep(g, o), claimed[g], id, inbox[k].number)
      BY <1>1, <1>2, <2>1, <2>3, <2>4, HearingCovers
    <3> QED
      BY <2>1, <2>2, <2>5, <3>1, <3>2
  <2>6. CASE held'[g] = held[g]
    BY <1>1, <2>1, <2>2, <2>6
  <2> QED
    BY <2>1, <2>5, <2>6
<1>6. ASSUME NEW h \in Gateways, Reboot(h)
      PROVE  Goal
  <2>1. held'[g] = <<>> /\ claimed'[g] = 0
    BY <1>3, <1>4, <1>6 DEF Reboot
  <2>2. Len(<<>>) = 0
    BY EmptySeq
  <2> QED
    BY <2>1, <2>2 DEF Covers, HasAny
<1>7. ASSUME NEW h \in Gateways, Claim(h)
      PROVE  Goal
  <2>1. h = g
    BY <1>4
  <2>2. /\ held' = held /\ claimed[g] = 0 /\ claimed'[g] \in 1..Len(held[g])
    BY <1>7, <2>1, QueueSteps
  <2>3. UNCHANGED <<inbox, newest>>
    BY <1>7 DEF Claim, serverVars
  <2>4. ASSUME NEW number \in Nat, Covers(held[g], claimed[g], id, number)
        PROVE  Covers(held[g], claimed'[g], id, number)
    <3>1. \A i \in 1..Len(held[g]) : number < held[g][i].number
      BY <2>2, <2>4 DEF Covers
    <3>2. \A i \in claimed'[g] + 1..Len(held[g]) : i \in 1..Len(held[g])
      BY <1>2, <2>2
    <3>3. \A i \in 1..claimed'[g] : i \in 1..Len(held[g])
      BY <1>2, <2>2
    <3>4. HasAny(held[g], claimed'[g], id) => HasNotOlder(held[g], claimed'[g], id, number)
      BY <1>2, <3>1, <3>3 DEF HasAny, HasNotOlder
    <3> QED
      BY <3>1, <3>2, <3>4 DEF Covers
  <2> QED
    BY <1>1, <1>2, <2>2, <2>3, <2>4
<1>8. ASSUME NEW h \in Gateways, Arrive(h)
      PROVE  Goal
  <2>1. h = g
    BY <1>4
  <2>2. /\ Len(inbox') = claimed[g]
        /\ \A i \in 1..claimed[g] : inbox'[i] = held[g][i]
    BY <1>8, <2>1, QueueSteps
  <2>3. UNCHANGED <<held, claimed, newest>>
    BY <1>8 DEF Arrive
  <2>4. ASSUME NEW k \in 1..claimed[g], IsOf(held[g][k], id)
        PROVE  Covers(held[g], claimed[g], id, held[g][k].number)
    <3>1. Ascending(held[g])
      BY DEF InOrder
    <3>2. \A i \in claimed[g] + 1..Len(held[g]) :
             i \in 1..Len(held[g]) /\ k \in 1..Len(held[g]) /\ k < i
      BY <1>2
    <3>3. \A i \in claimed[g] + 1..Len(held[g]) : held[g][k].number < held[g][i].number
      BY <3>1, <3>2 DEF Ascending
    <3>4. held[g][k].number <= held[g][k].number
      BY <1>2
    <3>5. HasNotOlder(held[g], claimed[g], id, held[g][k].number)
      BY <2>4, <3>4 DEF HasNotOlder
    <3> QED
      BY <3>3, <3>5 DEF Covers
  <2> QED
    BY <1>1, <2>2, <2>3, <2>4
<1>9. ASSUME NEW h \in Gateways, Release(h)
      PROVE  Goal
  <2>1. h = g
    BY <1>4
  <2>2. /\ claimed' = [claimed EXCEPT ![g] = 0]
        /\ Len(held'[g]) = Len(held[g]) - claimed[g]
        /\ \A i \in 1..Len(held'[g]) : held'[g][i] = held[g][claimed[g] + i]
    BY <1>9, <2>1, QueueSteps
  <2>3. UNCHANGED <<inbox, newest>>
    BY <1>9 DEF Release, serverVars
  <2>4. claimed'[g] = 0
    BY <1>3, <2>2
  <2>5. \A i \in 1..Len(held'[g]) : claimed[g] + i \in claimed[g] + 1..Len(held[g])
    BY <1>2, <2>2
  <2>6. ASSUME NEW number, Covers(held[g], claimed[g], id, number)
        PROVE  Covers(held'[g], 0, id, number)
    <3>1. \A i \in 0 + 1..Len(held'[g]) : number < held'[g][i].number
      BY <2>2, <2>5, <2>6 DEF Covers
    <3> QED
      BY <3>1 DEF Covers, HasAny
  <2> QED
    BY <1>1, <2>3, <2>4, <2>6
<1>10. ASSUME HandOver
       PROVE  Goal
  <2> DEFINE o == Head(inbox)
             d == DeviceOf(o.mac)
  <2>1. /\ inbox # <<>> /\ inbox' = Tail(inbox)
        /\ \/ /\ CanRead(o.mac) /\ d \in Ids
              /\ newest' = [newest EXCEPT ![d] = IF @ <= o.number THEN o.number ELSE @]
           \/ newest' = newest
    BY <1>10, HandedOver
  <2>2. UNCHANGED <<held, claimed>>
    BY <1>10 DEF HandOver, gatewayVars, queues
  <2>3. /\ Len(Tail(inbox)) = Len(inbox) - 1
        /\ \A i \in 1..Len(Tail(inbox)) : Tail(inbox)[i] = inbox[i + 1]
    BY <1>3, <2>1, HeadTailProperties
  <2>4. 1 \in 1..Len(inbox) /\ o = inbox[1]
    BY <1>2, <1>3, <2>1, EmptySeq
  <2>5. \A i \in 1..Len(Tail(inbox)) : i + 1 \in 1..Len(inbox)
    BY <1>2, <2>3, <2>4
  <2>6. newest'[id] = newest[id] \/ (IsOf(o, id) /\ newest'[id] = o.number)
    <3>1. newest \in [Ids -> Nat]
      BY Elements
    <3> HIDE DEF o
    <3> QED
      BY <2>1, <3>1 DEF IsOf
  <2> QED
    BY <1>1, <2>1, <2>2, <2>3, <2>4, <2>5, <2>6
<1>11. ASSUME \/ \E h \in Gateways, text \in Texts : Edit(h, text)
              \/ StartPlugin \/ StopPlugin \/ UNCHANGED vars
       PROVE  Goal
  <2>1. UNCHANGED <<held, claimed, inbox, newest>>
    BY <1>11 DEF Edit, StartPlugin, StopPlugin, vars, gatewayVars, queues, serverVars
  <2> QED
    BY <1>1, <2>1
<1> HIDE DEF Goal
<1>12. Goal
  BY <1>5, <1>6, <1>7, <1>8, <1>9, <1>10, <1>11 DEF Next, Settle, WriteOff
<1> QED
  BY <1>12 DEF Goal

----------------------------------------------------------------------------
(* The paths.                                                              *)

LEMMA ShownInit == Init => Shown
BY EmptySeq DEF Init, ConsumerInit, Shown

LEMMA ShownStep == TypeOK /\ InOrder /\ Covered /\ Shown /\ [Next]_vars => Shown'
<1> SUFFICES ASSUME TypeOK, InOrder, Covered, Shown, [Next]_vars, NEW id \in Ids
             PROVE  IF subscribed' /\ HasAny(inbox', Len(inbox'), id)
                      THEN HasNotOlder(inbox', Len(inbox'), id, newest'[id])
                      ELSE path'[id] = newest'[id]
  BY DEF Shown
<1> DEFINE Goal == IF subscribed' /\ HasAny(inbox', Len(inbox'), id)
                     THEN HasNotOlder(inbox', Len(inbox'), id, newest'[id])
                     ELSE path'[id] = newest'[id]
<1>1. IF subscribed /\ HasAny(inbox, Len(inbox), id)
        THEN HasNotOlder(inbox, Len(inbox), id, newest[id])
        ELSE path[id] = newest[id]
  BY DEF Shown
<1>2. /\ inbox \in Seq(Observations)
      /\ newest \in [Ids -> Nat] /\ path \in [Ids -> Nat]
  BY DEF TypeOK, ServerTypes
<1>3. /\ Len(inbox) \in Nat
      /\ \A i \in 1..Len(inbox) : inbox[i].number \in Nat
  <2>1. Len(inbox) \in Nat /\ \A i \in 1..Len(inbox) : inbox[i] \in Observations
    BY <1>2, ElementOfSeq, LenProperties
  <2> QED
    BY <2>1 DEF Observations
<1>4. inbox = <<>> => path[id] = newest[id]
  BY <1>1, EmptySeq DEF HasAny
<1>5. ASSUME NEW g \in Gateways, Arrive(g)
      PROVE  Goal
  <2>1. /\ Len(inbox') = claimed[g]
        /\ \A i \in 1..claimed[g] : inbox'[i] = held[g][i]
    BY <1>5, QueueSteps
  <2>2. UNCHANGED <<subscribed, path, newest>> /\ inbox = <<>>
    BY <1>5 DEF Arrive, pluginVars
  <2>3. HasAny(held[g], claimed[g], id) => HasNotOlder(held[g], claimed[g], id, newest[id])
    BY DEF Covered, Covers
  <2>4. HasAny(inbox', Len(inbox'), id) => HasNotOlder(inbox', Len(inbox'), id, newest[id])
    BY <2>1, <2>3 DEF HasAny, HasNotOlder
  <2> QED
    BY <1>4, <2>2, <2>4
<1>6. ASSUME HandOver
      PROVE  Goal
  <2> DEFINE o == Head(inbox)
             d == DeviceOf(o.mac)
             rest == Tail(inbox)
  <2>1. /\ inbox # <<>> /\ inbox' = rest /\ subscribed' = subscribed
        /\ IF subscribed /\ CanRead(o.mac)
             THEN /\ d \in Ids
                  /\ path' = [path EXCEPT ![d] = o.number]
                  /\ newest' = [newest EXCEPT ![d] = IF @ <= o.number THEN o.number ELSE @]
             ELSE UNCHANGED <<path, newest>>
    BY <1>6, HandedOver
  <2>2. /\ Len(rest) = Len(inbox) - 1
        /\ \A i \in 1..Len(rest) : rest[i] = inbox[i + 1]
    BY <1>2, <2>1, HeadTailProperties
  <2>3. 1 \in 1..Len(inbox) /\ o = inbox[1] /\ Len(rest) \in Nat
    BY <1>2, <1>3, <2>1, <2>2, EmptySeq
  <2>4. \A i \in 1..Len(rest) : i + 1 \in 1..Len(inbox) /\ 1 < i + 1
    BY <1>3, <2>2, <2>3
  <2>5. \A i \in 1..Len(rest) : o.number < rest[i].number
    BY <2>2, <2>3, <2>4 DEF InOrder, Ascending
  <2>6. \A j \in 1..Len(inbox) : j = 1 \/ (j - 1 \in 1..Len(rest) /\ inbox[j] = rest[j - 1])
    <3> TAKE j \in 1..Len(inbox)
    <3>1. j # 1 => j - 1 \in 1..Len(rest) /\ (j - 1) + 1 = j
      BY <1>3, <2>2
    <3> QED
      BY <2>2, <3>1
  <2>7. /\ o.number \in Nat /\ newest[id] \in Nat /\ path[id] \in Nat
        /\ \A i \in 1..Len(rest) : rest[i].number \in Nat
    BY <1>2, <1>3, <2>2, <2>3, <2>4
  <2> HIDE DEF o, rest
  <2>8. CASE ~subscribed
    BY <1>1, <2>1, <2>8
  <2>9. CASE subscribed /\ IsOf(o, id)
    <3>1. path'[id] = o.number
          /\ newest'[id] = IF newest[id] <= o.number THEN o.number ELSE newest[id]
      BY <1>2, <2>1, <2>9 DEF IsOf
    <3>2. HasNotOlder(inbox, Len(inbox), id, newest[id])
      BY <1>1, <2>3, <2>9 DEF HasAny
    <3>3. PICK j \in 1..Len(inbox) : IsOf(inbox[j], id) /\ newest[id] <= inbox[j].number
      BY <3>2 DEF HasNotOlder
    <3>4. CASE HasAny(rest, Len(rest), id)
      <4>1. PICK i \in 1..Len(rest) : IsOf(rest[i], id)
        BY <3>4 DEF HasAny
      <4>2. CASE j = 1
        <5>1. newest'[id] = o.number /\ newest'[id] <= rest[i].number
          BY <2>3, <2>5, <2>7, <3>1, <3>3, <4>2
        <5>2. HasNotOlder(rest, Len(rest), id, newest'[id])
          BY <4>1, <5>1 DEF HasNotOlder
        <5> QED
          BY <2>1, <2>9, <3>4, <5>2
      <4>3. CASE j # 1
        <5>1. j - 1 \in 1..Len(rest) /\ inbox[j] = rest[j - 1]
          BY <2>6, <4>3
        <5>2. IsOf(rest[j - 1], id) /\ newest'[id] <= rest[j - 1].number
          BY <2>5, <2>7, <3>1, <3>3, <5>1
        <5>3. HasNotOlder(rest, Len(rest), id, newest'[id])
          BY <5>1, <5>2 DEF HasNotOlder
        <5> QED
          BY <2>1, <2>9, <3>4, <5>3
      <4> QED
        BY <4>2, <4>3
    <3>5. CASE ~HasAny(rest, Len(rest), id)
      <4>1. j = 1
        BY <2>6, <3>3, <3>5 DEF HasAny
      <4>2. newest'[id] = o.number
        BY <2>3, <2>7, <3>1, <3>3, <4>1
      <4> QED
        BY <2>1, <3>1, <3>5, <4>2
    <3> QED
      BY <3>4, <3>5
  <2>10. CASE subscribed /\ ~IsOf(o, id)
    <3>1. path'[id] = path[id] /\ newest'[id] = newest[id]
      BY <1>2, <2>1, <2>10 DEF IsOf
    <3>2. \A j \in 1..Len(inbox) : IsOf(inbox[j], id) =>
             j - 1 \in 1..Len(rest) /\ inbox[j] = rest[j - 1]
      BY <2>3, <2>6, <2>10
    <3>3. HasAny(rest, Len(rest), id) => HasAny(inbox, Len(inbox), id)
      BY <2>2, <2>4 DEF HasAny
    <3>4. HasAny(inbox, Len(inbox), id) => HasAny(rest, Len(rest), id)
      BY <3>2 DEF HasAny
    <3>5. HasNotOlder(inbox, Len(inbox), id, newest[id]) =>
            HasNotOlder(rest, Len(rest), id, newest[id])
      BY <3>2 DEF HasNotOlder
    <3> QED
      BY <1>1, <2>1, <2>10, <3>1, <3>3, <3>4, <3>5
  <2> QED
    BY <1>2, <2>8, <2>9, <2>10 DEF TypeOK, ServerTypes
<1>7. ASSUME StartPlugin \/ StopPlugin
      PROVE  Goal
  <2>1. inbox = <<>> /\ UNCHANGED <<inbox, path, newest>>
    BY <1>7 DEF StartPlugin, StopPlugin, serverVars
  <2>2. ~HasAny(<<>>, Len(<<>>), id)
    BY EmptySeq DEF HasAny
  <2> QED
    BY <1>4, <2>1, <2>2
<1>8. ASSUME \/ \E mac \in Macs, hearers \in SUBSET Gateways :
                  \E late \in SUBSET hearers : Hear(mac, hearers, late)
             \/ \E g \in Gateways : Claim(g) \/ Release(g) \/ Reboot(g)
             \/ \E g \in Gateways, text \in Texts : Edit(g, text)
             \/ UNCHANGED vars
      PROVE  Goal
  <2>1. UNCHANGED <<subscribed, inbox, path, newest>>
    BY <1>8 DEF Hear, Claim, Release, Reboot, Edit, vars, pluginVars, serverVars
  <2> QED
    BY <1>1, <2>1
<1> HIDE DEF Goal
<1>9. Goal
  BY <1>5, <1>6, <1>7, <1>8 DEF Next, Settle, WriteOff
<1> QED
  BY <1>9 DEF Goal

\* Behind one gateway, however often power fails, answers are lost, batches come again
\* and the plugin is restarted: when the server has handed over what it took, the paths
\* of every device show the newest reading ever published for it.  (Behind two gateways
\* it does not hold: run EndToEndTwoGateways.)
THEOREM OneGatewayIsInOrder ==
  ASSUME OneGateway
  PROVE  Spec => []SettledIsNewest
<1>1. TypeOK /\ Shown => SettledIsNewest
  <2> SUFFICES ASSUME TypeOK, Shown, inbox = <<>> PROVE path = newest
    BY DEF SettledIsNewest
  <2>1. \A id \in Ids : path[id] = newest[id]
    BY EmptySeq DEF Shown, HasAny
  <2> QED
    BY <2>1 DEF TypeOK, ServerTypes
<1>2. Init => TypeOK /\ DeliveryInv
  BY TypeInit, OrderInit, CoveredInit, ShownInit DEF DeliveryInv
<1>3. TypeOK /\ DeliveryInv /\ [Next]_vars => (TypeOK /\ DeliveryInv)'
  BY TypeStep, OrderStep, CoveredStep, ShownStep DEF DeliveryInv
<1>4. TypeOK /\ DeliveryInv => SettledIsNewest
  BY <1>1 DEF DeliveryInv
<1> QED
  BY <1>2, <1>3, <1>4, PTL DEF Spec

=============================================================================
