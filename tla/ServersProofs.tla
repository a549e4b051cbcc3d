---------------------------- MODULE ServersProofs -----------------------------
(***************************************************************************)
(* The address services of the access point, proved for any number of      *)
(* clients and addresses, any lease time, clock and resolution that satisfy *)
(* LeaseAssumption, and any time between two messages.                     *)
(*                                                                         *)
(* A lease is kept as the upper half of a clock that wraps.  The invariant *)
(* says what that means: up to the resolution and a number of turns of the *)
(* clock, the distance from the clock to the expiry is what is left of the *)
(* lease (Counts), also for leases that are over already.                  *)
(*                                                                         *)
(* A DNS answer is a function of its query.  What the walk over the labels *)
(* of a name returns takes two inductions over places in the query: that   *)
(* the walk is defined (WalkExists), and that it stops behind the name     *)
(* (WalkFindsName).                                                        *)
(***************************************************************************)
EXTENDS DhcpServer, DnsServer, WellFoundedInduction, SequenceTheorems, TLAPS

\* The last millisecond of the expiry, as Expired sees it.
End(i) == lease[i].expiry * Unit + Unit - 1

Counts(i) ==
    granted[i] # NoMac /\ left[i] > LongAgo =>
        \E k \in 0 .. Unit - 1, q \in Int : End(i) - ticks = Wrap * q + (left[i] + k)

Owners(i) ==
    /\ lease[i].mac \in {NoMac, granted[i]}
    /\ left[i] > 0 => granted[i] # NoMac /\ lease[i].mac = granted[i]

LeaseInv == DhcpTypeOK /\ OffersAreGood /\ \A i \in Slot : Counts(i) /\ Owners(i)

-----------------------------------------------------------------------------
(* The clock.                                                              *)

LEMMA DivMod ==
  ASSUME NEW w \in Nat \ {0}, NEW a \in Int
  PROVE  /\ a \div w \in Int /\ a % w \in 0 .. w - 1
         /\ a = w * (a \div w) + (a % w)
  BY SMT

LEMMA ModIs ==
  ASSUME NEW w \in Nat \ {0}, NEW a \in Int, NEW q \in Int, NEW r \in 0 .. w - 1,
         a = w * q + r
  PROVE  a % w = r
  BY SMT

LEMMA WrapFacts ==
  /\ Wrap \in Nat \ {0} /\ Half \in Nat /\ 2 * Half =< Wrap /\ Wrap =< 2 * Half + 1
  /\ Unit \in Nat \ {0} /\ Units \in Nat \ {0}
  /\ LeaseMs \in Nat \ {0} /\ LeaseMs + Unit =< Half
<1>1. Unit \in Nat \ {0} /\ Units \in Nat \ {0}
  BY UnitAssumption
<1>2. Wrap \in Nat \ {0}
  <2>1. \A a, b \in Nat \ {0} : a * b \in Nat \ {0}
    BY SMT
  <2> QED BY <1>1, <2>1 DEF Wrap
<1>3. Half \in Nat /\ 2 * Half =< Wrap /\ Wrap =< 2 * Half + 1
  BY <1>2, SMT DEF Half
<1> QED BY <1>1, <1>2, <1>3, LeaseAssumption

\* Whether a lease that is not over for too long counts as expired.
LEMMA ExpiredIs ==
  ASSUME LeaseInv, NEW i \in Slot, granted[i] # NoMac, left[i] > LongAgo
  PROVE  /\ left[i] > 0 => ~Expired(i)
         /\ left[i] =< -Unit => Expired(i)
<1>1. PICK k \in 0 .. Unit - 1, q \in Int : End(i) - ticks = Wrap * q + (left[i] + k)
  BY DEF LeaseInv, Counts
<1>2. left[i] \in LongAgo .. LeaseMs /\ left[i] >= -Half
  BY WrapFacts DEF LeaseInv, DhcpTypeOK, LongAgo
<1>3. ticks \in Int /\ lease[i].expiry \in Int
  BY WrapFacts DEF LeaseInv, DhcpTypeOK
<1>4. End(i) - ticks \in Int
  BY <1>3, WrapFacts DEF End
<1>5. Expired(i) <=> (End(i) - ticks) % Wrap >= Half
  <2>1. lease[i].expiry * Unit + Unit - 1 - ticks = End(i) - ticks
    BY <1>3, WrapFacts DEF End
  <2> QED BY <2>1, Zenon DEF Expired
<1>6. CASE left[i] > 0
  <2>1. left[i] + k \in 0 .. Wrap - 1 /\ left[i] + k < Half
    BY <1>2, <1>6, WrapFacts
  <2>2. (End(i) - ticks) % Wrap = left[i] + k
    BY <2>1, <1>1, <1>4, ModIs, WrapFacts, Zenon
  <2> QED BY <1>5, <1>6, <2>1, <2>2, <1>2, WrapFacts
<1>7. CASE left[i] =< -Unit
  <2>1. Wrap + (left[i] + k) \in 0 .. Wrap - 1 /\ Wrap + (left[i] + k) >= Half
    BY <1>2, <1>7, WrapFacts
  <2>2. End(i) - ticks = Wrap * (q - 1) + (Wrap + (left[i] + k))
    <3>1. Wrap * q = Wrap * (q - 1) + Wrap
      BY WrapFacts, SMT
    <3>2. Wrap * q \in Int /\ Wrap * (q - 1) \in Int
      BY WrapFacts, SMT
    <3> QED BY <1>1, <1>2, <1>4, <3>1, <3>2, WrapFacts
  <2>3. (End(i) - ticks) % Wrap = Wrap + (left[i] + k)
    <3>1. q - 1 \in Int
      OBVIOUS
    <3> QED BY <2>1, <2>2, <3>1, <1>4, ModIs, WrapFacts, Zenon
  <2> QED BY <1>5, <1>7, <2>1, <2>3, <1>2, WrapFacts
<1> QED BY <1>2, <1>6, <1>7, WrapFacts

\* What a REQUEST enters into the table.
LEMMA NewExpiry ==
  ASSUME NEW t \in 0 .. Wrap - 1
  PROVE  LET x == ((t + LeaseMs) % Wrap) \div Unit
         IN  /\ x \in 0 .. Units - 1
             /\ \E k \in 0 .. Unit - 1, q \in Int :
                    (x * Unit + Unit - 1) - t = Wrap * q + (LeaseMs + k)
<1> DEFINE y == (t + LeaseMs) % Wrap
           n == (t + LeaseMs) \div Wrap
           x == y \div Unit
           u == y % Unit
<1>1. y \in 0 .. Wrap - 1 /\ n \in Int /\ t + LeaseMs = Wrap * n + y
  BY DivMod, WrapFacts
<1>2. u \in 0 .. Unit - 1 /\ x \in Int /\ y = Unit * x + u
  <2>1. y \in Int
    BY <1>1, WrapFacts
  <2> QED BY <2>1, DivMod, WrapFacts, Zenon
<1> HIDE DEF y, n, x, u
<1>3. x \in 0 .. Units - 1
  <2>1. Unit * x =< y /\ Unit * x > y - Unit
    BY <1>1, <1>2, WrapFacts
  <2>2. x >= 0
    <3>1. ASSUME x =< -1 PROVE Unit * x =< -Unit
      BY <3>1, <1>2, WrapFacts, SMT
    <3> QED BY <3>1, <2>1, <1>1, <1>2, WrapFacts
  <2>3. x =< Units - 1
    <3>1. ASSUME x >= Units PROVE Unit * x >= Units * Unit
      BY <3>1, <1>2, WrapFacts, SMT
    <3> QED BY <3>1, <2>1, <1>1, <1>2, WrapFacts DEF Wrap
  <2> QED BY <2>2, <2>3, <1>2, WrapFacts
<1>4. Unit - 1 - u \in 0 .. Unit - 1
  BY <1>2, WrapFacts
<1>5. (x * Unit + Unit - 1) - t = Wrap * (-n) + (LeaseMs + (Unit - 1 - u))
  <2>1. x * Unit = Unit * x /\ Unit * x \in Int
    BY <1>2, WrapFacts, SMT
  <2>2. Wrap * (-n) = -(Wrap * n) /\ Wrap * n \in Int
    BY <1>1, WrapFacts, SMT
  <2> QED BY <1>1, <1>2, <2>1, <2>2, WrapFacts
<1>6. -n \in Int
  BY <1>1
<1> QED BY <1>3, <1>4, <1>5, <1>6 DEF x, y

-----------------------------------------------------------------------------
(* The steps.                                                              *)

LEMMA LeaseInit ==
  ASSUME DhcpInit
  PROVE  LeaseInv
<1>1. DhcpTypeOK
  BY WrapFacts, SlotsAssumption DEF DhcpInit, DhcpTypeOK, Free, NoOffer, LongAgo, Slot
<1>2. \A i \in Slot : Counts(i) /\ Owners(i)
  BY WrapFacts DEF DhcpInit, Counts, Owners, Free, LongAgo
<1> QED BY <1>1, <1>2 DEF DhcpInit, LeaseInv, OffersAreGood

\* An entry that is cleared belongs to nobody, or to a lease that is over.
LEMMA ClearedIsOver ==
  ASSUME LeaseInv, NEW m \in Mac, NEW i \in Reusable(m)
  PROVE  i \in Slot /\ left[i] =< 0
<1>1. i \in Slot /\ (lease[i].mac = NoMac \/ Expired(i))
  BY DEF Reusable, First
<1>2. left[i] \in Int
  BY <1>1, WrapFacts DEF LeaseInv, DhcpTypeOK, LongAgo
<1>3. ASSUME left[i] > 0 PROVE FALSE
  <2>1. granted[i] # NoMac /\ lease[i].mac = granted[i]
    BY <1>1, <1>3 DEF LeaseInv, Owners
  <2>2. ~Expired(i)
    BY <1>1, <1>2, <1>3, <2>1, ExpiredIs, WrapFacts DEF LongAgo
  <2> QED BY <1>1, <2>1, <2>2
<1> QED BY <1>1, <1>2, <1>3

LEMMA DiscoverInv ==
  ASSUME LeaseInv, NEW m \in Mac, Discover(m)
  PROVE  LeaseInv'
<1>1. /\ lease' = Clear(Reusable(m)) /\ ticks' = ticks /\ granted' = granted /\ left' = left
      /\ offer' = IF Offered(m) = {} THEN NoOffer
                  ELSE [mac |-> m, slot |-> CHOOSE i \in Offered(m) : TRUE]
  BY DEF Discover
<1>2. lease \in [Slot -> [mac : Mac \union {NoMac}, expiry : 0 .. Units - 1]]
  BY DEF LeaseInv, DhcpTypeOK
<1>3. /\ lease' \in [Slot -> [mac : Mac \union {NoMac}, expiry : 0 .. Units - 1]]
      /\ \A i \in Slot : /\ lease'[i].expiry = lease[i].expiry
                         /\ lease'[i].mac = IF i \in Reusable(m) THEN NoMac ELSE lease[i].mac
  BY <1>1, <1>2 DEF Clear
<1>4. Offered(m) \subseteq Slot
  BY DEF Offered, Reusable, Owned, First
<1>5. 0 \in Slot
  BY SlotsAssumption DEF Slot
<1>6. DhcpTypeOK'
  <2>1. offer' \in [mac : Mac \union {NoMac}, slot : Slot]
    BY <1>1, <1>4, <1>5 DEF NoOffer
  <2> QED BY <1>1, <1>3, <2>1 DEF LeaseInv, DhcpTypeOK
<1>7. OffersAreGood'
  <2>1. CASE Offered(m) = {}
    BY <1>1, <2>1 DEF OffersAreGood
  <2>2. CASE Offered(m) # {}
    <3>1. offer'.slot \in Offered(m) /\ offer'.mac = m
      BY <1>1, <2>2
    <3>2. lease'[offer'.slot].mac \in {m, NoMac}
      BY <3>1, <1>3, <1>4 DEF Offered, Owned, First
    <3> QED BY <3>1, <3>2 DEF OffersAreGood
  <2> QED BY <2>1, <2>2
<1>8. ASSUME NEW i \in Slot PROVE Counts(i)' /\ Owners(i)'
  <2>1. Counts(i)'
    BY <1>1, <1>3, <1>8 DEF LeaseInv, Counts, End
  <2>2. Owners(i)'
    BY <1>1, <1>3, <1>8, ClearedIsOver, WrapFacts DEF LeaseInv, Owners, DhcpTypeOK, LongAgo
  <2> QED BY <2>1, <2>2
<1> QED BY <1>6, <1>7, <1>8 DEF LeaseInv

LEMMA RequestInv ==
  ASSUME LeaseInv, NEW m \in Mac, NEW s \in Slot, Request(m, s)
  PROVE  LeaseInv'
<1> DEFINE x == ((ticks + LeaseMs) % Wrap) \div Unit
<1>1. /\ lease' = [lease EXCEPT ![s] = [mac |-> m, expiry |-> x]]
      /\ granted' = [granted EXCEPT ![s] = m] /\ left' = [left EXCEPT ![s] = LeaseMs]
      /\ offer' = NoOffer /\ ticks' = ticks
  BY DEF Request
<1>2. /\ x \in 0 .. Units - 1
      /\ \E k \in 0 .. Unit - 1, q \in Int :
             (x * Unit + Unit - 1) - ticks = Wrap * q + (LeaseMs + k)
  BY NewExpiry DEF LeaseInv, DhcpTypeOK
<1> HIDE DEF x
<1>3. DhcpTypeOK'
  BY <1>1, <1>2, WrapFacts, SlotsAssumption, SMTT(30)
     DEF LeaseInv, DhcpTypeOK, NoOffer, LongAgo, Slot
<1>4. OffersAreGood'
  BY <1>1 DEF OffersAreGood
<1>5. ASSUME NEW i \in Slot PROVE Counts(i)' /\ Owners(i)'
  <2>1. CASE i = s
    <3>1. lease'[i] = [mac |-> m, expiry |-> x] /\ granted'[i] = m /\ left'[i] = LeaseMs
      BY <1>1, <2>1 DEF LeaseInv, DhcpTypeOK
    <3>2. m # NoMac
      BY MacAssumption
    <3>3. End(i)' = x * Unit + Unit - 1
      BY <3>1 DEF End
    <3> QED BY <1>1, <1>2, <3>1, <3>2, <3>3 DEF Counts, Owners
  <2>2. CASE i # s
    <3>1. lease'[i] = lease[i] /\ granted'[i] = granted[i] /\ left'[i] = left[i]
      BY <1>1, <2>2 DEF LeaseInv, DhcpTypeOK
    <3> QED BY <1>1, <3>1 DEF LeaseInv, Counts, Owners, End
  <2> QED BY <2>1, <2>2
<1> QED BY <1>3, <1>4, <1>5 DEF LeaseInv

LEMMA TickInv ==
  ASSUME LeaseInv, NEW e \in Elapsed, Tick(e)
  PROVE  LeaseInv'
<1>1. /\ ticks' = (ticks + e) % Wrap /\ left' = [i \in Slot |-> Later(left[i], e)]
      /\ lease' = lease /\ granted' = granted /\ offer' = offer
  BY DEF Tick
<1>2. e \in Nat /\ ticks \in 0 .. Wrap - 1 /\ left \in [Slot -> LongAgo .. LeaseMs] /\ LongAgo \in Int
  BY ElapsedAssumption, WrapFacts DEF LeaseInv, DhcpTypeOK, LongAgo
<1>3. ticks' \in 0 .. Wrap - 1 /\ \E n \in Int : ticks + e = Wrap * n + ticks'
  <2>1. ticks + e \in Int
    BY <1>2
  <2> QED BY <1>1, <2>1, DivMod, WrapFacts, Zenon
<1>4. left' \in [Slot -> LongAgo .. LeaseMs]
  BY <1>1, <1>2, WrapFacts DEF Later
<1>5. DhcpTypeOK'
  BY <1>1, <1>3, <1>4 DEF LeaseInv, DhcpTypeOK
<1>6. OffersAreGood'
  BY <1>1 DEF LeaseInv, OffersAreGood
<1>7. ASSUME NEW i \in Slot PROVE Counts(i)'
  <2> SUFFICES ASSUME granted[i] # NoMac, left'[i] > LongAgo
               PROVE  \E k \in 0 .. Unit - 1, q \in Int : End(i) - ticks' = Wrap * q + (left'[i] + k)
    BY <1>1 DEF Counts, End
  <2>1. left'[i] = left[i] - e /\ left[i] > LongAgo
    BY <1>1, <1>2 DEF Later
  <2>2. PICK k \in 0 .. Unit - 1, q \in Int : End(i) - ticks = Wrap * q + (left[i] + k)
    BY <2>1 DEF LeaseInv, Counts
  <2>3. PICK n \in Int : ticks + e = Wrap * n + ticks'
    BY <1>3
  <2>4. End(i) \in Int
    BY WrapFacts DEF LeaseInv, DhcpTypeOK, End
  <2>5. Wrap * (q + n) = Wrap * q + Wrap * n /\ Wrap * q \in Int /\ Wrap * n \in Int
    BY WrapFacts, SMT
  <2>6. left[i] \in Int /\ left'[i] \in Int /\ ticks' \in Int /\ ticks \in Int /\ k \in Int
    BY <1>2, <1>3, <1>4, WrapFacts
  <2>7. End(i) - ticks' = Wrap * (q + n) + (left'[i] + k)
    <3> DEFINE a == Wrap * q
               b == Wrap * n
               x == End(i)
    <3>1. a \in Int /\ b \in Int /\ x \in Int /\ e \in Int
      BY <1>2, <2>4, <2>5
    <3>2. x - ticks = a + (left[i] + k) /\ ticks + e = b + ticks'
      BY <2>2, <2>3
    <3> HIDE DEF a, b, x
    <3>3. x - ticks' = (a + b) + (left'[i] + k)
      BY <2>1, <2>6, <3>1, <3>2, SMTT(30)
    <3>4. x - ticks' = Wrap * (q + n) + (left'[i] + k)
      BY <2>5, <3>3, Zenon DEF a, b
    <3> QED BY <3>4 DEF x
  <2>8. q + n \in Int
    OBVIOUS
  <2> QED BY <2>7, <2>8
<1>8. ASSUME NEW i \in Slot PROVE Owners(i)'
  <2>1. left'[i] > 0 => left[i] > 0
    BY <1>1, <1>2, WrapFacts DEF Later, LongAgo
  <2> QED BY <1>1, <2>1 DEF LeaseInv, Owners
<1> QED BY <1>5, <1>6, <1>7, <1>8 DEF LeaseInv

LEMMA IgnoredInv ==
  ASSUME LeaseInv, NEW m \in Mac, NEW s \in Slot, RequestIgnored(m, s)
  PROVE  LeaseInv'
<1>1. 0 \in Slot
  BY SlotsAssumption DEF Slot
<1> QED BY <1>1 DEF RequestIgnored, LeaseInv, DhcpTypeOK, OffersAreGood, NoOffer, Counts, Owners, End

LEMMA RebootInv ==
  ASSUME LeaseInv, Reboot
  PROVE  LeaseInv'
<1>1. DhcpTypeOK'
  BY WrapFacts, SlotsAssumption DEF Reboot, DhcpTypeOK, Free, NoOffer, LongAgo, Slot
<1>2. \A i \in Slot : Counts(i)' /\ Owners(i)'
  BY WrapFacts DEF Reboot, Counts, Owners, Free, LongAgo
<1> QED BY <1>1, <1>2 DEF Reboot, LeaseInv, OffersAreGood

LEMMA StepInv ==
  ASSUME LeaseInv, [DhcpNext]_dhcpVars
  PROVE  LeaseInv'
<1>1. CASE UNCHANGED dhcpVars
  BY <1>1 DEF dhcpVars, LeaseInv, DhcpTypeOK, OffersAreGood, Counts, Owners, End
<1>2. CASE DhcpNext
  BY <1>2, DiscoverInv, RequestInv, IgnoredInv, RebootInv, TickInv DEF DhcpNext
<1> QED BY <1>1, <1>2

LEMMA LeasesInv == DhcpSpec => []LeaseInv
  BY LeaseInit, StepInv, PTL DEF DhcpSpec

-----------------------------------------------------------------------------
(* The DHCP server.                                                        *)

\* Every variable keeps its type: an expiry fits the 16 bits it is kept in, and
\* the clock its 32 (dhcpserver.c 254-260).
THEOREM LeaseTypes == DhcpSpec => []DhcpTypeOK
<1>1. LeaseInv => DhcpTypeOK
  BY DEF LeaseInv
<1> QED BY <1>1, LeasesInv, PTL

\* As long as a lease runs no other client is offered or given its address
\* (dhcpserver.c 214-278).
THEOREM LeasesExclusive == DhcpSpec => []LeasesAreExclusive
<1>1. LeaseInv => LeasesAreExclusive
  BY DEF LeaseInv, Owners, LeasesAreExclusive
<1> QED BY <1>1, LeasesInv, PTL

\* A REQUEST that takes up the last offer is granted (dhcpserver.c 217-270).
THEOREM OffersTakenUp == DhcpSpec => []OffersAreGood
<1>1. LeaseInv => OffersAreGood
  BY DEF LeaseInv
<1> QED BY <1>1, LeasesInv, PTL

\* A set of numbers has a first one.
LEMMA LeastExists ==
  ASSUME NEW S \in SUBSET Nat, S # {}
  PROVE  \E i \in S : \A j \in S : ~(j < i)
<1>1. PICK i \in S : \A j \in S : <<j, i>> \notin OpToRel(<, Nat)
  BY WFMin, NatLessThanWellFounded, Zenon
<1> QED BY <1>1, Zenon DEF OpToRel

\* A set of entries has a first one.
LEMMA FirstExists ==
  ASSUME NEW S \in SUBSET Slot, S # {}
  PROVE  First(S) # {}
<1>1. S \subseteq Nat
  BY SlotsAssumption DEF Slot
<1>2. PICK i \in S : \A j \in S : ~(j < i)
  BY <1>1, LeastExists
<1> QED BY <1>1, <1>2 DEF First

\* A client is turned away only if every lease runs, up to the resolution of the
\* table, or is over for more than half the range of the clock
\* (dhcpserver.c 223-240).
THEOREM ExpiredReused == DhcpSpec => ExpiredIsReused
<1> DEFINE Step == \A m \in Mac :
                      Discover(m) /\ offer' = NoOffer =>
                          \A i \in Slot : left[i] > -Unit \/ left[i] < -Half
<1>1. ASSUME LeaseInv, NEW m \in Mac, Discover(m), offer' = NoOffer, NEW i \in Slot,
             ~(left[i] > -Unit \/ left[i] < -Half)
      PROVE  FALSE
  <2>1. left[i] \in LongAgo .. LeaseMs /\ left[i] =< -Unit /\ left[i] > LongAgo
    BY <1>1, WrapFacts DEF LeaseInv, DhcpTypeOK, LongAgo
  <2>2. Offered(m) = {}
    BY <1>1, MacAssumption DEF Discover, NoOffer
  <2>3. Owned(m) = {}
    BY <2>2, FirstExists DEF Offered, Owned
  <2>4. lease[i].mac = NoMac \/ Expired(i)
    <3>1. CASE granted[i] = NoMac
      BY <1>1, <3>1 DEF LeaseInv, Owners
    <3>2. CASE granted[i] # NoMac
      BY <1>1, <2>1, <3>2, ExpiredIs
    <3> QED BY <3>1, <3>2
  <2> DEFINE S == {j \in Slot : (lease[j].mac = NoMac \/ Expired(j))
                                /\ \A o \in Owned(m) : j < o}
  <2>5. Reusable(m) = First(S)
    BY DEF Reusable
  <2>6. i \in S /\ S \in SUBSET Slot
    BY <1>1, <2>3, <2>4
  <2>7. First(S) # {}
    BY <2>6, FirstExists
  <2> QED BY <2>2, <2>3, <2>5, <2>7 DEF Offered
<1>2. LeaseInv => [Step]_dhcpVars
  BY <1>1
<1> QED BY <1>2, LeasesInv, PTL DEF ExpiredIsReused

-----------------------------------------------------------------------------
(* The DNS server.                                                         *)

LEMMA ReplyLength ==
  ASSUME NEW msg \in Message, Reply(msg) # NoReply
  PROVE  HeaderLen + Len(Reply(msg)) =< MsgMax
<1> DEFINE body == Copied(msg)
           n == NameLen(body) + TypeLen
           question == [i \in 1 .. n |-> IF i \in DOMAIN body THEN body[i] ELSE Junk]
<1>1. Reply(msg) = question \o Answer /\ NameLen(body) \in 0 .. NameMax
  BY DEF Reply, NameFits
<1>2. n \in Nat /\ n =< NameMax + TypeLen
  BY <1>1, SizeAssumption
<1> HIDE DEF body, n
<1>3. Len(question) = n /\ question \in Seq({question[i] : i \in 1 .. n})
  BY <1>2
<1>4. Len(Answer) = AnswerLen /\ Answer \in Seq({AnswerByte})
  BY SizeAssumption DEF Answer
<1>5. Len(Reply(msg)) = n + AnswerLen
  <2> DEFINE T == {question[i] : i \in 1 .. n} \union {AnswerByte}
  <2>1. question \in Seq(T) /\ Answer \in Seq(T)
    BY <1>3, <1>4
  <2> QED BY <1>1, <1>3, <1>4, <2>1, ConcatProperties, ZenonT(30)
<1> QED BY <1>2, <1>5, SizeAssumption

\* No answer runs over the end of its buffer, for any message and any sizes that
\* SizeAssumption relates as those of the code are (dnsserver.c 153-201).
THEOREM RepliesFit == DnsSpec => []ReplyFits
<1>1. DnsInit => ReplyFits
  BY DEF DnsInit, ReplyFits
<1>2. ReplyFits /\ [DnsNext]_dnsVars => ReplyFits'
  BY ReplyLength DEF ReplyFits, DnsNext, Receive, dnsVars
<1> QED BY <1>1, <1>2, PTL DEF DnsSpec
-----------------------------------------------------------------------------
(* What the walk over the labels finds.                                    *)

\* One step of the walk, with what the rest of it finds in f.
WalkStep(body, f, p) ==
    IF p >= Len(body) THEN p
    ELSE IF body[p + 1] = 0 THEN p + 1
    ELSE IF body[p + 1] > LabelMax THEN Invalid
    ELSE f[p + 1 + body[p + 1]]

LEMMA ByteIs ==
  ASSUME NEW b \in 0 .. 255
  PROVE  b \in 1 .. LabelMax \/ b = 0 \/ b > LabelMax
  BY SizeAssumption

LEMMA ByteAt ==
  ASSUME NEW body \in Seq(0 .. 255), NEW p \in Nat, p < Len(body)
  PROVE  body[p + 1] \in 0 .. 255
<1>1. p + 1 \in 1 .. Len(body)
  <2>1. Len(body) \in Nat
    OBVIOUS
  <2> QED BY <2>1
<1> QED BY <1>1, ElementOfSeq, Zenon

LEMMA WalkStepType ==
  ASSUME NEW body \in Seq(0 .. 255), NEW p \in 0 .. Len(body) + LabelMax,
         NEW f \in [0 .. Len(body) + LabelMax -> Int]
  PROVE  WalkStep(body, f, p) \in Int
<1>1. p \in Nat /\ Len(body) \in Nat /\ LabelMax \in Nat
  BY SizeAssumption
<1>2. CASE p >= Len(body)
  BY <1>1, <1>2 DEF WalkStep
<1>3. CASE p < Len(body)
  <2>1. body[p + 1] \in 0 .. 255
    BY <1>1, <1>3, ByteAt
  <2>2. CASE body[p + 1] \in 1 .. LabelMax
    <3>1. p + 1 + body[p + 1] \in 0 .. Len(body) + LabelMax
      BY <1>1, <1>3, <2>2
    <3>2. f[p + 1 + body[p + 1]] \in Int
      BY <3>1
    <3>3. ~(p >= Len(body)) /\ body[p + 1] # 0 /\ ~(body[p + 1] > LabelMax)
      BY <1>1, <1>3, <2>2
    <3> QED BY <3>2, <3>3, Zenon DEF WalkStep
  <2>3. CASE body[p + 1] = 0 \/ body[p + 1] > LabelMax
    BY <1>1, <2>3 DEF WalkStep, Invalid
  <2> QED BY <2>1, <2>2, <2>3, ByteIs, Zenon
<1> QED BY <1>1, <1>2, <1>3

\* The walk is defined: it only goes forward, so it can be tabulated from the end.
LEMMA WalkExists ==
  ASSUME NEW body \in Seq(0 .. 255)
  PROVE  \E f : f = [p \in 0 .. Len(body) + LabelMax |-> WalkStep(body, f, p)]
<1> DEFINE n == Len(body) + LabelMax
           Tabulated(f, k) == \A p \in 0 .. n : p >= k => f[p] = WalkStep(body, f, p)
           S == {k \in 0 .. n + 1 : \E f \in [0 .. n -> Int] : Tabulated(f, k)}
<1>1. n \in Nat /\ Len(body) \in Nat /\ LabelMax \in Nat
  BY SizeAssumption
<1>2. n + 1 \in S
  <2>1. [p \in 0 .. n |-> 0] \in [0 .. n -> Int]
    OBVIOUS
  <2>2. \A f : Tabulated(f, n + 1)
    BY <1>1
  <2>3. n + 1 \in 0 .. n + 1
    BY <1>1
  <2> QED BY <2>1, <2>2, <2>3
<1>3. ASSUME NEW k \in 0 .. n, k + 1 \in S PROVE k \in S
  <2>1. PICK f \in [0 .. n -> Int] : Tabulated(f, k + 1)
    BY <1>3
  <2> DEFINE g == [f EXCEPT ![k] = WalkStep(body, f, k)]
  <2>2. g \in [0 .. n -> Int]
    <3>1. WalkStep(body, f, k) \in Int
      BY WalkStepType
    <3> QED BY <3>1
  <2>3. /\ g[k] = WalkStep(body, f, k)
        /\ \A p \in 0 .. n : p # k => g[p] = f[p]
    OBVIOUS
  <2> HIDE DEF g
  <2>4. ASSUME NEW p \in 0 .. n, p >= k PROVE WalkStep(body, g, p) = WalkStep(body, f, p)
    <3>1. CASE p < Len(body) /\ body[p + 1] \in 1 .. LabelMax
      <4>1. p + 1 + body[p + 1] \in 0 .. n /\ p + 1 + body[p + 1] # k
        BY <1>1, <2>4, <3>1
      <4> QED BY <2>3, <4>1 DEF WalkStep
    <3>2. CASE p >= Len(body)
      BY <3>2 DEF WalkStep
    <3>3. CASE p < Len(body) /\ body[p + 1] \notin 1 .. LabelMax
      <4>1. body[p + 1] \in 0 .. 255
        <5>1. p \in Nat
          BY <1>1
        <5> QED BY <5>1, <3>3, ByteAt, Zenon
      <4>2. body[p + 1] = 0 \/ body[p + 1] > LabelMax
        BY <3>3, <4>1, ByteIs, Zenon
      <4>3. ~(p >= Len(body))
        BY <1>1, <3>3
      <4> QED BY <4>2, <4>3 DEF WalkStep
    <3> QED BY <1>1, <3>1, <3>2, <3>3
  <2>5. ASSUME NEW p \in 0 .. n, p >= k PROVE g[p] = WalkStep(body, g, p)
    <3>1. CASE p = k
      BY <2>3, <2>4, <3>1
    <3>2. CASE p # k
      <4>1. p >= k + 1
        BY <1>1, <2>5, <3>2
      <4>2. f[p] = WalkStep(body, f, p)
        BY <2>1, <4>1
      <4> QED BY <2>3, <2>4, <2>5, <3>2, <4>2
    <3> QED BY <3>1, <3>2
  <2>6. Tabulated(g, k)
    BY <2>5
  <2>7. k \in 0 .. n + 1
    BY <1>1
  <2> QED BY <2>2, <2>6, <2>7
<1>4. 0 \in S
  <2>1. PICK k \in S : \A j \in S : ~(j < k)
    <3>1. S \in SUBSET Nat
      BY <1>1
    <3> HIDE DEF S
    <3> QED BY <3>1, <1>2, LeastExists
  <2>2. k \in 0 .. n + 1
    BY <2>1
  <2> HIDE DEF S
  <2>3. CASE k # 0
    <3>1. k - 1 \in 0 .. n /\ (k - 1) + 1 = k /\ k - 1 < k
      BY <1>1, <2>2, <2>3
    <3>2. k - 1 \in S
      BY <1>3, <2>1, <3>1
    <3> QED BY <2>1, <3>1, <3>2
  <2> QED BY <2>1, <2>3
<1>5. PICK f \in [0 .. n -> Int] : Tabulated(f, 0)
  BY <1>4
<1>6. \A p \in 0 .. n : f[p] = WalkStep(body, f, p)
  BY <1>1, <1>5
<1>7. f = [p \in 0 .. n |-> WalkStep(body, f, p)]
  <2>1. f = [p \in 0 .. n |-> f[p]]
    BY <1>5
  <2> QED BY <1>6, <2>1
<1> QED BY <1>7, Zenon

\* The walk stops behind the name a message begins with.
LEMMA WalkFindsName ==
  ASSUME NEW body \in Seq(0 .. 255), NEW len \in 1 .. Len(body), IsName(body, len)
  PROVE  NameLen(body) = len
<1> DEFINE n == Len(body) + LabelMax
           walk == CHOOSE f : f = [p \in 0 .. n |-> WalkStep(body, f, p)]
<1>1. NameLen(body) = walk[0]
  BY Zenon DEF NameLen, WalkStep
<1>2. \A p \in 0 .. n : walk[p] = WalkStep(body, walk, p)
  <2>1. walk = [p \in 0 .. n |-> WalkStep(body, walk, p)]
    BY WalkExists, Zenon
  <2> HIDE DEF walk
  <2> QED BY <2>1
<1> HIDE DEF walk
<1>3. n \in Nat /\ Len(body) \in Nat /\ LabelMax \in Nat /\ len \in Nat
  BY SizeAssumption
<1>4. PICK S \in SUBSET (1 .. len) :
          /\ {1, len} \subseteq S
          /\ body[len] = 0
          /\ \A i \in S \ {len} : body[i] \in 1 .. LabelMax /\ i + body[i] + 1 \in S
  BY DEF IsName
<1> DEFINE Wrong == {i \in S : walk[i - 1] # len}
           T == {len - i : i \in Wrong}
<1>5. Wrong = {}
  <2> SUFFICES ASSUME Wrong # {} PROVE FALSE
    OBVIOUS
  <2>1. T \in SUBSET Nat /\ T # {}
    BY <1>3, <1>4
  <2>2. PICK t \in T : \A j \in T : ~(j < t)
    <3> HIDE DEF T
    <3> QED BY <2>1, LeastExists
  <2>3. PICK i \in Wrong : t = len - i
    BY <2>2
  <2>4. i \in 1 .. len /\ i \in S /\ walk[i - 1] # len
    BY <1>4, <2>3
  <2>5. /\ i - 1 \in 0 .. n /\ ~(i - 1 >= Len(body)) /\ (i - 1) + 1 = i
    BY <1>3, <2>4
  <2>6. walk[i - 1] = WalkStep(body, walk, i - 1)
    BY <1>2, <2>5
  <2>7. CASE i = len
    <3>1. body[(i - 1) + 1] = 0
      BY <1>4, <2>5, <2>7
    <3>2. WalkStep(body, walk, i - 1) = (i - 1) + 1
      BY <2>5, <3>1, Zenon DEF WalkStep
    <3> QED BY <2>4, <2>5, <2>6, <2>7, <3>2
  <2>8. CASE i # len
    <3>1. body[i] \in 1 .. LabelMax /\ i + body[i] + 1 \in S
      BY <1>4, <2>4, <2>8
    <3>2. walk[i - 1] = walk[(i + body[i] + 1) - 1]
      <4>1. body[i] # 0 /\ ~(body[i] > LabelMax) /\ (i + body[i] + 1) - 1 = i + body[i]
        BY <1>3, <2>4, <3>1
      <4>2. WalkStep(body, walk, i - 1) = walk[(i - 1) + 1 + body[(i - 1) + 1]]
        BY <2>5, <4>1, Zenon DEF WalkStep
      <4> QED BY <2>5, <2>6, <4>1, <4>2, Zenon
    <3>3. len - (i + body[i] + 1) < t
      BY <1>3, <2>3, <2>4, <3>1
    <3>4. i + body[i] + 1 \in Wrong
      BY <2>4, <3>1, <3>2
    <3>5. len - (i + body[i] + 1) \in T
      BY <3>4
    <3> HIDE DEF T
    <3> QED BY <2>2, <3>3, <3>5
  <2> QED BY <2>7, <2>8
<1>6. walk[1 - 1] = len
  BY <1>4, <1>5
<1>7. 1 - 1 = 0
  OBVIOUS
<1> QED BY <1>1, <1>6, <1>7, Zenon

LEMMA CopiedIs ==
  ASSUME NEW msg \in Message
  PROVE  /\ msg.body \in Seq(0 .. 255) /\ Copied(msg) \in Seq(0 .. 255)
         /\ Len(Copied(msg)) =< Len(msg.body)
         /\ \A i \in 1 .. Len(Copied(msg)) : Copied(msg)[i] = msg.body[i]
<1>1. msg.body \in Seq(0 .. 255)
  BY MessageAssumption
<1>2. MsgMax - HeaderLen \in Nat
  BY SizeAssumption
<1>3. CASE Len(msg.body) =< MsgMax - HeaderLen
  BY <1>1, <1>3 DEF Copied
<1>4. CASE ~(Len(msg.body) =< MsgMax - HeaderLen)
  <2>1. Copied(msg) = SubSeq(msg.body, 1, MsgMax - HeaderLen)
    BY <1>4 DEF Copied
  <2>2. 1 =< Len(msg.body) + 1 /\ MsgMax - HeaderLen =< Len(msg.body) /\ Len(msg.body) \in Nat
    BY <1>1, <1>2, <1>4
  <2>3. /\ SubSeq(msg.body, 1, MsgMax - HeaderLen) \in Seq(0 .. 255)
        /\ Len(SubSeq(msg.body, 1, MsgMax - HeaderLen)) = MsgMax - HeaderLen
        /\ \A i \in 1 .. MsgMax - HeaderLen :
               SubSeq(msg.body, 1, MsgMax - HeaderLen)[i] = msg.body[i]
    <3> DEFINE m == MsgMax - HeaderLen
               s == msg.body
    <3>1. \A i \in 1 .. m : s[i] \in 0 .. 255
      <4>1. \A i \in 1 .. m : i \in 1 .. Len(s)
        BY <1>2, <2>2
      <4> QED BY <1>1, <4>1, ElementOfSeq, Zenon
    <3>2. m \in Nat /\ (1 =< m => m - 1 + 1 = m) /\ (~(1 =< m) => m = 0)
      BY <1>2
    <3> HIDE DEF m, s
    <3>3. /\ SubSeq(s, 1, m) \in Seq(0 .. 255)
          /\ Len(SubSeq(s, 1, m)) = IF 1 =< m THEN m - 1 + 1 ELSE 0
          /\ \A i \in 1 .. m - 1 + 1 : SubSeq(s, 1, m)[i] = s[1 + i - 1]
      BY <3>1, <3>2, SubSeqProperties, SMT
    <3>4. \A i \in 1 .. m : i \in 1 .. m - 1 + 1 /\ 1 + i - 1 = i
      BY <3>2
    <3>5. Len(SubSeq(s, 1, m)) = m
      BY <3>2, <3>3, Zenon
    <3>6. \A i \in 1 .. m : SubSeq(s, 1, m)[i] = s[i]
      BY <3>3, <3>4, Zenon
    <3> QED BY <3>3, <3>5, <3>6, Zenon DEF m, s
  <2> QED BY <1>1, <1>2, <2>1, <2>2, <2>3
<1> QED BY <1>3, <1>4

LEMMA QuestionAnswered ==
  ASSUME NEW msg \in Message, NEW len \in 1 .. NameMax, Standard(msg),
         len + TypeLen =< Len(Copied(msg)), IsName(msg.body, len)
  PROVE  Reply(msg) = SubSeq(msg.body, 1, len + TypeLen) \o Answer
<1> DEFINE body == Copied(msg)
           n == len + TypeLen
           question == [i \in 1 .. n |-> IF i \in DOMAIN body THEN body[i] ELSE Junk]
<1>1. /\ msg.body \in Seq(0 .. 255) /\ body \in Seq(0 .. 255)
      /\ Len(body) =< Len(msg.body)
      /\ \A i \in 1 .. Len(body) : body[i] = msg.body[i]
  BY CopiedIs
<1> HIDE DEF body
<1>2. len \in Nat /\ TypeLen \in Nat /\ n \in Nat /\ n =< Len(body) /\ len \in 1 .. Len(body)
      /\ Len(body) \in Nat /\ Len(msg.body) \in Nat
  BY <1>1, SizeAssumption DEF body
<1>3. IsName(body, len)
  <2>1. \A i \in 1 .. len : body[i] = msg.body[i]
    <3>1. \A i \in 1 .. len : i \in 1 .. Len(body)
      BY <1>2
    <3> QED BY <1>1, <3>1, Zenon
  <2>2. PICK S \in SUBSET (1 .. len) :
            /\ {1, len} \subseteq S
            /\ msg.body[len] = 0
            /\ \A i \in S \ {len} :
                  /\ msg.body[i] \in 1 .. LabelMax
                  /\ i + msg.body[i] + 1 \in S
                  /\ \A j \in i + 1 .. i + msg.body[i] : j \notin S
    BY Zenon DEF IsName
  <2>3. body[len] = 0
    BY <2>1, <2>2
  <2>4. \A i \in S \ {len} :
            /\ body[i] \in 1 .. LabelMax
            /\ i + body[i] + 1 \in S
            /\ \A j \in i + 1 .. i + body[i] : j \notin S
    <3> TAKE i \in S \ {len}
    <3>1. i \in 1 .. len /\ body[i] = msg.body[i]
      BY <2>1, <2>2
    <3>2. /\ msg.body[i] \in 1 .. LabelMax
          /\ i + msg.body[i] + 1 \in S
          /\ \A j \in i + 1 .. i + msg.body[i] : j \notin S
      BY <2>2
    <3> QED BY <3>1, <3>2, Zenon
  <2> QED BY <2>2, <2>3, <2>4, Zenon DEF IsName
<1>4. NameLen(body) = len
  BY <1>1, <1>2, <1>3, WalkFindsName
<1>5. NameFits(NameLen(body))
  BY <1>2, <1>4 DEF NameFits
<1>6. Reply(msg) = question \o Answer
  BY <1>4, <1>5, Zenon DEF Reply, body
<1>7. question = SubSeq(msg.body, 1, n)
  <2>1. SubSeq(msg.body, 1, n) = [i \in 1 .. n |-> msg.body[i]]
    BY <1>1, <1>2
  <2>2. \A i \in 1 .. n : question[i] = msg.body[i]
    BY <1>1, <1>2
  <2>3. question = [i \in 1 .. n |-> msg.body[i]]
    BY <2>2
  <2> QED BY <2>1, <2>3
<1> QED BY <1>6, <1>7

\* A standard query with a complete question is answered with the question and
\* the answer, for names of any length and any number of labels; nothing else is
\* answered than a standard query (dnsserver.c 113-215).
THEOREM QuestionsAnswered == DnsSpec => []AnswersTheQuestion
<1>1. DnsInit => AnswersTheQuestion
  <2> SUFFICES ASSUME DnsInit PROVE AnswersTheQuestion
    OBVIOUS
  <2>1. ~Standard(query) /\ reply = NoReply
    BY DEF DnsInit, Standard, NoQuery
  <2> QED BY <2>1 DEF AnswersTheQuestion
<1>2. AnswersTheQuestion /\ [DnsNext]_dnsVars => AnswersTheQuestion'
  <2> SUFFICES ASSUME AnswersTheQuestion, [DnsNext]_dnsVars PROVE AnswersTheQuestion'
    OBVIOUS
  <2>1. CASE UNCHANGED dnsVars
    BY <2>1 DEF dnsVars, AnswersTheQuestion
  <2>2. ASSUME NEW msg \in Message, Receive(msg) PROVE AnswersTheQuestion'
    <3>1. query' = msg /\ reply' = Reply(msg)
      BY <2>2 DEF Receive
    <3>2. reply' # NoReply => Standard(query')
      <4>1. Reply(msg) # NoReply => Standard(msg)
        BY Zenon DEF Reply
      <4> QED BY <3>1, <4>1, Zenon
    <3>3. ASSUME NEW len \in 1 .. NameMax, Standard(query'),
                 len + TypeLen =< Len(Copied(query')), IsName(query'.body, len)
          PROVE  reply' = SubSeq(query'.body, 1, len + TypeLen) \o Answer
      BY <3>1, <3>3, QuestionAnswered, Zenon
    <3> QED BY <3>2, <3>3, Zenon DEF AnswersTheQuestion
  <2> QED BY <2>1, <2>2 DEF DnsNext
<1> QED BY <1>1, <1>2, PTL DEF DnsSpec
=============================================================================
