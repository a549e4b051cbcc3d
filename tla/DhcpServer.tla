----------------------------- MODULE DhcpServer -----------------------------
(***************************************************************************)
(* The DHCP server of the access point (dhcpserver.c): a table of leases,  *)
(* changed by DISCOVER and REQUEST messages.  The end of a lease is kept   *)
(* as the upper half of a millisecond clock that wraps, and is compared    *)
(* with the clock as a signed difference, so a lease that ended long ago   *)
(* looks as if it ran again.                                               *)
(*                                                                         *)
(* Messages of any client may come at any time, also lost ones repeated:   *)
(* a message changes the table by itself, whatever came before it.         *)
(***************************************************************************)
EXTENDS Integers

CONSTANTS
    Mac,         \* bound: the clients
    NoMac,       \* the address of zeros, which marks a free entry
    Slots,       \* DHCPS_MAX_IP
    LeaseMs,     \* DEFAULT_LEASE_TIME_S in milliseconds
    Unit,        \* resolution of a lease's expiry, 2^16 ms in the code
    Units,       \* the clock wraps after Units * Unit milliseconds, 2^32
    Elapsed      \* bound: milliseconds between two messages

ASSUME MacAssumption == NoMac \notin Mac
ASSUME SlotsAssumption == Slots \in Nat \ {0}
ASSUME UnitAssumption == Unit \in Nat \ {0} /\ Units \in Nat \ {0}

Slot == 0 .. Slots - 1
Wrap == Units * Unit
Half == Wrap \div 2

\* A lease runs out, rounded up, before it looks as if it were in the past.
ASSUME LeaseAssumption == LeaseMs \in Nat \ {0} /\ LeaseMs + Unit =< Half
ASSUME ElapsedAssumption == Elapsed \subseteq Nat

VARIABLES
    ticks,    \* cyw43_hal_ticks_ms()
    lease,
    granted,  \* history: the client the address was last given to
    left,     \* history: what is left of that lease; negative once it is over
    offer     \* history: the offer that has just been made

dhcpVars == <<ticks, lease, granted, left, offer>>

Free == [mac |-> NoMac, expiry |-> 0]
NoOffer == [mac |-> NoMac, slot |-> 0]
LongAgo == -Half - 1

DhcpInit ==
    /\ ticks = 0
    /\ lease = [i \in Slot |-> Free]
    /\ granted = [i \in Slot |-> NoMac]
    /\ left = [i \in Slot |-> LongAgo]
    /\ offer = NoOffer

-----------------------------------------------------------------------------
\* Mutant of Expired: the expiry is not rounded up.
ExpiredEarly(i) == (lease[i].expiry * Unit - ticks) % Wrap >= Half

\* (int32_t)(expiry - cyw43_hal_ticks_ms()) < 0
Expired(i) == (lease[i].expiry * Unit + Unit - 1 - ticks) % Wrap >= Half

Owned(m) == {i \in Slot : lease[i].mac = m}

First(S) == {i \in S : \A j \in S : i =< j}

\* Mutant of Reusable: an expired entry is offered with its owner still in it.
ReusableFree(m) == First({i \in Owned(NoMac) : \A j \in Owned(m) : i < j})

\* The entry the search settles on until it meets one that m owns: the first one
\* that is free or expired, and comes before that.
Reusable(m) ==
    First({i \in Slot : /\ lease[i].mac = NoMac \/ Expired(i)
                        /\ \A j \in Owned(m) : i < j})

\* Mutant of Clear: the entry keeps its owner.
ClearNothing(S) == lease

Clear(S) == [i \in Slot |-> IF i \in S THEN [lease[i] EXCEPT !.mac = NoMac] ELSE lease[i]]

Offered(m) == IF Owned(m) # {} THEN First(Owned(m)) ELSE Reusable(m)

\* DHCPDISCOVER: an expired entry that was settled on is cleared even if the
\* client owns another one; without any the message is ignored.
Discover(m) ==
    /\ lease' = Clear(Reusable(m))
    /\ offer' = IF Offered(m) = {} THEN NoOffer
                ELSE [mac |-> m, slot |-> CHOOSE i \in Offered(m) : TRUE]
    /\ UNCHANGED <<ticks, granted, left>>

\* Mutant of Request: the sum is not kept within the width of the clock.
RequestWide(m, i) ==
    /\ lease[i].mac \in {m, NoMac}
    /\ lease' = [lease EXCEPT ![i] =
                    [mac |-> m, expiry |-> (ticks + LeaseMs) \div Unit]]
    /\ granted' = [granted EXCEPT ![i] = m]
    /\ left' = [left EXCEPT ![i] = LeaseMs]
    /\ offer' = NoOffer
    /\ UNCHANGED ticks

\* DHCPREQUEST for an address of the table: granted if it is the client's or free.
Request(m, i) ==
    /\ lease[i].mac \in {m, NoMac}
    /\ lease' = [lease EXCEPT ![i] =
                    [mac |-> m, expiry |-> ((ticks + LeaseMs) % Wrap) \div Unit]]
    /\ granted' = [granted EXCEPT ![i] = m]
    /\ left' = [left EXCEPT ![i] = LeaseMs]
    /\ offer' = NoOffer
    /\ UNCHANGED ticks

\* Any other REQUEST is ignored, without a NACK.
RequestIgnored(m, i) ==
    /\ lease[i].mac \notin {m, NoMac}
    /\ offer' = NoOffer
    /\ UNCHANGED <<ticks, lease, granted, left>>

\* The controller is restarted; switching the access point off and on keeps the
\* table.  The history starts anew, as nothing is known of earlier leases.
Reboot ==
    /\ ticks' = 0
    /\ lease' = [i \in Slot |-> Free]
    /\ granted' = [i \in Slot |-> NoMac]
    /\ left' = [i \in Slot |-> LongAgo]
    /\ offer' = NoOffer

Later(t, e) == IF t - e < LongAgo THEN LongAgo ELSE t - e

Tick(e) ==
    /\ ticks' = (ticks + e) % Wrap
    /\ left' = [i \in Slot |-> Later(left[i], e)]
    /\ UNCHANGED <<lease, granted, offer>>

DhcpNext ==
    \/ \E m \in Mac : Discover(m)
    \/ \E m \in Mac, i \in Slot : Request(m, i) \/ RequestIgnored(m, i)
    \/ Reboot
    \/ \E e \in Elapsed : Tick(e)

DhcpSpec == DhcpInit /\ [][DhcpNext]_dhcpVars

-----------------------------------------------------------------------------
DhcpTypeOK ==
    /\ ticks \in 0 .. Wrap - 1
    /\ lease \in [Slot -> [mac : Mac \union {NoMac}, expiry : 0 .. Units - 1]]
    /\ granted \in [Slot -> Mac \union {NoMac}]
    /\ left \in [Slot -> LongAgo .. LeaseMs]
    /\ offer \in [mac : Mac \union {NoMac}, slot : Slot]

\* While a lease runs its address belongs to its client: it is neither offered
\* nor granted to another one, wherever the clock wraps (dhcpserver.c 214-278).
LeasesAreExclusive ==
    \A i \in Slot : left[i] > 0 => lease[i].mac = granted[i]

\* An offer can be taken up: as long as nobody else takes the address, a REQUEST
\* for it will be granted (dhcpserver.c 217-270).
OffersAreGood ==
    offer # NoOffer => lease[offer.slot].mac \in {offer.mac, NoMac}

\* A DISCOVER is left without an answer only if no address is to be had: every
\* lease runs, or is over for less than the resolution of the table or for more
\* than half the clock's range (dhcpserver.c 223-240).
ExpiredIsReused ==
    [][\A m \in Mac :
          Discover(m) /\ offer' = NoOffer =>
              \A i \in Slot : left[i] > -Unit \/ left[i] < -Half]_dhcpVars
=============================================================================
