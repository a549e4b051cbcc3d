------------------------- MODULE SettingsStoreProofs ------------------------
(***************************************************************************)
(* Proofs about SettingsStore and SettingsPage, for every set of settings. *)
(*                                                                         *)
(* The inductive invariant adds to the three invariants of the store what  *)
(* flash may hold in each phase of a write: after the erase nothing but a  *)
(* blank page or the new image.                                            *)
(*                                                                         *)
(* The page rests on one fact about strings: what is escaped for JSON is   *)
(* read back as it was (TextIsRead).  The text is made up from its         *)
(* beginning and read from its end, so the first needs induction upwards,  *)
(* the second downwards.  As a claim cannot be a parameter, induction is   *)
(* stated for the members of a set (Upwards, Downwards).                   *)
(***************************************************************************)
EXTENDS SettingsPage, SequenceTheorems, WellFoundedInduction, TLAPS

\* While a page is programmed and read back, flash is blank or up to date.
Midway ==
    /\ pc = "program" => flash = Blank
    /\ pc = "verify" => flash \in {Blank, global}

Inv == TypeOK /\ ActiveValid /\ SavedMeansDurable /\ Midway

\* The settings settings_validate accepts are settings; Blank is not one.
LEMMA SettingsFacts ==
    /\ default_settings \in Valid
    /\ Valid \subseteq Settings
    /\ Blank \notin Valid
    /\ \A s \in Valid, b \in BOOLEAN : [s EXCEPT !.ap_state = b] \in Valid
  BY RestAssumption, BlankAssumption DEF Valid, Settings, default_settings

\* Before the first boot RAM is blank and nothing was promised.
LEMMA InitInv == Init => Inv
  BY SettingsFacts DEF Init, Inv, TypeOK, ActiveValid, SavedMeansDurable, Midway, Writing

\* A request makes valid settings active and starts the write.
LEMMA BeginInv ==
  ASSUME Inv, NEW s \in Valid, NEW w \in {"boot", "apply", "default", "ap_state"}, Begin(w, s)
  PROVE  Inv'
  BY SettingsFacts DEF Begin, Inv, TypeOK, ActiveValid, SavedMeansDurable, Midway, Writing

\* Every request preserves the invariant.
LEMMA RequestInv ==
  ASSUME Inv,
         Boot \/ (\E s \in Settings : Apply(s) \/ Reject(s))
              \/ (\E b \in BOOLEAN : SetApState(b)) \/ SetDefault
  PROVE  Inv'
<1>1. CASE Boot
  <2>1. CASE flash \in Valid
    BY <1>1, <2>1, SettingsFacts
    DEF Boot, Inv, TypeOK, ActiveValid, SavedMeansDurable, Midway, Writing
  <2>2. CASE flash \notin Valid
    BY <1>1, <2>2, SettingsFacts, BeginInv DEF Boot
  <2> QED BY <2>1, <2>2
<1>2. CASE \E s \in Settings : Apply(s)
  BY <1>2, BeginInv DEF Apply
<1>3. CASE \E s \in Settings : Reject(s)
  BY <1>3 DEF Reject, Rejected, Inv, TypeOK, ActiveValid, SavedMeansDurable, Midway, Writing
<1>4. CASE \E b \in BOOLEAN : SetApState(b)
  <2>1. PICK b \in BOOLEAN : SetApState(b)
    BY <1>4
  <2>2. [global EXCEPT !.ap_state = b] \in Valid
    BY <2>1, SettingsFacts DEF SetApState, Inv, ActiveValid
  <2> QED BY <2>1, <2>2, BeginInv DEF SetApState
<1>5. CASE SetDefault
  BY <1>5, SettingsFacts, BeginInv DEF SetDefault
<1> QED BY <1>1, <1>2, <1>3, <1>4, <1>5

\* Every step of settings_write preserves the invariant.
LEMMA WriteInv ==
  ASSUME Inv, Write
  PROVE  Inv'
<1> USE SettingsFacts DEF Inv, TypeOK, ActiveValid, SavedMeansDurable, Midway, Writing, Answer
<1>1. CASE Compare
  BY <1>1 DEF Compare
<1>2. CASE Erase
  BY <1>2 DEF Erase
<1>3. CASE Program
  BY <1>3 DEF Program
<1>4. CASE Verify
  BY <1>4 DEF Verify
<1> QED BY <1>1, <1>2, <1>3, <1>4 DEF Write

\* A loss of power preserves it, whatever it interrupts.
LEMMA CrashInv ==
  ASSUME Inv, Crash
  PROVE  Inv'
<1>1. flash' \in Settings \union {Blank}
  BY SettingsFacts DEF Crash, Inv, TypeOK, ActiveValid, Writing
<1> QED
  BY <1>1, SettingsFacts
  DEF Crash, Inv, TypeOK, ActiveValid, SavedMeansDurable, Midway, Writing

\* Every step preserves the invariant.
LEMMA NextInv ==
  ASSUME Inv, [Next]_vars
  PROVE  Inv'
<1>1. CASE UNCHANGED vars
  BY <1>1 DEF vars, Inv, TypeOK, ActiveValid, SavedMeansDurable, Midway, Writing
<1>2. CASE Next
  BY <1>2, RequestInv, WriteInv, CrashInv DEF Next
<1> QED BY <1>1, <1>2

LEMMA InvHolds == Spec => []Inv
  BY InitInv, NextInv, PTL DEF Spec

\* The controller only ever runs on settings that settings_validate accepts.
THEOREM ActiveAlwaysValid == Spec => []ActiveValid
<1>1. Inv => ActiveValid
  BY DEF Inv
<1> QED BY <1>1, InvHolds, PTL

\* A request that was answered with success is in flash until the next one.
THEOREM SavesAreDurable == Spec => []SavedMeansDurable
<1>1. Inv => SavedMeansDurable
  BY DEF Inv
<1> QED BY <1>1, InvHolds, PTL

-----------------------------------------------------------------------------
(* The refinement.                                                         *)
\* The initial states are abstract initial states.
LEMMA InitRefines == Init => Durable!Init
  BY SettingsFacts DEF Init, Durable!Init

\* A request is an abstract boot, change or rejection.
LEMMA RequestRefines ==
  ASSUME Inv,
         Boot \/ (\E s \in Settings : Apply(s) \/ Reject(s))
              \/ (\E b \in BOOLEAN : SetApState(b)) \/ SetDefault
  PROVE  Durable!Next
<1>1. CASE Boot
  <2>1. Durable!Boot
    BY <1>1, SettingsFacts DEF Boot, Begin, Durable!Boot
  <2> QED BY <2>1 DEF Durable!Next
<1>2. ASSUME NEW s \in Valid, NEW w, pc = "idle", Begin(w, s)
      PROVE  Durable!Next
  <2>1. Durable!Change(s)
    BY <1>2 DEF Begin, Durable!Change
  <2> QED BY <1>2, <2>1 DEF Durable!Next
<1>3. CASE \E s \in Settings : Apply(s)
  BY <1>2, <1>3 DEF Apply
<1>4. CASE \E s \in Settings : Reject(s)
  <2>1. Durable!Reject
    BY <1>4 DEF Reject, Rejected, Durable!Reject
  <2> QED BY <2>1 DEF Durable!Next
<1>5. CASE \E b \in BOOLEAN : SetApState(b)
  <2>1. PICK b \in BOOLEAN : SetApState(b)
    BY <1>5
  <2>2. [global EXCEPT !.ap_state = b] \in Valid
    BY <2>1, SettingsFacts DEF SetApState, Inv, ActiveValid
  <2> QED BY <1>2, <2>1, <2>2 DEF SetApState
<1>6. CASE SetDefault
  BY <1>2, <1>6, SettingsFacts DEF SetDefault
<1> QED BY <1>1, <1>3, <1>4, <1>5, <1>6

\* A step of the write is an abstract save, an answer or no step.
LEMMA WriteRefines ==
  ASSUME Inv, Write
  PROVE  Durable!Next \/ UNCHANGED Durable!vars
<1>1. CASE Compare
  <2>1. CASE flash = global
    <3>1. Durable!Answer
      BY <1>1, <2>1 DEF Compare, Answer, Durable!Answer, Inv, ActiveValid
    <3> QED BY <3>1 DEF Durable!Next
  <2>2. CASE flash # global
    BY <1>1, <2>2 DEF Compare, Durable!vars
  <2> QED BY <2>1, <2>2
<1>2. CASE Erase
  <2>1. CASE Answer("failed") /\ UNCHANGED flash
    <3>1. Durable!Answer
      BY <1>2, <2>1 DEF Erase, Answer, Durable!Answer
    <3> QED BY <3>1 DEF Durable!Next
  <2>2. CASE flash' = Blank /\ pc' = "program" /\ UNCHANGED <<global, request, result, before>>
    <3>1. Durable!Save
      BY <1>2, <2>2, SettingsFacts DEF Erase, Durable!Save
    <3> QED BY <3>1 DEF Durable!Next
  <2> QED BY <1>2, <2>1, <2>2 DEF Erase
<1>3. CASE Program
  <2>1. CASE Answer("failed") /\ UNCHANGED flash
    <3>1. Durable!Answer
      BY <1>3, <2>1 DEF Program, Answer, Durable!Answer
    <3> QED BY <3>1 DEF Durable!Next
  <2>2. CASE flash' \in {global, Blank} /\ pc' = "verify"
             /\ UNCHANGED <<global, request, result, before>>
    <3>1. Durable!Save
      BY <1>3, <2>2, SettingsFacts DEF Program, Durable!Save, Inv, ActiveValid
    <3> QED BY <3>1 DEF Durable!Next
  <2> QED BY <1>3, <2>1, <2>2 DEF Program
<1>4. CASE Verify
  <2>1. Durable!Answer
    BY <1>4 DEF Verify, Answer, Durable!Answer, Inv, ActiveValid
  <2> QED BY <2>1 DEF Durable!Next
<1> QED BY <1>1, <1>2, <1>3, <1>4 DEF Write

\* A loss of power is an abstract one.
LEMMA CrashRefines ==
  ASSUME Inv, Crash
  PROVE  Durable!Next
<1>1. Durable!Crash
  <2>1. CASE pc \in {"erase", "program"}
    BY <2>1, SettingsFacts DEF Crash, Durable!Crash, Inv, ActiveValid, Midway
  <2>2. CASE pc \notin {"erase", "program"}
    BY <2>2 DEF Crash, Durable!Crash
  <2> QED BY <2>1, <2>2
<1> QED BY <1>1 DEF Durable!Next

\* Every step is an abstract step or a stutter.
LEMMA StepRefines ==
  ASSUME Inv, [Next]_vars
  PROVE  [Durable!Next]_Durable!vars
<1>1. CASE UNCHANGED vars
  BY <1>1 DEF vars, Durable!vars
<1>2. CASE Next
  BY <1>2, RequestRefines, WriteRefines, CrashRefines DEF Next
<1> QED BY <1>1, <1>2

\* The settings component implements what DurableSettings promises.
THEOREM StoreImplementsDurable == Spec => ImplementsDurable
  BY InitRefines, StepRefines, InvHolds, PTL DEF Spec, Durable!Spec, ImplementsDurable

-----------------------------------------------------------------------------
(* The page: induction over a range, strings and their texts.              *)

\* Induction upwards; the claim is the membership of a set.
LEMMA Upwards ==
  ASSUME NEW N \in Nat, NEW S, 0 \in S, \A k \in 1 .. N : k - 1 \in S => k \in S
  PROVE  \A k \in 0 .. N : k \in S
<1> DEFINE Wrong == {k \in 0 .. N : k \notin S}
<1>1. SUFFICES ASSUME Wrong # {} PROVE FALSE
  OBVIOUS
<1>2. PICK k \in Wrong : \A j \in Wrong : ~(j < k)
  <2>1. Wrong \in SUBSET Nat
    OBVIOUS
  <2> HIDE DEF Wrong
  <2>2. PICK k \in Wrong : \A j \in Wrong : <<j, k>> \notin OpToRel(<, Nat)
    BY <1>1, <2>1, WFMin, NatLessThanWellFounded, Zenon
  <2>3. \A j \in Wrong : ~(j < k)
    BY <2>1, <2>2, Zenon DEF OpToRel
  <2> QED BY <2>3
<1>3. k \in 1 .. N /\ k - 1 \in 0 .. N /\ k - 1 < k
  <2>1. k # 0
    OBVIOUS
  <2> QED BY <2>1
<1>4. k - 1 \in S
  BY <1>2, <1>3
<1> QED BY <1>3, <1>4

\* Induction downwards.
LEMMA Downwards ==
  ASSUME NEW N \in Nat, NEW S, N \in S, \A k \in 1 .. N : k \in S => k - 1 \in S
  PROVE  \A k \in 0 .. N : k \in S
<1> DEFINE T == {i \in 0 .. N : N - i \in S}
<1>1. 0 \in T
  BY Z3
<1>2. ASSUME NEW i \in 1 .. N, i - 1 \in T PROVE i \in T
  <2>1. N - (i - 1) \in 1 .. N /\ (N - (i - 1)) - 1 = N - i
    OBVIOUS
  <2>2. N - i \in S
    BY <1>2, <2>1
  <2> QED BY <2>2
<1>3. \A i \in 0 .. N : i \in T
  <2> HIDE DEF T
  <2> QED BY <1>1, <1>2, Upwards
<1>4. ASSUME NEW k \in 0 .. N PROVE k \in S
  <2>1. N - k \in 0 .. N /\ N - (N - k) = k
    OBVIOUS
  <2>2. N - k \in T
    BY <1>3, <2>1
  <2> QED BY <2>1, <2>2
<1> QED BY <1>4

\* What json_append_string appends for one character.
LEMMA EscapedCharIs ==
  ASSUME NEW c \in Chars
  PROVE  /\ EscapedChar(c) \in Seq(Chars)
         /\ c \in {Quote, Backslash} =>
                Len(EscapedChar(c)) = 2 /\ EscapedChar(c)[1] = Backslash /\ EscapedChar(c)[2] = c
         /\ c \notin {Quote, Backslash} => Len(EscapedChar(c)) = 1 /\ EscapedChar(c)[1] = c
BY CharsAssumption DEF EscapedChar

\* The text after the n-th round of json_append_string, from the round before.
Appended(s, f, n) == IF n = 0 THEN <<>> ELSE f[n - 1] \o EscapedChar(s[n])

LEMMA AppendedType ==
  ASSUME NEW s \in Seq(Chars), NEW f, NEW n \in 0 .. Len(s), n # 0 => f[n - 1] \in Seq(Chars)
  PROVE  Appended(s, f, n) \in Seq(Chars)
<1>1. CASE n = 0
  BY <1>1 DEF Appended
<1>2. CASE n # 0
  <2>1. s[n] \in Chars
    BY <1>2, ElementOfSeq, LenProperties
  <2>2. EscapedChar(s[n]) \in Seq(Chars)
    BY <2>1, EscapedCharIs
  <2> QED BY <1>2, <2>2, ConcatProperties DEF Appended
<1> QED BY <1>1, <1>2

\* The recursive function of Escaped exists.
LEMMA AppendedExists ==
  ASSUME NEW s \in Seq(Chars)
  PROVE  \E f : f = [n \in 0 .. Len(s) |-> Appended(s, f, n)]
<1> DEFINE N == Len(s)
           Upto(f, k) == \A n \in 0 .. N : n =< k => f[n] = Appended(s, f, n)
           S == {k \in 0 .. N : \E f \in [0 .. N -> Seq(Chars)] : Upto(f, k)}
<1>1. N \in Nat
  BY LenProperties
<1>2. 0 \in S
  <2> DEFINE f == [n \in 0 .. N |-> <<>>]
  <2>1. f \in [0 .. N -> Seq(Chars)] /\ \A n \in 0 .. N : f[n] = <<>>
    OBVIOUS
  <2> HIDE DEF f
  <2>2. Upto(f, 0)
    BY <1>1, <2>1 DEF Appended
  <2> QED BY <1>1, <2>1, <2>2
<1>3. ASSUME NEW k \in 1 .. N, k - 1 \in S PROVE k \in S
  <2>1. PICK f \in [0 .. N -> Seq(Chars)] : Upto(f, k - 1)
    BY <1>3
  <2> DEFINE g == [f EXCEPT ![k] = Appended(s, f, k)]
  <2>2. k \in 0 .. N /\ k - 1 \in 0 .. N /\ k # 0
    BY <1>1
  <2>3. Appended(s, f, k) \in Seq(Chars)
    <3>1. f[k - 1] \in Seq(Chars)
      BY <2>1, <2>2
    <3> QED BY <2>2, <3>1, AppendedType
  <2>4. g \in [0 .. N -> Seq(Chars)]
    BY <2>3
  <2>5. g[k] = Appended(s, f, k) /\ \A n \in 0 .. N : n # k => g[n] = f[n]
    BY <2>2
  <2> HIDE DEF g
  <2>6. ASSUME NEW n \in 0 .. N, n =< k PROVE g[n] = Appended(s, g, n)
    <3>1. Appended(s, g, n) = Appended(s, f, n)
      <4>1. n # 0 => n - 1 \in 0 .. N /\ n - 1 # k
        BY <1>1, <2>2, <2>6
      <4>2. n # 0 => g[n - 1] = f[n - 1]
        BY <2>5, <4>1
      <4> QED BY <4>2 DEF Appended
    <3>2. CASE n = k
      BY <2>5, <3>1, <3>2
    <3>3. CASE n # k
      <4>1. n =< k - 1
        BY <1>1, <2>6, <3>3
      <4> QED BY <2>1, <2>5, <3>1, <3>3, <4>1
    <3> QED BY <3>2, <3>3
  <2> QED BY <2>2, <2>4, <2>6
<1>4. N \in S
  <2>1. \A k \in 1 .. N : k - 1 \in S => k \in S
    BY <1>3
  <2> HIDE DEF S
  <2>2. \A k \in 0 .. N : k \in S
    BY <1>1, <1>2, <2>1, Upwards
  <2> QED BY <1>1, <2>2
<1>5. PICK f \in [0 .. N -> Seq(Chars)] : Upto(f, N)
  BY <1>4
<1>6. \A n \in 0 .. N : f[n] = Appended(s, f, n)
  BY <1>1, <1>5
<1>7. f = [n \in 0 .. N |-> f[n]]
  BY <1>5
<1>8. f = [n \in 0 .. N |-> Appended(s, f, n)]
  BY <1>6, <1>7
<1> QED BY <1>8, Zenon

\* A text is made up character by character, and ended by a quote.
LEMMA TextIs ==
  ASSUME NEW s \in Seq(Chars)
  PROVE  \E f \in [0 .. Len(s) -> Seq(Chars)] :
             /\ f[0] = <<>>
             /\ \A n \in 1 .. Len(s) : f[n] = f[n - 1] \o EscapedChar(s[n])
             /\ Text(s) = Append(f[Len(s)], Quote)
<1> DEFINE N == Len(s)
           f == CHOOSE f : f = [n \in 0 .. N |-> Appended(s, f, n)]
           S == {n \in 0 .. N : f[n] \in Seq(Chars)}
<1>1. N \in Nat
  BY LenProperties
<1>2. f = [n \in 0 .. N |-> Appended(s, f, n)]
  BY AppendedExists, Zenon
<1>3. Escaped(s) = f[N]
  BY Zenon DEF Escaped, Appended
<1> HIDE DEF f
<1>4. \A n \in 0 .. N : f[n] = Appended(s, f, n)
  BY <1>2
<1>5. f[0] = <<>>
  BY <1>1, <1>4 DEF Appended
<1>6. \A n \in 0 .. N : f[n] \in Seq(Chars)
  <2>1. 0 \in S
    <3>1. f[0] \in Seq(Chars)
      BY <1>5
    <3> QED BY <1>1, <3>1
  <2>2. ASSUME NEW n \in 1 .. N, n - 1 \in S PROVE n \in S
    <3>1. n \in 0 .. N /\ f[n - 1] \in Seq(Chars)
      BY <1>1, <2>2
    <3>2. Appended(s, f, n) \in Seq(Chars)
      BY <3>1, AppendedType
    <3> QED BY <1>4, <3>1, <3>2
  <2> HIDE DEF S
  <2>3. \A n \in 0 .. N : n \in S
    BY <1>1, <2>1, <2>2, Upwards
  <2> QED BY <2>3 DEF S
<1>7. ASSUME NEW n \in 1 .. N PROVE f[n] = f[n - 1] \o EscapedChar(s[n])
  <2>1. n \in 0 .. N /\ n # 0
    BY <1>1
  <2> QED BY <1>4, <2>1 DEF Appended
<1>8. f \in [0 .. N -> Seq(Chars)]
  BY <1>2, <1>6
<1>9. Text(s) = Append(f[N], Quote)
  BY <1>3 DEF Text
<1> QED BY <1>5, <1>7, <1>8, <1>9

LEMMA ReadType ==
  ASSUME NEW t \in Seq(Chars), NEW i \in 1 .. Len(t) + 1, NEW f,
         \A j \in 1 .. Len(t) + 1 : j > i => f[j] \in Seq(Chars) \union {Bad}
  PROVE  Read(t, f, i) \in Seq(Chars) \union {Bad}
<1> DEFINE c == IF t[i] = Backslash THEN i + 1 ELSE i
<1>1. Len(t) \in Nat /\ i \in Nat
  BY LenProperties
<1>2. c \in Nat /\ c >= i
  BY <1>1
<1>3. \/ Read(t, f, i) \in {Bad, <<>>}
      \/ c =< Len(t) /\ f[c + 1] # Bad /\ Read(t, f, i) = <<t[c]>> \o f[c + 1]
  <2>1. CASE i > Len(t) \/ t[i] = Quote \/ c > Len(t) \/ f[c + 1] = Bad
    BY <2>1 DEF Read
  <2>2. CASE ~(i > Len(t) \/ t[i] = Quote \/ c > Len(t) \/ f[c + 1] = Bad)
    <3>1. c =< Len(t)
      BY <1>1, <1>2, <2>2
    <3>2. Read(t, f, i) \in {Bad, <<t[c]>> \o f[c + 1]}
      BY <2>2 DEF Read
    <3> HIDE DEF c
    <3> QED BY <2>2, <3>1, <3>2
  <2> QED BY <2>1, <2>2
<1> HIDE DEF c
<1>4. CASE Read(t, f, i) \in {Bad, <<>>}
  <2>1. <<>> \in Seq(Chars)
    OBVIOUS
  <2> QED BY <1>4, <2>1
<1>5. CASE c =< Len(t) /\ f[c + 1] # Bad /\ Read(t, f, i) = <<t[c]>> \o f[c + 1]
  <2>1. c \in 1 .. Len(t) /\ c + 1 \in 1 .. Len(t) + 1 /\ c + 1 > i
    BY <1>1, <1>2, <1>5
  <2>2. f[c + 1] \in Seq(Chars)
    BY <1>5, <2>1
  <2>3. t[c] \in Chars
    BY <2>1, ElementOfSeq
  <2>4. <<t[c]>> \in Seq(Chars)
    BY <2>3
  <2>5. <<t[c]>> \o f[c + 1] \in Seq(Chars)
    BY <2>2, <2>4, ConcatProperties
  <2> QED BY <1>5, <2>5
<1> QED BY <1>3, <1>4, <1>5

\* What is read at a place depends only on what is behind it.
LEMMA ReadLooksAhead ==
  ASSUME NEW t \in Seq(Chars), NEW i \in 1 .. Len(t) + 1, NEW f, NEW g,
         \A j \in 1 .. Len(t) + 1 : j > i => f[j] = g[j]
  PROVE  Read(t, f, i) = Read(t, g, i)
<1> DEFINE c == IF t[i] = Backslash THEN i + 1 ELSE i
<1>1. Len(t) \in Nat /\ i \in Nat
  BY LenProperties
<1>2. c \in Nat /\ c >= i
  BY <1>1
<1> HIDE DEF c
<1>3. CASE c > Len(t)
  BY <1>3 DEF Read, c
<1>4. CASE ~(c > Len(t))
  <2>1. f[c + 1] = g[c + 1]
    BY <1>1, <1>2, <1>4
  <2> QED BY <2>1 DEF Read, c
<1> QED BY <1>3, <1>4

\* The recursive function of StringOf exists.
LEMMA ReadExists ==
  ASSUME NEW t \in Seq(Chars)
  PROVE  \E f : f = [i \in 1 .. Len(t) + 1 |-> Read(t, f, i)]
<1> DEFINE M == Len(t) + 1
           From(f, k) == \A i \in 1 .. M : i > k => f[i] = Read(t, f, i)
           S == {k \in 0 .. M : \E f \in [1 .. M -> Seq(Chars) \union {Bad}] : From(f, k)}
<1>1. M \in Nat
  BY LenProperties
<1>2. M \in S
  <2> DEFINE f == [i \in 1 .. M |-> Bad]
  <2>1. f \in [1 .. M -> Seq(Chars) \union {Bad}]
    OBVIOUS
  <2> HIDE DEF f
  <2>2. From(f, M)
    BY <1>1
  <2> QED BY <1>1, <2>1, <2>2
<1>3. ASSUME NEW k \in 1 .. M, k \in S PROVE k - 1 \in S
  <2>1. PICK f \in [1 .. M -> Seq(Chars) \union {Bad}] : From(f, k)
    BY <1>3
  <2> DEFINE g == [f EXCEPT ![k] = Read(t, f, k)]
  <2>2. k - 1 \in 0 .. M /\ k \in Nat
    BY <1>1
  <2>3. Read(t, f, k) \in Seq(Chars) \union {Bad}
    BY <2>1, ReadType
  <2>4. g \in [1 .. M -> Seq(Chars) \union {Bad}]
    BY <2>3
  <2>5. g[k] = Read(t, f, k) /\ \A i \in 1 .. M : i # k => g[i] = f[i]
    OBVIOUS
  <2> HIDE DEF g
  <2>6. ASSUME NEW i \in 1 .. M, i > k - 1 PROVE g[i] = Read(t, g, i)
    <3>1. Read(t, g, i) = Read(t, f, i)
      <4>1. \A j \in 1 .. M : j > i => f[j] = g[j]
        BY <1>1, <2>2, <2>5, <2>6
      <4> QED BY <4>1, ReadLooksAhead
    <3>2. CASE i = k
      BY <2>5, <3>1, <3>2
    <3>3. CASE i # k
      <4>1. i > k
        BY <1>1, <2>2, <2>6, <3>3
      <4> QED BY <2>1, <2>5, <3>1, <3>3, <4>1
    <3> QED BY <3>2, <3>3
  <2> QED BY <2>2, <2>4, <2>6
<1>4. 0 \in S
  <2> HIDE DEF S
  <2>1. \A k \in 0 .. M : k \in S
    BY <1>1, <1>2, <1>3, Downwards
  <2> QED BY <1>1, <2>1
<1>5. PICK f \in [1 .. M -> Seq(Chars) \union {Bad}] : From(f, 0)
  BY <1>4
<1>6. \A i \in 1 .. M : f[i] = Read(t, f, i)
  BY <1>1, <1>5
<1>7. f = [i \in 1 .. M |-> f[i]]
  BY <1>5
<1>8. f = [i \in 1 .. M |-> Read(t, f, i)]
  BY <1>6, <1>7
<1> QED BY <1>8, Zenon

\* A string that is sent is read back as it was: json_parse_string undoes
\* json_append_string.
LEMMA TextIsRead ==
  ASSUME NEW s \in Seq(Chars), Len(s) < BufSize
  PROVE  StringOf(Text(s)) = s
<1> DEFINE N == Len(s)
           t == Text(s)
           M == Len(t) + 1
           from == CHOOSE f : f = [i \in 1 .. M |-> Read(t, f, i)]
<1>1. PICK u \in [0 .. N -> Seq(Chars)] :
          /\ u[0] = <<>>
          /\ \A n \in 1 .. N : u[n] = u[n - 1] \o EscapedChar(s[n])
          /\ t = Append(u[N], Quote)
  BY TextIs
<1>2. N \in Nat /\ N \in 0 .. N
  BY LenProperties
<1> DEFINE P(k) == Len(u[k])
           Agrees(k) == P(k) =< P(N) /\ \A j \in 1 .. P(k) : t[j] = u[k][j]
           Suffix(k) == [i \in 1 .. N - k |-> s[k + i]]
           S == {k \in 0 .. N : Agrees(k) /\ from[P(k) + 1] = Suffix(k)}
<1>3. t \in Seq(Chars) /\ Len(t) = P(N) + 1 /\ t[P(N) + 1] = Quote
      /\ \A j \in 1 .. P(N) : t[j] = u[N][j]
  <2>1. u[N] \in Seq(Chars) /\ Quote \in Chars
    BY <1>2, CharsAssumption
  <2> HIDE DEF t
  <2> QED BY <1>1, <2>1, AppendProperties
<1>4. \A k \in 0 .. N : P(k) \in Nat
  BY LenProperties
<1>5. \A i \in 1 .. M : from[i] = Read(t, from, i)
  <2> HIDE DEF t
  <2>1. from = [i \in 1 .. M |-> Read(t, from, i)]
    BY <1>3, ReadExists, Zenon
  <2> HIDE DEF from
  <2> QED BY <2>1
<1>6. StringOf(t) = IF t = Bad \/ from[1] = Bad \/ Len(from[1]) >= BufSize THEN Bad ELSE from[1]
  <2> HIDE DEF t
  <2> QED BY Zenon DEF StringOf
<1> HIDE DEF from, t
<1>7. N \in S
  <2>1. P(N) + 1 \in 1 .. M /\ ~(P(N) + 1 > Len(t))
    BY <1>2, <1>3, <1>4
  <2>2. Read(t, from, P(N) + 1) = <<>>
    BY <1>3, <2>1 DEF Read
  <2>3. Suffix(N) = <<>>
    BY <1>2
  <2>4. from[P(N) + 1] = Suffix(N)
    BY <1>5, <2>1, <2>2, <2>3
  <2>5. Agrees(N)
    BY <1>2, <1>3, <1>4
  <2> QED BY <1>2, <2>4, <2>5
<1>8. ASSUME NEW k \in 1 .. N, k \in S PROVE k - 1 \in S
  <2> DEFINE c == s[k]
             p == P(k - 1)
  <2>1. k \in 0 .. N /\ k - 1 \in 0 .. N /\ k \in Nat /\ N - (k - 1) = (N - k) + 1
    BY <1>2
  <2>2. c \in Chars
    BY ElementOfSeq
  <2>3. /\ EscapedChar(c) \in Seq(Chars) /\ Len(EscapedChar(c)) \in {1, 2}
        /\ c \in {Quote, Backslash} =>
                Len(EscapedChar(c)) = 2 /\ EscapedChar(c)[1] = Backslash /\ EscapedChar(c)[2] = c
        /\ c \notin {Quote, Backslash} => Len(EscapedChar(c)) = 1 /\ EscapedChar(c)[1] = c
    BY <2>2, EscapedCharIs
  <2> DEFINE d == Len(EscapedChar(c))
  <2>4. /\ P(k) = p + d
        /\ \A j \in 1 .. p + d :
               u[k][j] = IF j =< p THEN u[k - 1][j] ELSE EscapedChar(c)[j - p]
    <3>1. u[k] = u[k - 1] \o EscapedChar(c) /\ u[k - 1] \in Seq(Chars)
      BY <1>1, <2>1
    <3> HIDE DEF c
    <3>2. u[k - 1] \o EscapedChar(c) \in Seq(Chars)
          /\ Len(u[k - 1] \o EscapedChar(c)) = Len(u[k - 1]) + Len(EscapedChar(c))
          /\ \A j \in 1 .. Len(u[k - 1]) + Len(EscapedChar(c)) :
               (u[k - 1] \o EscapedChar(c))[j] =
                   IF j <= Len(u[k - 1]) THEN u[k - 1][j] ELSE EscapedChar(c)[j - Len(u[k - 1])]
      BY <2>3, <3>1, ConcatProperties
    <3> QED BY <3>1, <3>2
  <2>5. p \in Nat /\ P(k) \in Nat /\ P(N) \in Nat /\ P(k) =< P(N) /\ d \in {1, 2}
    BY <1>2, <1>4, <1>8, <2>1, <2>3
  <2>6. \A j \in 1 .. P(k) : t[j] = u[k][j]
    BY <1>8
  <2>7. from[P(k) + 1] = Suffix(k)
    BY <1>8
  <2> HIDE DEF c, p, d, P, Suffix
  <2>8. Agrees(k - 1)
    <3>1. p =< P(N)
      BY <2>4, <2>5
    <3>2. ASSUME NEW j \in 1 .. p PROVE t[j] = u[k - 1][j]
      <4>1. j \in 1 .. p + d /\ j =< p /\ j \in 1 .. P(k)
        BY <2>4, <2>5
      <4> QED BY <2>4, <2>6, <4>1
    <3> QED BY <3>1, <3>2 DEF p
  <2>9. t[p + 1] = EscapedChar(c)[1] /\ (d = 2 => t[p + 2] = EscapedChar(c)[2])
    <3>1. p + 1 \in 1 .. p + d /\ ~(p + 1 =< p) /\ (p + 1) - p = 1 /\ p + d = P(k)
      BY <2>4, <2>5
    <3>2. d = 2 => p + 2 \in 1 .. p + d /\ ~(p + 2 =< p) /\ (p + 2) - p = 2
      BY <2>5
    <3> QED BY <2>4, <2>6, <3>1, <3>2
  <2>10. Read(t, from, p + 1) = <<c>> \o Suffix(k)
    <3>1. p + 1 =< Len(t) /\ p + d =< Len(t) /\ p + 1 \in 1 .. M
      BY <1>3, <2>4, <2>5
    <3>2. Suffix(k) \in Seq(Chars) /\ Suffix(k) # Bad
      <4>1. N - k \in Nat /\ \A i \in 1 .. N - k : s[k + i] \in Chars
        <5>1. \A i \in 1 .. N - k : k + i \in 1 .. Len(s)
          BY <1>2, <2>1
        <5> QED BY <1>2, <2>1, <5>1, ElementOfSeq
      <4>2. Suffix(k) \in [1 .. N - k -> Chars]
        BY <4>1 DEF Suffix
      <4>3. Suffix(k) \in Seq(Chars)
        BY <4>1, <4>2, SeqDef
      <4> QED BY <4>3, MarksAssumption
    <3>3. CASE c \in {Quote, Backslash}
      <4>1. d = 2 /\ t[p + 1] = Backslash /\ t[p + 2] = c
        BY <2>3, <2>9, <3>3 DEF d
      <4>2. t[p + 1] # Quote
        BY <4>1, CharsAssumption
      <4>3. (p + 1) + 1 = p + 2 /\ from[(p + 2) + 1] = Suffix(k)
        BY <2>4, <2>5, <2>7, <4>1
      <4>4. ~(p + 1 > Len(t)) /\ ~(p + 2 > Len(t))
        BY <1>3, <2>5, <3>1, <4>1
      <4>5. Read(t, from, p + 1) =
                IF \/ p + 2 > Len(t) \/ (p + 2 # p + 1 /\ t[p + 2] \notin {Quote, Backslash, Slash})
                   \/ from[(p + 2) + 1] = Bad
                THEN Bad ELSE <<t[p + 2]>> \o from[(p + 2) + 1]
        BY <4>1, <4>2, <4>3, <4>4 DEF Read
      <4> QED BY <3>2, <3>3, <4>1, <4>3, <4>4, <4>5, Zenon
    <3>4. CASE c \notin {Quote, Backslash}
      <4>1. d = 1 /\ t[p + 1] = c /\ from[(p + 1) + 1] = Suffix(k)
        BY <2>3, <2>4, <2>5, <2>7, <2>9, <3>4 DEF d
      <4>2. ~(p + 1 > Len(t)) /\ t[p + 1] # Quote /\ t[p + 1] # Backslash
        BY <1>3, <2>5, <3>1, <3>4, <4>1
      <4>3. Read(t, from, p + 1) =
                IF from[(p + 1) + 1] = Bad THEN Bad ELSE <<t[p + 1]>> \o from[(p + 1) + 1]
        BY <4>2 DEF Read
      <4> QED BY <3>2, <4>1, <4>3, Zenon
    <3> QED BY <3>3, <3>4
  <2>11. <<c>> \o Suffix(k) = Suffix(k - 1)
    <3>1. N - k \in Nat
      BY <1>2, <2>1
    <3>2. Suffix(k) = [i \in 1 .. N - k |-> s[k + i]]
      BY DEF Suffix
    <3>3. Suffix(k - 1) = [i \in 1 .. (N - k) + 1 |-> s[(k - 1) + i]]
      BY <2>1 DEF Suffix
    <3>4. \A i \in 1 .. (N - k) + 1 :
              (k - 1) + i = (IF i = 1 THEN k ELSE k + (i - 1)) /\ (i # 1 => i - 1 \in 1 .. N - k)
      BY <2>1, <3>1
    <3>5. <<c>> \o Suffix(k) = [i \in 1 .. (N - k) + 1 |-> IF i = 1 THEN c ELSE s[k + (i - 1)]]
      BY <3>1, <3>2
    <3>6. \A i \in 1 .. (N - k) + 1 : s[(k - 1) + i] = IF i = 1 THEN c ELSE s[k + (i - 1)]
      BY <3>4 DEF c
    <3> QED BY <3>3, <3>5, <3>6
  <2>12. from[p + 1] = Suffix(k - 1)
    <3>1. p + 1 \in 1 .. M
      BY <1>3, <2>4, <2>5
    <3>2. from[p + 1] = Read(t, from, p + 1)
      BY <1>5, <3>1
    <3> QED BY <2>10, <2>11, <3>2
  <2> QED BY <2>1, <2>8, <2>12 DEF p
<1>9. from[1] = s
  <2>1. 0 \in S
    <3>1. \A k \in 1 .. N : k \in S => k - 1 \in S
      BY <1>8
    <3> HIDE DEF S
    <3>2. \A k \in 0 .. N : k \in S
      BY <1>2, <1>7, <3>1, Downwards
    <3> QED BY <1>2, <3>2
  <2>2. from[P(0) + 1] = Suffix(0)
    BY <2>1
  <2>3. P(0) = 0
    BY <1>1
  <2>4. Suffix(0) = [i \in 1 .. Len(s) |-> s[i]]
    BY <1>2
  <2>5. s = [i \in 1 .. Len(s) |-> s[i]]
    OBVIOUS
  <2> QED BY <2>2, <2>3, <2>4, <2>5
<1>10. t # Bad /\ s # Bad
  BY <1>3, MarksAssumption
<1>11. ~(Len(s) >= BufSize)
  BY <1>2, CharsAssumption
<1> QED BY <1>6, <1>9, <1>10, <1>11, Zenon DEF t

-----------------------------------------------------------------------------
(* The page: the invariant, the round trip and the refinement.             *)

\* A page is what the settings it was made of are sent as.
PageInv ==
    /\ Inv
    /\ pageOf \in Valid \union {Blank}
    /\ page = IF pageOf = Blank THEN NoPage ELSE Sent(pageOf.rest)

\* A page that was sent is a page.
LEMMA SentIsPage ==
  ASSUME NEW s \in Valid
  PROVE  /\ s # Blank /\ s.rest \in ValidRest /\ s = [ap_state |-> s.ap_state, rest |-> s.rest]
         /\ Sent(s.rest) # NoPage
<1>1. s # Blank /\ s.rest \in ValidRest /\ s.rest \in Rest
      /\ s = [ap_state |-> s.ap_state, rest |-> s.rest]
  BY SettingsFacts, RestAssumption DEF Valid
<1>2. Sent(s.rest).num # NoPage.num
  BY <1>1, MarksAssumption DEF Sent, NoPage
<1> QED BY <1>1, <1>2

\* What is parsed from a page is what it was made of.
LEMMA ParsedIsSent ==
  ASSUME NEW r \in ValidRest
  PROVE  /\ Parsed(Found(Sent(r)), r) = r
         /\ Bad \notin {r.num, r.str, r.secret}
<1> DEFINE json == Found(Sent(r))
           new == Parsed(json, r)
<1>1. /\ r \in [num : 0 .. NumMax, str : Seq(Chars), secret : Seq(Chars)]
      /\ r.num \notin {Absent, Bad} /\ Len(r.str) < BufSize
  BY RestAssumption, RestIsRecord, MarksAssumption
<1>2. Bad \notin {r.num, r.str, r.secret}
  BY <1>1, MarksAssumption
<1>3. StringOf(Text(r.str)) = r.str /\ StringOf(Text(<<>>)) = <<>>
  <2>1. <<>> \in Seq(Chars) /\ Len(<<>>) < BufSize
    BY CharsAssumption
  <2> QED BY <1>1, <2>1, TextIsRead
<1>4. Text(r.str) # Absent
  <2>1. PICK f \in [0 .. Len(r.str) -> Seq(Chars)] : Text(r.str) = Append(f[Len(r.str)], Quote)
    BY <1>1, TextIs
  <2>2. f[Len(r.str)] \in Seq(Chars)
    BY <1>1
  <2>3. Text(r.str) \in Seq(Chars)
    BY <2>1, <2>2, CharsAssumption, AppendProperties
  <2> QED BY <2>3, MarksAssumption
<1>5. /\ json.num = r.num /\ json.str = Text(r.str) /\ json.secret \in {Absent, Text(<<>>)}
  BY DEF Found, Sent
<1> HIDE DEF json
<1>6. new.num = r.num
  BY <1>1, <1>5 DEF Parsed, NumberOf
<1>7. new.str = r.str
  BY <1>3, <1>4, <1>5 DEF Parsed
<1>8. new.secret = r.secret
  BY <1>3, <1>5 DEF Parsed, SecretOf
<1>9. new = [num |-> new.num, str |-> new.str, secret |-> new.secret]
  BY DEF Parsed
<1>10. r = [num |-> r.num, str |-> r.str, secret |-> r.secret]
  BY <1>1
<1> HIDE DEF new
<1>11. new = r
  BY <1>6, <1>7, <1>8, <1>9, <1>10
<1> QED BY <1>2, <1>11 DEF new, json

\* A request of the page is one of the store or is rejected.
LEMMA PostIs ==
  ASSUME NEW json, Post(json)
  PROVE  pc = "idle" /\ UNCHANGED <<page, pageOf>> /\ (Rejected \/ \E s \in Valid : Apply(s))
<1> DEFINE s == [ap_state |-> global.ap_state, rest |-> Parsed(Found(json), global.rest)]
<1>1. pc = "idle" /\ UNCHANGED <<page, pageOf>> /\ (Rejected \/ Apply(s) \/ Reject(s))
  BY DEF Post
<1> HIDE DEF s
<1>2. Reject(s) => Rejected
  BY DEF Reject
<1>3. Apply(s) => s \in Valid
  BY DEF Apply
<1> QED BY <1>1, <1>2, <1>3

LEMMA RejectedInv ==
  ASSUME Inv, Rejected
  PROVE  Inv'
BY DEF Rejected, Inv, TypeOK, ActiveValid, SavedMeansDurable, Midway, Writing

LEMMA PageStep ==
  ASSUME PageInv, [PageNext]_pageVars
  PROVE  PageInv' /\ [Durable!Next]_Durable!vars
<1>1. Inv
  BY DEF PageInv
<1>2. CASE UNCHANGED pageVars
  <2>1. UNCHANGED vars /\ UNCHANGED <<page, pageOf>>
    BY <1>2 DEF pageVars
  <2> QED BY <1>1, <2>1, NextInv, StepRefines DEF PageInv
<1>3. CASE Next /\ UNCHANGED <<page, pageOf>>
  BY <1>1, <1>3, NextInv, StepRefines DEF PageInv
<1>4. CASE Get
  <2>1. UNCHANGED vars
    BY <1>4 DEF Get
  <2>2. Inv' /\ [Durable!Next]_Durable!vars
    BY <1>1, <2>1, NextInv, StepRefines
  <2>3. global \in Valid /\ pageOf' = global /\ page' = Sent(global.rest)
    BY <1>1, <1>4 DEF Get, Inv, ActiveValid
  <2>4. pageOf' \in Valid /\ pageOf' # Blank /\ page' = Sent(pageOf'.rest)
    BY <2>3, SentIsPage
  <2> QED BY <2>2, <2>4 DEF PageInv
<1>5. ASSUME NEW json, Post(json)
      PROVE  PageInv' /\ [Durable!Next]_Durable!vars
  <2>1. pc = "idle" /\ UNCHANGED <<page, pageOf>> /\ (Rejected \/ \E s \in Valid : Apply(s))
    BY <1>5, PostIs
  <2>2. CASE Rejected
    <3>1. Inv'
      BY <1>1, <2>2, RejectedInv
    <3>2. Durable!Reject
      BY <2>2 DEF Rejected, Durable!Reject
    <3> QED BY <2>1, <3>1, <3>2 DEF PageInv, Durable!Next
  <2>3. CASE \E s \in Valid : Apply(s)
    <3>1. \E s \in Settings : Apply(s)
      BY <2>3, SettingsFacts
    <3>2. Inv' /\ Durable!Next
      BY <1>1, <3>1, RequestInv, RequestRefines
    <3> QED BY <2>1, <3>2 DEF PageInv
  <2> QED BY <2>1, <2>2, <2>3
<1>6. CASE \E json \in Json : Post(json)
  BY <1>5, <1>6
<1>7. CASE PostBack
  BY <1>5, <1>7 DEF PostBack
<1> QED BY <1>2, <1>3, <1>4, <1>6, <1>7 DEF PageNext

LEMMA PageInitInv == PageInit => PageInv /\ Durable!Init
  BY InitInv, InitRefines DEF PageInit, PageInv

\* A page that is sent back unchanged is accepted and changes nothing.
LEMMA PostBackIs ==
  ASSUME PageInv, PostBack, global = pageOf
  PROVE  global' = global /\ pc' = "compare"
<1>1. pc = "idle" /\ Post(page) /\ global \in Valid
  BY DEF PostBack, Post, PageInv, Inv, ActiveValid
<1>2. page = Sent(global.rest) /\ global.rest \in ValidRest
      /\ global = [ap_state |-> global.ap_state, rest |-> global.rest]
  BY <1>1, SentIsPage DEF PageInv
<1> DEFINE new == Parsed(Found(page), global.rest)
<1>3. new = global.rest /\ Bad \notin {new.num, new.str, new.secret}
  BY <1>2, ParsedIsSent
<1>4. IF Bad \in {new.num, new.str, new.secret}
      THEN Rejected
      ELSE Apply([ap_state |-> global.ap_state, rest |-> new])
           \/ Reject([ap_state |-> global.ap_state, rest |-> new])
  BY <1>1 DEF Post
<1> HIDE DEF new
<1>5. Apply(global) \/ Reject(global)
  BY <1>2, <1>3, <1>4
<1>6. Apply(global)
  BY <1>1, <1>5 DEF Reject
<1> QED BY <1>6 DEF Apply, Begin

LEMMA PageInvHolds == PageSpec => []PageInv
  BY PageInitInv, PageStep, PTL DEF PageSpec

\* A page is there exactly if it was made of settings (settings.c 173-219).
THEOREM PageTypes == PageSpec => []PageTypeOK
<1>1. ASSUME PageInv PROVE PageTypeOK
  <2>1. TypeOK /\ pageOf \in Settings \union {Blank}
    BY <1>1, SettingsFacts DEF PageInv, Inv
  <2>2. (page = NoPage) <=> (pageOf = Blank)
    BY <1>1, SentIsPage DEF PageInv
  <2> QED BY <2>1, <2>2 DEF PageTypeOK
<1> QED BY <1>1, PageInvHolds, PTL

\* The page that was got can be sent back: what json_append_string escapes
\* json_parse_string reads, and an empty secret leaves the old one alone
\* (settings.c 95-158, 173-275).
THEOREM PageComesBack == PageSpec => PageRoundTrip
<1>1. ASSUME PageInv, [PageNext]_pageVars
      PROVE  [PostBack /\ global = pageOf => global' = global /\ pc' = "compare"]_pageVars
  BY <1>1, PostBackIs
<1> QED BY <1>1, PageInvHolds, PTL DEF PageSpec, PageRoundTrip

\* With requests of the web page, whatever they contain, the store still keeps
\* what DurableSettings promises (settings.c 221-275).
THEOREM PageStoreDurable ==
  PageSpec => [](ActiveValid /\ SavedMeansDurable) /\ ImplementsDurable
<1>1. PageInv => ActiveValid /\ SavedMeansDurable
  BY DEF PageInv, Inv
<1>2. PageSpec => ImplementsDurable
  BY PageInitInv, PageStep, PageInvHolds, PTL DEF PageSpec, Durable!Spec, ImplementsDurable
<1> QED BY <1>1, <1>2, PageInvHolds, PTL
=============================================================================
