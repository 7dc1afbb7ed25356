-------------------------- MODULE Platform_proofs --------------------------
(***************************************************************************)
(* Proofs about module Platform, for any sensors, ports, temperatures and  *)
(* stores of the operator: the unlocked register of the LEDs never shows   *)
(* one LED another's bits, and the watchdog is fed in time.                *)
(***************************************************************************)
EXTENDS Platform, FiniteSetTheorems, TLAPS

-----------------------------------------------------------------------------
(* Register 0x13                                                           *)

Byte == 0 .. 255

\* The colour of a field of the register's value, as led_show() reads it.
ShowOf(val, l) ==
  CASE LedField(val, l) = 2 -> "green" [] LedField(val, l) = 1 -> "amber" [] OTHER -> "off"

\* A byte is its four fields.
Packed(a, b, c, d) == a + 4 * b + 16 * c + 64 * d

LEMMA FieldsOf ==
  ASSUME NEW a \in 0 .. 3, NEW b \in 0 .. 3, NEW c \in 0 .. 3, NEW d \in 0 .. 3
  PROVE  /\ Packed(a, b, c, d) \in Byte
         /\ LedField(Packed(a, b, c, d), "psu1") = a
         /\ LedField(Packed(a, b, c, d), "psu2") = b
         /\ LedField(Packed(a, b, c, d), "diag") = c
         /\ LedField(Packed(a, b, c, d), "fan") = d
<1> USE DEF Packed, LedField, Shift, Byte
<1>1. Packed(a, b, c, d) \in Byte OBVIOUS
<1>2. LedField(Packed(a, b, c, d), "psu1") = a OBVIOUS
<1>3. LedField(Packed(a, b, c, d), "psu2") = b OBVIOUS
<1>4. LedField(Packed(a, b, c, d), "diag") = c OBVIOUS
<1>5. LedField(Packed(a, b, c, d), "fan") = d OBVIOUS
<1> QED BY <1>1, <1>2, <1>3, <1>4, <1>5

LEMMA Unpack ==
  ASSUME NEW v \in Byte
  PROVE  \E a, b, c, d \in 0 .. 3 : v = Packed(a, b, c, d)
<1> DEFINE a == v % 4
           b == (v \div 4) % 4
           c == (v \div 16) % 4
           d == v \div 64
<1>1. a \in 0 .. 3 /\ b \in 0 .. 3 /\ c \in 0 .. 3 /\ d \in 0 .. 3 BY DEF Byte
<1>2. v \div 4 = 4 * (v \div 16) + b BY DEF Byte
<1>3. v \div 16 = 4 * d + c BY DEF Byte
<1>4. v = 4 * (v \div 4) + a BY DEF Byte
<1>5. v = Packed(a, b, c, d) BY <1>1, <1>2, <1>3, <1>4 DEF Packed, Byte
<1> QED BY <1>1, <1>5

\* Clearing the field of one LED leaves the others'.
LEMMA MaskField ==
  ASSUME NEW v \in Byte, NEW l \in Leds
  PROVE  /\ led_mask(v, l) \in Byte
         /\ \A m \in Leds : LedField(led_mask(v, l), m) = IF m = l THEN 0 ELSE LedField(v, m)
<1>1. PICK a, b, c, d \in 0 .. 3 : v = Packed(a, b, c, d) BY Unpack
<1>2. /\ LedField(v, "psu1") = a /\ LedField(v, "psu2") = b
      /\ LedField(v, "diag") = c /\ LedField(v, "fan") = d
  BY <1>1, FieldsOf
<1>3. ASSUME NEW a1 \in 0 .. 3, NEW b1 \in 0 .. 3, NEW c1 \in 0 .. 3, NEW d1 \in 0 .. 3,
             led_mask(v, l) = Packed(a1, b1, c1, d1)
      PROVE  /\ led_mask(v, l) \in Byte
             /\ LedField(led_mask(v, l), "psu1") = a1 /\ LedField(led_mask(v, l), "psu2") = b1
             /\ LedField(led_mask(v, l), "diag") = c1 /\ LedField(led_mask(v, l), "fan") = d1
  BY <1>3, FieldsOf
<1> USE DEF Leds
<1>4. CASE l = "psu1"
  <2>1. led_mask(v, l) = Packed(0, b, c, d) BY <1>1, <1>2, <1>4 DEF led_mask, Shift, Packed
  <2> QED BY <1>2, <1>3, <1>4, <2>1
<1>5. CASE l = "psu2"
  <2>1. led_mask(v, l) = Packed(a, 0, c, d) BY <1>1, <1>2, <1>5 DEF led_mask, Shift, Packed
  <2> QED BY <1>2, <1>3, <1>5, <2>1
<1>6. CASE l = "diag"
  <2>1. led_mask(v, l) = Packed(a, b, 0, d) BY <1>1, <1>2, <1>6 DEF led_mask, Shift, Packed
  <2> QED BY <1>2, <1>3, <1>6, <2>1
<1>7. CASE l = "fan"
  <2>1. led_mask(v, l) = Packed(a, b, c, 0) BY <1>1, <1>2, <1>7 DEF led_mask, Shift, Packed
  <2> QED BY <1>2, <1>3, <1>7, <2>1
<1> QED BY <1>4, <1>5, <1>6, <1>7

\* A colour or-ed into a clear field stays in it.
LEMMA BitsField ==
  ASSUME NEW v \in Byte, NEW l \in Leds, NEW x \in Colors, LedField(v, l) = 0
  PROVE  /\ v + led_bits(l, x) \in Byte
         /\ \A m \in Leds : LedField(v + led_bits(l, x), m) = IF m = l THEN ColorCode(x) ELSE LedField(v, m)
<1>1. PICK a, b, c, d \in 0 .. 3 : v = Packed(a, b, c, d) BY Unpack
<1>2. /\ LedField(v, "psu1") = a /\ LedField(v, "psu2") = b
      /\ LedField(v, "diag") = c /\ LedField(v, "fan") = d
  BY <1>1, FieldsOf
<1> DEFINE e == ColorCode(x)
           w == v + led_bits(l, x)
<1>3. e \in 0 .. 3 BY DEF ColorCode, Colors
<1>4. w = v + e * Shift(l) BY DEF led_bits
<1> HIDE DEF e, w
<1>5. ASSUME NEW a1 \in 0 .. 3, NEW b1 \in 0 .. 3, NEW c1 \in 0 .. 3, NEW d1 \in 0 .. 3,
             w = Packed(a1, b1, c1, d1)
      PROVE  /\ w \in Byte
             /\ LedField(w, "psu1") = a1 /\ LedField(w, "psu2") = b1
             /\ LedField(w, "diag") = c1 /\ LedField(w, "fan") = d1
  BY <1>5, FieldsOf
<1> USE DEF Leds
<1>6. CASE l = "psu1"
  <2>1. w = Packed(e, b, c, d) BY <1>1, <1>2, <1>3, <1>4, <1>6 DEF Shift, Packed
  <2>2. w \in Byte /\ \A m \in Leds : LedField(w, m) = IF m = l THEN e ELSE LedField(v, m)
    BY <1>2, <1>3, <1>5, <1>6, <2>1
  <2> QED BY <2>2 DEF e, w
<1>7. CASE l = "psu2"
  <2>1. w = Packed(a, e, c, d) BY <1>1, <1>2, <1>3, <1>4, <1>7 DEF Shift, Packed
  <2>2. w \in Byte /\ \A m \in Leds : LedField(w, m) = IF m = l THEN e ELSE LedField(v, m)
    BY <1>2, <1>3, <1>5, <1>7, <2>1
  <2> QED BY <2>2 DEF e, w
<1>8. CASE l = "diag"
  <2>1. w = Packed(a, b, e, d) BY <1>1, <1>2, <1>3, <1>4, <1>8 DEF Shift, Packed
  <2>2. w \in Byte /\ \A m \in Leds : LedField(w, m) = IF m = l THEN e ELSE LedField(v, m)
    BY <1>2, <1>3, <1>5, <1>8, <2>1
  <2> QED BY <2>2 DEF e, w
<1>9. CASE l = "fan"
  <2>1. w = Packed(a, b, c, e) BY <1>1, <1>2, <1>3, <1>4, <1>9 DEF Shift, Packed
  <2>2. w \in Byte /\ \A m \in Leds : LedField(w, m) = IF m = l THEN e ELSE LedField(v, m)
    BY <1>2, <1>3, <1>5, <1>9, <2>1
  <2> QED BY <2>2 DEF e, w
<1> QED BY <1>6, <1>7, <1>8, <1>9

-----------------------------------------------------------------------------
(* Overlapping stores                                                      *)

\* Every field of the value but those in `except' shows a colour asked for.
Shows(val, seen, except) ==
  /\ val \in Byte
  /\ \A l \in Leds \ except : LedField(val, l) < 3 /\ ShowOf(val, l) \in seen[l]

\* A store in progress has read such a value, however long ago, and cleared the
\* field it is about to fill: what it overwrites may be newer, but what it
\* writes was asked for as well.
StoreSound(st, seen) ==
  /\ st.led \in Leds /\ st.color \in Colors /\ st.color \in seen[st.led]
  /\ Shows(st.val, seen, {st.led}) /\ LedField(st.val, st.led) = 0

LedInv ==
  /\ asked \in [Leds -> SUBSET Colors] /\ DOMAIN store = Procs
  /\ Shows(led, asked, {})
  /\ \A p \in Procs : store[p] # NoStore => StoreSound(store[p], asked)

\* The read of a store.
LEMMA ReadSound ==
  ASSUME NEW v, NEW seen, Shows(v, seen, {}), NEW l \in Leds, NEW c \in Colors, c \in seen[l]
  PROVE  StoreSound([led |-> l, color |-> c, val |-> led_mask(v, l)], seen)
<1>1. v \in Byte BY DEF Shows
<1>2. /\ led_mask(v, l) \in Byte
      /\ \A m \in Leds : LedField(led_mask(v, l), m) = IF m = l THEN 0 ELSE LedField(v, m)
  BY <1>1, MaskField
<1>3. ASSUME NEW m \in Leds \ {l}
      PROVE  LedField(led_mask(v, l), m) < 3 /\ ShowOf(led_mask(v, l), m) \in seen[m]
  <2>1. LedField(led_mask(v, l), m) = LedField(v, m) BY <1>2
  <2>2. LedField(v, m) < 3 /\ ShowOf(v, m) \in seen[m] BY DEF Shows
  <2> QED BY <2>1, <2>2 DEF ShowOf
<1> QED BY <1>2, <1>3 DEF StoreSound, Shows

\* The write of a store, whatever the register holds by then.
LEMMA WriteSound ==
  ASSUME NEW st, NEW seen, StoreSound(st, seen)
  PROVE  Shows(st.val + led_bits(st.led, st.color), seen, {})
<1> DEFINE w == st.val + led_bits(st.led, st.color)
<1>1. /\ st.val \in Byte /\ st.led \in Leds /\ st.color \in Colors
      /\ LedField(st.val, st.led) = 0 /\ st.color \in seen[st.led]
  BY DEF StoreSound, Shows
<1>2. /\ w \in Byte
      /\ \A m \in Leds : LedField(w, m) = IF m = st.led THEN ColorCode(st.color) ELSE LedField(st.val, m)
  BY <1>1, BitsField
<1> HIDE DEF w
<1>3. ASSUME NEW m \in Leds PROVE LedField(w, m) < 3 /\ ShowOf(w, m) \in seen[m]
  <2>1. CASE m = st.led
    <3>1. LedField(w, m) = ColorCode(st.color) BY <1>2, <2>1
    <3>2. ColorCode(st.color) < 3 /\ ShowOf(w, m) = st.color
      BY <1>1, <3>1 DEF ShowOf, ColorCode, Colors
    <3> QED BY <1>1, <2>1, <3>1, <3>2
  <2>2. CASE m # st.led
    <3>1. LedField(w, m) = LedField(st.val, m) BY <1>2, <2>2
    <3>2. LedField(st.val, m) < 3 /\ ShowOf(st.val, m) \in seen[m]
      BY <2>2 DEF StoreSound, Shows
    <3> QED BY <3>1, <3>2 DEF ShowOf
  <2> QED BY <2>1, <2>2
<1>4. Shows(w, seen, {}) BY <1>2, <1>3 DEF Shows
<1> QED BY <1>4 DEF w

\* More colours asked for: what was sound stays so.
LEMMA SeenGrows ==
  ASSUME NEW seen, NEW more, \A l \in Leds : seen[l] \subseteq more[l]
  PROVE  /\ \A v : Shows(v, seen, {}) => Shows(v, more, {})
         /\ \A st : StoreSound(st, seen) => StoreSound(st, more)
BY DEF Shows, StoreSound

LEMMA LedStart == Init => LedInv
<1> SUFFICES ASSUME Init PROVE LedInv OBVIOUS
<1>1. ASSUME NEW l \in Leds PROVE LedField(0, l) = 0 BY DEF LedField, Shift, Leds
<1>2. Shows(0, asked, {})
  BY <1>1 DEF Init, Shows, ShowOf, Byte
<1>3. asked \in [Leds -> SUBSET Colors] BY DEF Init, Colors
<1> QED BY <1>2, <1>3 DEF Init, LedInv

\* A process begins a store, ends one, or neither.
LEMMA LedRead ==
  ASSUME LedInv, NEW p \in Procs, NEW l \in Leds, NEW c \in Colors,
         led_store_read(p, l, c), UNCHANGED led
  PROVE  LedInv'
<1>1. PICK seen : seen = asked' OBVIOUS
<1>2. PICK st : st = [led |-> l, color |-> c, val |-> led_mask(led, l)] OBVIOUS
<1>3. seen = [asked EXCEPT ![l] = @ \cup {c}] /\ store' = [store EXCEPT ![p] = st]
  BY <1>1, <1>2 DEF led_store_read
<1>4. seen \in [Leds -> SUBSET Colors] /\ \A m \in Leds : asked[m] \subseteq seen[m]
  BY <1>3 DEF LedInv
<1>5. /\ \A v : Shows(v, asked, {}) => Shows(v, seen, {})
      /\ \A s : StoreSound(s, asked) => StoreSound(s, seen)
  BY <1>4, SeenGrows, Zenon
<1>6. Shows(led, seen, {}) BY <1>5 DEF LedInv
<1>7. StoreSound(st, seen)
  <2>1. c \in seen[l] BY <1>3 DEF LedInv
  <2> QED BY <1>2, <1>6, <2>1, ReadSound
<1>8. ASSUME NEW q \in Procs, store'[q] # NoStore PROVE StoreSound(store'[q], seen)
  <2>1. store'[q] = IF q = p THEN st ELSE store[q] BY <1>3 DEF LedInv
  <2> QED BY <1>5, <1>7, <1>8, <2>1 DEF LedInv
<1>9. DOMAIN store' = Procs BY <1>3 DEF LedInv
<1> QED BY <1>1, <1>4, <1>6, <1>8, <1>9 DEF LedInv

LEMMA LedWrite ==
  ASSUME LedInv, NEW p \in Procs, led_store_write(p), UNCHANGED asked
  PROVE  LedInv'
<1>1. PICK st : st = store[p] OBVIOUS
<1>2. PICK v : v = st.val + led_bits(st.led, st.color) OBVIOUS
<1>3. StoreSound(st, asked) BY <1>1 DEF LedInv, led_store_write
<1>4. Shows(v, asked, {}) BY <1>2, <1>3, WriteSound
<1>5. led' = v /\ store' = [store EXCEPT ![p] = NoStore] BY <1>1, <1>2 DEF led_store_write
<1>6. ASSUME NEW q \in Procs, store'[q] # NoStore PROVE store'[q] = store[q] /\ StoreSound(store[q], asked)
  BY <1>5, <1>6 DEF LedInv
<1> QED BY <1>4, <1>5, <1>6 DEF LedInv

LEMMA LedSame ==
  ASSUME LedInv, UNCHANGED <<led, store, asked>>
  PROVE  LedInv'
BY DEF LedInv

\* Every colour the daemon sets is one of the three.
LEMMA DaemonSets ==
  ASSUME LedInv, NEW l \in Leds, NEW c \in Colors, cpld_set_led(l, c), UNCHANGED led
  PROVE  LedInv'
BY LedRead, LedSame DEF cpld_set_led, Procs

LEMMA LedStep == LedInv /\ [Next]_vars => LedInv'
<1> SUFFICES ASSUME LedInv, [Next]_vars PROVE LedInv' OBVIOUS
<1>1. CASE FinishStore BY <1>1, LedWrite DEF FinishStore, Procs
<1>2. CASE OperatorFinish BY <1>2, LedWrite DEF OperatorFinish, Procs
<1>3. CASE Start BY <1>3, DaemonSets DEF Start, Leds, Colors
<1>4. CASE SetPsuLed
  <2>1. PICK isOk : cpld_set_led(psu_led(psu), PsuColor(present, isOk)) BY <1>4 DEF SetPsuLed
  <2>2. psu_led(psu) \in Leds BY DEF psu_led, Leds
  <2>3. PsuColor(present, isOk) \in Colors BY DEF PsuColor, Colors
  <2> QED BY <1>4, <2>1, <2>2, <2>3, DaemonSets DEF SetPsuLed
<1>5. CASE SetFanLed
  <2>1. PICK c \in Colors : cpld_set_led("fan", c)
    <3>1. (IF fan_present = 0 \/ fan_ok = 0 THEN "amber" ELSE "green") \in Colors BY DEF Colors
    <3> QED BY <1>5, <3>1 DEF SetFanLed
  <2> QED BY <1>5, <2>1, DaemonSets DEF SetFanLed, Leds
<1>6. CASE OperatorLed
  <2>1. PICK l \in OperatorLeds, c \in OperatorColors : led_store_read("operator", l, c)
    BY <1>6 DEF OperatorLed
  <2>2. l \in Leds /\ c \in Colors BY PlatformAssumption
  <2> QED BY <1>6, <2>1, <2>2, LedRead DEF OperatorLed, Procs
<1>7. CASE Top \/ thermal_manage_fans \/ (\E s \in Sensors : thermal_read_max(s))
  BY <1>7, LedSame DEF Top, thermal_manage_fans, thermal_read_max
<1>8. CASE CheckPsuPresent \/ CheckPsuOk \/ CheckFanOk \/ CheckFanPresent
  BY <1>8, LedSame DEF CheckPsuPresent, CheckPsuOk, CheckFanOk, CheckFanPresent
<1>9. CASE (\E port \in SfpPorts : ScanPort(port)) \/ ScanDone \/ Sleep
  BY <1>9, LedSame DEF ScanPort, ScanDone, Sleep
<1>10. CASE Probe \/ Remove \/ OperatorPwm1 \/ BoardChanges
  BY <1>10, LedSame DEF Probe, Remove, OperatorPwm1, BoardChanges
<1>11. CASE UNCHANGED vars BY <1>11, LedSame DEF vars
<1> QED BY <1>1, <1>2, <1>3, <1>4, <1>5, <1>6, <1>7, <1>8, <1>9, <1>10, <1>11 DEF Next, Daemon

\* Stores of the daemon and of the operator may overlap in the unlocked register
\* and lose one another's colour; no LED ever shows a colour nobody stored.
THEOREM LedsStayApart == Spec => []LedsApart
<1>1. LedInv => LedsApart
  <2> SUFFICES ASSUME LedInv, NEW l \in Leds
               PROVE  LedField(led, l) < 3 /\ led_show(l) \in asked[l]
    BY DEF LedsApart
  <2>1. led_show(l) = ShowOf(led, l) BY DEF led_show, ShowOf
  <2> QED BY <2>1 DEF LedInv, Shows
<1> QED BY <1>1, LedStart, LedStep, PTL DEF Spec

-----------------------------------------------------------------------------
(* The watchdog                                                            *)

\* The remainder is the only one in range.
LEMMA RemainderIs ==
  ASSUME NEW a \in Nat \ {0}, NEW x \in Nat, NEW q \in Nat, NEW r \in 0 .. a - 1, x = q * a + r
  PROVE  x % a = r
<1>1. PICK d \in Nat, m \in 0 .. a - 1 : x = d * a + m /\ x % a = m
  <2>1. x = (x \div a) * a + (x % a) OBVIOUS
  <2>2. x \div a \in Nat /\ x % a \in 0 .. a - 1 OBVIOUS
  <2> QED BY <2>1, <2>2
<1>2. (q - d) * a = m - r BY <1>1
<1>3. CASE q - d >= 1
  <2>1. (q - d) * a >= a BY <1>1, <1>3
  <2> QED BY <1>1, <1>2, <2>1
<1>4. CASE d - q >= 1
  <2>1. (d - q) * a >= a BY <1>1, <1>4
  <2>2. (d - q) * a = r - m BY <1>1
  <2> QED BY <1>1, <2>1, <2>2
<1>5. CASE q = d BY <1>1, <1>5
<1> QED BY <1>1, <1>3, <1>4, <1>5

\* A second later.
LEMMA NextRemainder ==
  ASSUME NEW a \in Nat \ {0}, NEW x \in Nat
  PROVE  /\ x % a \in 0 .. a - 1
         /\ (x + 1) % a = IF x % a = a - 1 THEN 0 ELSE (x % a) + 1
<1>1. PICK d \in Nat, m \in 0 .. a - 1 : x = d * a + m /\ x % a = m
  <2>1. x = (x \div a) * a + (x % a) OBVIOUS
  <2>2. x \div a \in Nat /\ x % a \in 0 .. a - 1 OBVIOUS
  <2> QED BY <2>1, <2>2
<1>2. CASE m = a - 1
  <2>1. x + 1 = (d + 1) * a + 0 BY <1>1, <1>2
  <2>2. (x + 1) % a = 0
    <3>1. x + 1 \in Nat /\ d + 1 \in Nat /\ 0 \in 0 .. a - 1 OBVIOUS
    <3> QED BY <2>1, <3>1, RemainderIs
  <2> QED BY <1>1, <1>2, <2>2
<1>3. CASE m < a - 1
  <2>1. x + 1 = d * a + (m + 1) BY <1>1
  <2>2. (x + 1) % a = m + 1
    <3>1. x + 1 \in Nat /\ m + 1 \in 0 .. a - 1 BY <1>3
    <3> QED BY <2>1, <3>1, RemainderIs
  <2> QED BY <1>1, <1>3, <2>2
<1> QED BY <1>1, <1>2, <1>3

\* Counting modulo a product of the periods keeps the phase of each: the counter
\* that main() never resets and the model's, which wraps, agree on when the
\* next keepalive and the next poll are due.
LEMMA TickWraps ==
  ASSUME NEW a \in Nat \ {0}, NEW b \in Nat \ {0}, NEW x \in 0 .. a * b - 1, NEW y,
         y = (x + 1) % (a * b)
  PROVE  /\ y \in 0 .. a * b - 1
         /\ y % b = IF x % b = b - 1 THEN 0 ELSE (x % b) + 1
<1> DEFINE n == a * b
<1>1. n \in Nat \ {0} OBVIOUS
<1>2. x \in Nat /\ x % n = x
  <2>1. x = 0 * n + x /\ x \in 0 .. n - 1 /\ x \in Nat BY <1>1
  <2> HIDE DEF n
  <2> QED BY <1>1, <2>1, RemainderIs
<1>3. y = IF x = n - 1 THEN 0 ELSE x + 1
  <2>1. y = (x + 1) % n OBVIOUS
  <2> HIDE DEF n
  <2> QED BY <1>1, <1>2, <2>1, NextRemainder
<1>4. y \in 0 .. n - 1
  <2>1. x \in 0 .. n - 1 OBVIOUS
  <2> HIDE DEF n
  <2> QED BY <1>1, <1>3, <2>1
<1>5. (x + 1) % b = IF x % b = b - 1 THEN 0 ELSE (x % b) + 1 BY <1>2, NextRemainder
<1>6. CASE x = n - 1
  <2>1. x + 1 = a * b + 0 BY <1>6
  <2>2. (x + 1) % b = 0
    <3>1. x + 1 \in Nat /\ a \in Nat /\ 0 \in 0 .. b - 1 BY <1>2
    <3> QED BY <2>1, <3>1, RemainderIs
  <2>3. 0 % b = 0
    <3>1. 0 = 0 * b + 0 /\ 0 \in 0 .. b - 1 OBVIOUS
    <3> QED BY <3>1, RemainderIs
  <2> QED BY <1>3, <1>4, <1>5, <1>6, <2>2, <2>3
<1>7. CASE x # n - 1 BY <1>3, <1>4, <1>5, <1>7
<1> QED BY <1>6, <1>7

\* Seconds into the keepalive's period, and into the poll's; seconds that the
\* scan of some ports may take.
Fed    == ticks % WDT_KEEPALIVE_S
Polled == ticks % POLL_INTERVAL_S
Scan(ports) == 2 * BusTimeout * Cardinality(ports)

PollPcs == {"temp", "psu", "psu_ok", "psu_led", "fan", "fan_present", "fan_led"}

\* How long ago the watchdog was fed: the seconds slept since, and the scan of
\* the one poll that can have begun since.  That a poll has is seen from the
\* counter alone.
WatchInv ==
  /\ ticks \in 0 .. POLL_INTERVAL_S * WDT_KEEPALIVE_S - 1 /\ gap \in Nat
  /\ pc \in PollPcs \cup {"start", "top", "scan", "sleep"}
  /\ pc = "start" => ticks = 0 /\ gap = 0
  /\ pc = "top" => gap <= IF Fed = 0 THEN WDT_KEEPALIVE_S + Scan(SfpPorts)
                          ELSE Fed + (IF Polled \in 1 .. Fed THEN Scan(SfpPorts) ELSE 0)
  /\ pc \in PollPcs => Polled = 0 /\ gap <= Fed
  /\ pc = "scan" => /\ Polled = 0 /\ unread \subseteq SfpPorts
                    /\ gap + Scan(unread) <= Fed + Scan(SfpPorts)
  /\ pc = "sleep" => gap <= Fed + (IF Polled <= Fed THEN Scan(SfpPorts) ELSE 0)

LEMMA ScanType ==
  ASSUME NEW ports \in SUBSET SfpPorts
  PROVE  Scan(ports) \in Nat
<1>1. Cardinality(ports) \in Nat BY PlatformAssumption, FS_Subset, FS_CardinalityType
<1> QED BY <1>1, PlatformAssumption DEF Scan

\* One port less to visit.
LEMMA ScanOne ==
  ASSUME NEW ports \in SUBSET SfpPorts, NEW port \in ports
  PROVE  Scan(ports \ {port}) = Scan(ports) - 2 * BusTimeout
<1>1. IsFiniteSet(ports) BY PlatformAssumption, FS_Subset
<1>2. Cardinality(ports) \in Nat BY <1>1, FS_CardinalityType
<1>3. Cardinality(ports \ {port}) = Cardinality(ports) - 1 BY <1>1, FS_RemoveElement
<1> QED BY <1>2, <1>3, PlatformAssumption DEF Scan

LEMMA PhaseType ==
  ASSUME WatchInv
  PROVE  /\ Fed \in 0 .. WDT_KEEPALIVE_S - 1 /\ Polled \in 0 .. POLL_INTERVAL_S - 1
         /\ ticks \in Nat
<1>1. ticks \in Nat BY PlatformAssumption DEF WatchInv
<1> QED BY <1>1, PlatformAssumption, NextRemainder DEF Fed, Polled

LEMMA WatchStart == Init => WatchInv
<1> SUFFICES ASSUME Init PROVE WatchInv OBVIOUS
<1>1. POLL_INTERVAL_S * WDT_KEEPALIVE_S >= 1 BY PlatformAssumption
<1>2. POLL_INTERVAL_S * WDT_KEEPALIVE_S \in Nat BY PlatformAssumption
<1> QED BY <1>1, <1>2 DEF Init, WatchInv, PollPcs

LEMMA WatchTop ==
  ASSUME WatchInv, Top
  PROVE  WatchInv'
<1>1. PICK r, q : r = Fed /\ q = Polled OBVIOUS
<1>2. Fed' = r /\ Polled' = q /\ UNCHANGED ticks BY <1>1 DEF Top, Fed, Polled
<1>3. r \in Nat /\ q \in Nat BY <1>1, PhaseType
<1>4. Scan(SfpPorts) \in Nat BY ScanType
<1>5. gap' = IF r = 0 THEN 0 ELSE gap BY <1>1 DEF Top, Fed, cpld_watchdog_keepalive, clock
<1>6. pc' = IF q = 0 THEN "temp" ELSE "sleep" BY <1>1 DEF Top, Goto, Polled
<1>7. gap' \in Nat BY <1>5 DEF WatchInv
<1>8. r # 0 => gap <= r + (IF q \in 1 .. r THEN Scan(SfpPorts) ELSE 0) BY <1>1 DEF WatchInv, Top, At
<1>9. CASE q = 0
  <2>1. gap' <= r BY <1>3, <1>4, <1>5, <1>8, <1>9
  <2> QED BY <1>2, <1>6, <1>7, <1>9, <2>1 DEF WatchInv, PollPcs
<1>10. CASE q # 0
  <2>1. gap' <= r + (IF q <= r THEN Scan(SfpPorts) ELSE 0) BY <1>3, <1>4, <1>5, <1>8, <1>10
  <2> QED BY <1>2, <1>6, <1>7, <1>10, <2>1 DEF WatchInv, PollPcs
<1> QED BY <1>9, <1>10

\* Where the poll is not longer than the keepalive's period one of the two
\* phases is at its end only if no poll, or the whole period, has passed.
LEMMA WatchSleep ==
  ASSUME WDT_KEEPALIVE_S <= POLL_INTERVAL_S, WatchInv, Sleep
  PROVE  WatchInv'
<1>1. PICK r, q, w, p : r = Fed /\ q = Polled /\ w = WDT_KEEPALIVE_S /\ p = POLL_INTERVAL_S OBVIOUS
<1>2. w \in Nat \ {0} /\ p \in Nat \ {0} /\ w <= p BY <1>1, PlatformAssumption
<1>3. r \in 0 .. w - 1 /\ q \in 0 .. p - 1 BY <1>1, PhaseType
<1>4. Scan(SfpPorts) \in Nat BY ScanType
<1>5. /\ ticks' \in 0 .. p * w - 1
      /\ Fed' = IF r = w - 1 THEN 0 ELSE r + 1
  <2>1. ticks \in 0 .. p * w - 1 /\ ticks' = (ticks + 1) % (p * w) BY <1>1 DEF Sleep, WatchInv
  <2>2. /\ ticks' \in 0 .. p * w - 1
        /\ ticks' % w = IF ticks % w = w - 1 THEN 0 ELSE (ticks % w) + 1
    BY <1>2, <2>1, TickWraps, Zenon
  <2> QED BY <1>1, <2>2 DEF Fed
<1>6. Polled' = IF q = p - 1 THEN 0 ELSE q + 1
  <2>1. ticks \in 0 .. w * p - 1 /\ ticks' = (ticks + 1) % (w * p) BY <1>1, <1>2 DEF Sleep, WatchInv
  <2>2. ticks' % p = IF ticks % p = p - 1 THEN 0 ELSE (ticks % p) + 1
    BY <1>2, <2>1, TickWraps, Zenon
  <2> QED BY <1>1, <2>2 DEF Polled
<1>7. gap \in Nat /\ gap <= r + (IF q <= r THEN Scan(SfpPorts) ELSE 0)
  BY <1>1 DEF WatchInv, Sleep, At
<1>8. gap' = gap + 1 /\ pc' = "top" BY DEF Sleep, Pass, Goto
<1>9. CASE r = w - 1 BY <1>1, <1>2, <1>3, <1>4, <1>5, <1>7, <1>8, <1>9 DEF WatchInv, PollPcs
<1>10. CASE r # w - 1
  <2>1. q <= r => q + 1 \in 1 .. r + 1 /\ Polled' = q + 1 BY <1>2, <1>3, <1>6, <1>10
  <2>2. gap' <= Fed' + (IF Polled' \in 1 .. Fed' THEN Scan(SfpPorts) ELSE 0)
    BY <1>3, <1>4, <1>5, <1>7, <1>8, <1>10, <2>1
  <2>3. Fed' # 0 BY <1>3, <1>5, <1>10
  <2> QED BY <1>1, <1>5, <1>7, <1>8, <2>2, <2>3 DEF WatchInv, PollPcs
<1> QED BY <1>9, <1>10

LEMMA WatchScan ==
  ASSUME WatchInv, NEW port \in SfpPorts, ScanPort(port)
  PROVE  WatchInv'
<1>1. PICK t \in Nat : gap' = gap + t /\ t <= 2 * BusTimeout
  <2>1. PICK s \in sfp_read_sysfs, i \in sfp_read_i2c : gap' = gap + (s.took + (IF s.ok THEN 0 ELSE i))
    BY DEF ScanPort, Pass
  <2>2. PICK a, c : a = s.took /\ c = IF s.ok THEN 0 ELSE i OBVIOUS
  <2>3. a \in {0, BusTimeout} /\ c \in {0, BusTimeout} BY <2>2 DEF sfp_read_sysfs, sfp_read_i2c
  <2>4. a + c \in Nat /\ a + c <= 2 * BusTimeout BY <2>3, PlatformAssumption
  <2>5. gap' = gap + (a + c) BY <2>1, <2>2, <2>3, PlatformAssumption DEF WatchInv
  <2> QED BY <2>4, <2>5
<1>2. /\ pc = "scan" /\ pc' = "scan" /\ UNCHANGED ticks
      /\ port \in unread /\ unread' = unread \ {port}
  BY DEF ScanPort, At
<1>3. Polled = 0 /\ unread \subseteq SfpPorts /\ gap \in Nat
      /\ gap + Scan(unread) <= Fed + Scan(SfpPorts)
  BY <1>2 DEF WatchInv
<1>4. Scan(unread \ {port}) = Scan(unread) - 2 * BusTimeout BY <1>2, <1>3, ScanOne
<1>5. Scan(unread) \in Nat /\ Scan(SfpPorts) \in Nat BY <1>3, ScanType
<1>6. Fed \in Nat BY PhaseType
<1>7. gap' + Scan(unread') <= Fed + Scan(SfpPorts)
  <2>1. PICK u, f, m, b : u = Scan(unread) /\ f = Fed /\ m = Scan(SfpPorts) /\ b = 2 * BusTimeout OBVIOUS
  <2>2. b \in Nat BY <2>1, PlatformAssumption
  <2>3. Scan(unread') = u - b BY <1>2, <1>4, <2>1
  <2> QED BY <1>1, <1>3, <1>5, <1>6, <2>1, <2>2, <2>3
<1>8. Fed' = Fed /\ Polled' = Polled BY <1>2 DEF Fed, Polled
<1> QED BY <1>1, <1>2, <1>3, <1>7, <1>8 DEF WatchInv, PollPcs

LEMMA WatchStep ==
  ASSUME WDT_KEEPALIVE_S <= POLL_INTERVAL_S, WatchInv, [Next]_vars
  PROVE  WatchInv'
<1> USE DEF WatchInv, PollPcs
<1>1. ASSUME UNCHANGED <<ticks, gap>> PROVE Fed' = Fed /\ Polled' = Polled BY <1>1 DEF Fed, Polled
<1>2. CASE UNCHANGED <<ticks, gap, pc, unread>> BY <1>1, <1>2
<1>3. CASE Start
  <2>1. ticks = 0 /\ gap = 0 /\ pc' = "top" /\ UNCHANGED <<ticks, gap>> BY <1>3 DEF clock, Start, At, Goto
  <2>2. Fed \in Nat /\ Scan(SfpPorts) \in Nat BY PhaseType, ScanType
  <2>3. 0 <= WDT_KEEPALIVE_S + Scan(SfpPorts) BY <2>2, PlatformAssumption
  <2> QED BY <1>1, <2>1, <2>2, <2>3
<1>4. CASE Top BY <1>4, WatchTop
<1>5. CASE \E s \in Sensors : thermal_read_max(s)
  <2>1. UNCHANGED <<ticks, gap, pc>> /\ pc = "temp" BY <1>5 DEF clock, thermal_read_max, At
  <2> QED BY <1>1, <2>1
<1>6. CASE thermal_manage_fans \/ CheckPsuPresent \/ CheckPsuOk \/ SetPsuLed \/ CheckFanOk \/ CheckFanPresent
  <2>1. UNCHANGED <<ticks, gap>> /\ pc \in PollPcs /\ pc' \in PollPcs
    BY <1>6 DEF clock, thermal_manage_fans, CheckPsuPresent, CheckPsuOk, SetPsuLed, CheckFanOk,
                CheckFanPresent, NextPsu, At, Goto
  <2> QED BY <1>1, <2>1
<1>7. CASE SetFanLed
  <2>1. UNCHANGED <<ticks, gap>> /\ pc \in PollPcs /\ pc' = "scan" /\ unread' = SfpPorts
    BY <1>7 DEF clock, SetFanLed, At, Goto
  <2>2. Fed \in Nat /\ Scan(SfpPorts) \in Nat BY PhaseType, ScanType
  <2>3. Scan(unread') = Scan(SfpPorts) BY <2>1
  <2> QED BY <1>1, <2>1, <2>2, <2>3
<1>8. CASE \E port \in SfpPorts : ScanPort(port) BY <1>8, WatchScan
<1>9. CASE ScanDone
  <2>1. UNCHANGED <<ticks, gap>> /\ pc = "scan" /\ pc' = "sleep" /\ unread = {}
    BY <1>9 DEF clock, ScanDone, At, Goto
  <2>2. Fed \in Nat /\ Scan(SfpPorts) \in Nat /\ Scan({}) \in Nat BY PhaseType, ScanType
  <2>3. gap <= Fed + Scan(SfpPorts)
    <3>1. gap + Scan({}) <= Fed + Scan(SfpPorts) BY <2>1
    <3> QED BY <2>2, <3>1
  <2> QED BY <1>1, <2>1, <2>2, <2>3
<1>10. CASE Sleep BY <1>10, WatchSleep
<1>11. CASE FinishStore \/ Probe \/ Remove \/ OperatorLed \/ OperatorPwm1 \/ OperatorFinish \/ BoardChanges
  BY <1>2, <1>11 DEF clock, FinishStore, Probe, Remove, OperatorLed, OperatorPwm1, OperatorFinish, BoardChanges, polling
<1>12. CASE UNCHANGED vars BY <1>2, <1>12 DEF vars, polling, clock
<1> QED BY <1>3, <1>4, <1>5, <1>6, <1>7, <1>8, <1>9, <1>10, <1>11, <1>12 DEF Next, Daemon

\* No keepalive lets the next one wait for longer than one period and a scan.
LEMMA WatchGap == ASSUME WatchInv PROVE gap \in Nat /\ gap <= Longest
<1> SUFFICES gap \in Nat /\ gap <= WDT_KEEPALIVE_S + Scan(SfpPorts) BY DEF Longest, Scan
<1>1. Fed \in 0 .. WDT_KEEPALIVE_S - 1 /\ WDT_KEEPALIVE_S \in Nat BY PhaseType, PlatformAssumption
<1>2. Scan(SfpPorts) \in Nat /\ gap \in Nat BY ScanType DEF WatchInv
<1>3. gap <= Fed + Scan(SfpPorts) \/ gap <= Fed \/ gap <= WDT_KEEPALIVE_S + Scan(SfpPorts)
  <2>1. CASE pc = "start" BY <1>1, <1>2, <2>1 DEF WatchInv
  <2>2. CASE pc = "top" BY <1>1, <1>2, <2>2 DEF WatchInv
  <2>3. CASE pc \in PollPcs BY <2>3 DEF WatchInv
  <2>4. CASE pc = "scan"
    <3>1. Scan(unread) \in Nat BY <2>4, ScanType DEF WatchInv
    <3>2. gap + Scan(unread) <= Fed + Scan(SfpPorts) BY <2>4 DEF WatchInv
    <3> QED BY <1>1, <1>2, <3>1, <3>2
  <2>5. CASE pc = "sleep" BY <1>1, <1>2, <2>5 DEF WatchInv
  <2> QED BY <2>1, <2>2, <2>3, <2>4, <2>5 DEF WatchInv
<1> QED BY <1>1, <1>2, <1>3

\* What n keepalives without a driver may cost.
Cost(n) == n * Longest

\* How long ago register 0x06 was written, in terms of the last keepalive,
\* whether it reached the register or not.
UnfedInv ==
  /\ missed \in 0 .. MaxMissed /\ unfed \in Nat
  /\ missed < MaxMissed => unfed <= gap + Cost(missed)

LEMMA CostSteps ==
  ASSUME NEW n \in Nat
  PROVE  /\ Longest \in Nat /\ Cost(n) \in Nat
         /\ Cost(n + 1) = Cost(n) + Longest /\ Cost(0) = 0
<1>1. Longest \in Nat BY ScanType, PlatformAssumption DEF Longest, Scan
<1> QED BY <1>1 DEF Cost

\* Time passes for the register as it does for the keepalive.
LEMMA UnfedPass ==
  ASSUME UnfedInv, gap \in Nat, NEW n \in Nat, Pass(n)
  PROVE  UnfedInv'
<1>1. missed' = missed /\ gap' = gap + n /\ (missed < MaxMissed => unfed' = unfed + n)
      /\ (missed >= MaxMissed => unfed' = unfed)
  BY PlatformAssumption DEF Pass, UnfedInv
<1>2. Cost(missed) \in Nat /\ Cost(missed)' = Cost(missed)
  BY <1>1, CostSteps DEF UnfedInv, Cost, Longest
<1> QED BY <1>1, <1>2, PlatformAssumption DEF UnfedInv

LEMMA UnfedKeepalive ==
  ASSUME WatchInv, UnfedInv, cpld_watchdog_keepalive
  PROVE  UnfedInv'
<1>1. gap \in Nat /\ gap <= Longest BY WatchGap
<1>2. missed \in Nat /\ MaxMissed \in Nat \ {0} BY PlatformAssumption DEF UnfedInv
<1>3. CASE bound
  <2>1. unfed' = 0 /\ missed' = 0 /\ gap' = 0 BY <1>3 DEF cpld_watchdog_keepalive
  <2>2. Cost(missed') = 0 BY <2>1, CostSteps
  <2> QED BY <1>2, <2>1, <2>2 DEF UnfedInv
<1>4. CASE ~bound
  <2>1. unfed' = unfed /\ gap' = 0 /\ missed' = IF missed < MaxMissed THEN missed + 1 ELSE missed
    BY <1>4 DEF cpld_watchdog_keepalive
  <2>2. CASE missed < MaxMissed
    <3>1. missed' = missed + 1 BY <2>1, <2>2
    <3>2. Cost(missed') = Cost(missed) + Longest /\ Cost(missed) \in Nat /\ Longest \in Nat
      BY <1>2, <3>1, CostSteps
    <3>3. unfed' <= gap' + Cost(missed') BY <1>1, <2>1, <2>2, <3>2 DEF UnfedInv
    <3> QED BY <1>2, <2>1, <2>2, <3>1, <3>3 DEF UnfedInv
  <2>3. CASE ~(missed < MaxMissed) BY <2>1, <2>3 DEF UnfedInv
  <2> QED BY <2>2, <2>3
<1> QED BY <1>3, <1>4

LEMMA UnfedStep ==
  ASSUME WatchInv, UnfedInv, [Next]_vars
  PROVE  UnfedInv'
<1>1. gap \in Nat BY DEF WatchInv
<1>2. CASE UNCHANGED clock BY <1>2 DEF clock, UnfedInv, Cost, Longest
<1>3. CASE cpld_watchdog_keepalive BY <1>3, UnfedKeepalive
<1>4. CASE \E n \in Nat : Pass(n) BY <1>1, <1>4, UnfedPass
<1>5. Top => UNCHANGED clock \/ cpld_watchdog_keepalive BY DEF Top
<1>6. Sleep => \E n \in Nat : Pass(n) BY DEF Sleep
<1>7. ASSUME NEW port \in SfpPorts, ScanPort(port) PROVE \E n \in Nat : Pass(n)
  <2>1. PICK s \in sfp_read_sysfs, i \in sfp_read_i2c : Pass(s.took + (IF s.ok THEN 0 ELSE i))
    BY <1>7 DEF ScanPort
  <2>2. s.took + (IF s.ok THEN 0 ELSE i) \in Nat
    BY <2>1, PlatformAssumption DEF sfp_read_sysfs, sfp_read_i2c
  <2> QED BY <2>1, <2>2
<1>8. CASE Start \/ FinishStore \/ thermal_manage_fans \/ (\E s \in Sensors : thermal_read_max(s))
             \/ CheckPsuPresent \/ CheckPsuOk \/ SetPsuLed \/ CheckFanOk \/ CheckFanPresent
             \/ SetFanLed \/ ScanDone
  <2>1. UNCHANGED clock
    BY <1>8 DEF Start, FinishStore, thermal_manage_fans, thermal_read_max, CheckPsuPresent,
                CheckPsuOk, SetPsuLed, CheckFanOk, CheckFanPresent, SetFanLed, ScanDone
  <2> QED BY <1>2, <2>1
<1>9. CASE Probe \/ Remove \/ OperatorLed \/ OperatorPwm1 \/ OperatorFinish \/ BoardChanges
  BY <1>2, <1>9 DEF Probe, Remove, OperatorLed, OperatorPwm1, OperatorFinish, BoardChanges
<1>10. CASE UNCHANGED vars BY <1>2, <1>10 DEF vars
<1> QED BY <1>2, <1>3, <1>4, <1>5, <1>6, <1>7, <1>8, <1>9, <1>10 DEF Next, Daemon

LEMMA UnfedStart == Init => UnfedInv
<1> SUFFICES ASSUME Init PROVE UnfedInv OBVIOUS
<1>1. missed = 0 /\ unfed = 0 /\ gap = 0 BY DEF Init
<1>2. Cost(missed) = 0 BY <1>1, CostSteps
<1> QED BY <1>1, <1>2, PlatformAssumption DEF UnfedInv

\* Between two keepalives there is one poll at most when the keepalive's period
\* is the shorter one (15 s and 30 s in main.c), so register 0x06 never waits
\* for more than that period and one scan with every transfer timing out, and as
\* long again for each keepalive that found no driver to write it.
THEOREM WatchdogIsFed ==
  ASSUME WDT_KEEPALIVE_S <= POLL_INTERVAL_S
  PROVE  Spec => []WatchdogFed
<1>1. WatchInv /\ UnfedInv => WatchdogFed
  <2> SUFFICES ASSUME WatchInv, UnfedInv, missed < MaxMissed PROVE unfed <= Cost(missed + 1)
    BY DEF WatchdogFed, Cost
  <2>1. gap \in Nat /\ gap <= Longest BY WatchGap
  <2>2. missed \in Nat /\ unfed \in Nat /\ unfed <= gap + Cost(missed)
    BY PlatformAssumption DEF UnfedInv
  <2>3. Cost(missed + 1) = Cost(missed) + Longest /\ Cost(missed) \in Nat /\ Longest \in Nat
    BY <2>2, CostSteps
  <2> QED BY <2>1, <2>2, <2>3
<1>2. WatchInv /\ [Next]_vars => WatchInv' BY WatchStep
<1>3. WatchInv /\ UnfedInv /\ [Next]_vars => UnfedInv' BY UnfedStep
<1> QED BY <1>1, <1>2, <1>3, WatchStart, UnfedStart, PTL DEF Spec
=============================================================================
