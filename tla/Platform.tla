------------------------------ MODULE Platform ------------------------------
(***************************************************************************)
(* The platform management daemon (platform/platform-mgrd/main.c) and the  *)
(* CPLD driver under it (platform/drivers/accton_as5610_cpld.c).  The      *)
(* daemon is one thread: each second it may strobe the watchdog and poll   *)
(* the board.  It shares the CPLD's registers with an operator's shell,    *)
(* and the driver takes no lock: storing a LED's colour reads the register *)
(* of the four LEDs and writes it back.                                    *)
(***************************************************************************)
EXTENDS Integers, FiniteSets, FiniteSetsExt

CONSTANTS
  POLL_INTERVAL_S, WDT_KEEPALIVE_S,
  Sensors,          \* hwmon temperature inputs
  Temps,            \* temperatures a sensor may have, in millidegrees
  SfpPorts,         \* ports whose EEPROM is scanned
  BusTimeout,       \* seconds an I2C transfer takes to time out
  OperatorLeds,     \* the LEDs and
  OperatorPwm,      \* the pwm1 values and colours an operator stores
  OperatorColors,
  MaxEvents,        \* bound: failing reads, changes of the board, removals of
                    \* the driver and stores of the operator
  MaxMissed         \* bound: keepalives without a driver that are told apart

TEMP_LOW_MC  == 35000
TEMP_MED_MC  == 45000
PWM_LOW      == 96
PWM_MED      == 168
PWM_MAX      == 248 \* PWM_HIGH has the same value

Psus  == {1, 2}
Leds  == {"psu1", "psu2", "diag", "fan"}
Colors == {"off", "amber", "green"}
Procs == {"daemon", "operator"}
psu_led(n) == IF n = 1 THEN "psu1" ELSE "psu2"

\* The driver has an attribute for each LED and nothing else that reaches the
\* register, and takes whatever is neither "green" nor "amber" for "off".
ASSUME PlatformAssumption ==
  /\ WDT_KEEPALIVE_S \in Nat \ {0} /\ POLL_INTERVAL_S \in Nat \ {0}
  /\ BusTimeout \in Nat /\ MaxMissed \in Nat \ {0} /\ Temps \subseteq Int /\ OperatorPwm \subseteq Int
  /\ IsFiniteSet(Sensors) /\ IsFiniteSet(SfpPorts)
  /\ OperatorLeds \subseteq Leds /\ OperatorColors \subseteq Colors

VARIABLES
  temp,      \* sensor -> temperature
  supply,    \* PSU -> "absent", "fault" or "good"
  fans,      \* the set of fan conditions: "present", "fail"
  led,       \* CPLD register 0x13
  speed,     \* CPLD register 0x0D
  bound,     \* the driver is bound and its attributes exist
  store,     \* process -> the LED store it is in, if any
  pc,        \* where the daemon is in its loop
  ticks,
  unread,    \* sensors or ports still to visit
  max_temp,
  psu, present, ok, \* locals of cpld_check_psu()
  fan_ok, fan_present,
  gap,       \* seconds since the last cpld_watchdog_keepalive()
  unfed,     \* seconds since one of them reached the register, as long as
  missed,    \* the number of those that have not since is below MaxMissed
  asked,     \* LED -> colours somebody stored, and the one it came up with
  quota      \* what is left of the bound

board   == <<temp, supply, fans>>
clock   == <<gap, unfed, missed>>
polling == <<unread, max_temp, psu, present, ok, fan_ok, fan_present>>
vars == <<board, led, speed, bound, store, pc, ticks, polling, clock, asked, quota>>

NoStore == [led |-> "none"]
Event == quota > 0 /\ quota' = quota - 1
Garbage == 2 \* of a local that was never assigned

-----------------------------------------------------------------------------
(* The CPLD and its driver.                                                *)

\* Fields of register 0x13: two bits per LED.
Shift(l) == CASE l = "psu1" -> 1 [] l = "psu2" -> 4 [] l = "diag" -> 16 [] l = "fan" -> 64
LedField(val, l) == (val \div Shift(l)) % 4
ColorCode(c) == CASE c = "off" -> 0 [] c = "amber" -> 1 [] c = "green" -> 2
led_show(l) == CASE LedField(led, l) = 2 -> "green" [] LedField(led, l) = 1 -> "amber" [] OTHER -> "off"

\* Bug: the green of the second supply is its mask, 0x0C instead of 0x08.
Bug_led_bits(l, c) == IF l = "psu2" /\ c = "green" THEN 12 ELSE ColorCode(c) * Shift(l)

\* LED_..._AMBER, LED_..._GREEN
led_bits(l, c) == ColorCode(c) * Shift(l)

\* Register 0x13 with the field of l cleared.
led_mask(val, l) == val - LedField(val, l) * Shift(l)

\* led_diag_store, led_psu_store: the read, and then the write, of the register.
led_store_read(p, l, c) ==
  /\ store' = [store EXCEPT ![p] = [led |-> l, color |-> c, val |-> led_mask(led, l)]]
  /\ asked' = [asked EXCEPT ![l] = @ \cup {c}]

led_store_write(p) ==
  /\ store[p] # NoStore
  /\ led' = store[p].val + led_bits(store[p].led, store[p].color)
  /\ store' = [store EXCEPT ![p] = NoStore]

\* pwm1_store: the value is clamped to 0 .. 248 and scaled to five bits.
pwm1_store(v) == speed' = (CASE v < 0 -> 0 [] v > PWM_MAX -> PWM_MAX [] OTHER -> v) \div 8
pwm1_show == (speed % 32) * 8

\* Registers 0x01 and 0x02: bit 0 is low when the supply is there, bit 1 is
\* high when its power is good.  PSU 1 has the higher register.
StatusReg(a) == LET s == supply[3 - a] IN (IF s = "absent" THEN {0} ELSE {}) \cup (IF s = "good" THEN {1} ELSE {})
psu_pwr_present_show(n) == IF 0 \notin StatusReg(IF n = 1 THEN 2 ELSE 1) THEN 1 ELSE 0
psu_pwr_all_ok_show(n)  == IF 1 \in StatusReg(IF n = 1 THEN 2 ELSE 1) THEN 1 ELSE 0

\* Register 0x03: bit 2 is low when a fan is there, bit 3 is high when it fails.
SysStatus == (IF "present" \in fans THEN {} ELSE {2}) \cup (IF "fail" \in fans THEN {3} ELSE {})
system_fan_ok_show      == IF 3 \notin SysStatus THEN 1 ELSE 0
system_fan_present_show == IF 2 \notin SysStatus THEN 1 ELSE 0

\* as5610_cpld_probe, which fails or creates every attribute, and
\* as5610_cpld_remove, which waits for the stores in progress.
Probe  == ~bound /\ bound' = TRUE /\ UNCHANGED <<board, led, speed, store, pc, ticks, polling, clock, asked, quota>>
Remove ==
  /\ bound /\ \A p \in Procs : store[p] = NoStore
  /\ Event
  /\ bound' = FALSE
  /\ UNCHANGED <<board, led, speed, store, pc, ticks, polling, clock, asked>>

-----------------------------------------------------------------------------
(* The daemon.                                                             *)

\* sysfs_read_int: get the value shown, or fail and leave `old'.  It fails
\* when the attribute is not there, and a bounded number of times otherwise.
sysfs_read_int(here, val, old, var, failed) ==
  \/ here /\ var = val /\ ~failed /\ UNCHANGED quota
  \/ ~here /\ var = old /\ failed /\ UNCHANGED quota
  \/ here /\ var = old /\ failed /\ Event

\* sysfs_write_str to a LED: nothing happens without the attribute.
cpld_set_led(l, c) == IF bound THEN led_store_read("daemon", l, c) ELSE UNCHANGED <<store, asked>>
cpld_set_fan_pwm(pwm) == IF bound THEN pwm1_store(pwm) ELSE UNCHANGED speed

Busy == store["daemon"] # NoStore
At(l) == pc = l /\ ~Busy
Goto(l) == pc' = l

FinishStore ==
  /\ led_store_write("daemon")
  /\ UNCHANGED <<board, speed, bound, pc, ticks, polling, clock, asked, quota>>

Start ==
  /\ At("start") /\ Goto("top") /\ cpld_set_led("diag", "green")
  /\ UNCHANGED <<board, led, speed, bound, ticks, polling, clock, quota>>

\* Time passes, for the register too.
Pass(seconds) ==
  /\ gap' = gap + seconds
  /\ unfed' = IF missed < MaxMissed THEN unfed + seconds ELSE unfed
  /\ UNCHANGED missed

\* watch_dog_keep_alive_store writes register 0x06.  Without the attribute the
\* store fails, and cpld_watchdog_keepalive says nothing.
cpld_watchdog_keepalive ==
  /\ gap' = 0
  /\ IF bound THEN unfed' = 0 /\ missed' = 0
              ELSE UNCHANGED unfed /\ missed' = (IF missed < MaxMissed THEN missed + 1 ELSE missed)

\* Bug: the poll is the other branch of the keepalive.
Bug_Top ==
  /\ At("top")
  /\ IF ticks % WDT_KEEPALIVE_S = 0 /\ ticks % POLL_INTERVAL_S # 0 THEN cpld_watchdog_keepalive
                                                                   ELSE UNCHANGED clock
  /\ IF ticks % POLL_INTERVAL_S = 0 THEN Goto("temp") /\ unread' = Sensors /\ max_temp' = -1
                                    ELSE Goto("sleep") /\ UNCHANGED <<unread, max_temp>>
  /\ UNCHANGED <<board, led, speed, bound, store, ticks, psu, present, ok, fan_ok, fan_present, asked, quota>>

\* The top of the loop: keepalive, then the poll if it is due.
Top ==
  /\ At("top")
  /\ IF ticks % WDT_KEEPALIVE_S = 0 THEN cpld_watchdog_keepalive ELSE UNCHANGED clock
  /\ IF ticks % POLL_INTERVAL_S = 0 THEN Goto("temp") /\ unread' = Sensors /\ max_temp' = -1
                                    ELSE Goto("sleep") /\ UNCHANGED <<unread, max_temp>>
  /\ UNCHANGED <<board, led, speed, bound, store, ticks, psu, present, ok, fan_ok, fan_present, asked, quota>>

\* Bug: every reading replaces the previous one.
Bug_thermal_read_max(s) ==
  /\ At("temp") /\ s \in unread /\ unread' = unread \ {s}
  /\ \E failed \in BOOLEAN : sysfs_read_int(TRUE, temp[s], max_temp, max_temp', failed)
  /\ UNCHANGED <<board, led, speed, bound, store, pc, ticks, psu, present, ok, fan_ok, fan_present, clock, asked>>

\* The sensors one after the other, in the order of the directory.
thermal_read_max(s) ==
  /\ At("temp") /\ s \in unread /\ unread' = unread \ {s}
  /\ \E failed \in BOOLEAN :
       sysfs_read_int(TRUE, Max({temp[s], max_temp}), max_temp, max_temp', failed)
  /\ UNCHANGED <<board, led, speed, bound, store, pc, ticks, psu, present, ok, fan_ok, fan_present, clock, asked>>

\* A maximum below 0 degrees, like no reading at all, gives full speed.
thermal_manage_fans ==
  /\ At("temp") /\ unread = {}
  /\ cpld_set_fan_pwm(CASE 0 <= max_temp /\ max_temp < TEMP_LOW_MC -> PWM_LOW
                        [] TEMP_LOW_MC <= max_temp /\ max_temp < TEMP_MED_MC -> PWM_MED
                        [] OTHER -> PWM_MAX)
  /\ Goto("psu") /\ psu' = 1 /\ ok' = Garbage /\ max_temp' = -1 \* dead
  /\ UNCHANGED <<board, led, bound, store, ticks, unread, present, fan_ok, fan_present, clock, asked, quota>>

NextPsu == IF psu = 1 THEN psu' = 2 /\ Goto("psu") ELSE psu' = 0 /\ Goto("fan")

\* cpld_check_psu, one supply: without psu_pwrN_present the supply is skipped.
CheckPsuPresent ==
  /\ At("psu")
  /\ \E failed \in BOOLEAN :
       /\ sysfs_read_int(bound, psu_pwr_present_show(psu), present, present', failed)
       /\ IF failed THEN NextPsu ELSE Goto("psu_ok") /\ UNCHANGED psu
  /\ UNCHANGED <<board, led, speed, bound, store, ticks, unread, max_temp, ok, fan_ok, fan_present, clock, asked>>

\* Whether psu_pwrN_all_ok could be read is not asked: ok is then the value
\* of the other supply, or was never assigned.
CheckPsuOk ==
  /\ At("psu_ok") /\ Goto("psu_led")
  /\ \E failed \in BOOLEAN : sysfs_read_int(bound, psu_pwr_all_ok_show(psu), ok, ok', failed)
  /\ UNCHANGED <<board, led, speed, bound, store, ticks, unread, max_temp, psu, present, fan_ok, fan_present, clock, asked>>

\* Bug: an absent supply is not told from a failing one.
Bug_PsuColor(isPresent, isOk) == IF isOk = 1 THEN "green" ELSE "amber"

PsuColor(isPresent, isOk) ==
  CASE isPresent = 0 -> "off" [] isPresent = 1 /\ isOk = 1 -> "green" [] OTHER -> "amber"

SetPsuLed ==
  /\ At("psu_led") /\ NextPsu /\ present' = 0 \* dead
  /\ \E isOk \in IF ok = Garbage THEN {0, 1} ELSE {ok} : cpld_set_led(psu_led(psu), PsuColor(present, isOk))
  /\ UNCHANGED <<board, led, speed, bound, ticks, unread, max_temp, ok, fan_ok, fan_present, clock, quota>>

\* cpld_check_fans: what cannot be read is taken to be good.
CheckFanOk ==
  /\ At("fan") /\ Goto("fan_present")
  /\ \E failed \in BOOLEAN : sysfs_read_int(bound, system_fan_ok_show, 1, fan_ok', failed)
  /\ UNCHANGED <<board, led, speed, bound, store, ticks, unread, max_temp, psu, present, ok, fan_present, clock, asked>>

CheckFanPresent ==
  /\ At("fan_present") /\ Goto("fan_led")
  /\ \E failed \in BOOLEAN : sysfs_read_int(bound, system_fan_present_show, 1, fan_present', failed)
  /\ UNCHANGED <<board, led, speed, bound, store, ticks, unread, max_temp, psu, present, ok, fan_ok, clock, asked>>

SetFanLed ==
  /\ At("fan_led") /\ Goto("scan") /\ unread' = SfpPorts
  /\ fan_ok' = 1 /\ fan_present' = 1 /\ ok' = Garbage \* dead
  /\ cpld_set_led("fan", IF fan_present = 0 \/ fan_ok = 0 THEN "amber" ELSE "green")
  /\ UNCHANGED <<board, led, speed, bound, ticks, max_temp, psu, present, clock, quota>>

\* Seconds sfp_read_sysfs and sfp_read_i2c may take: one of their transfers
\* may time out, and the first failure ends the call.
sfp_read_sysfs == {[ok |-> TRUE, took |-> 0], [ok |-> FALSE, took |-> 0], [ok |-> FALSE, took |-> BusTimeout]}
sfp_read_i2c   == {0, BusTimeout}

\* sfp_scan_all, one port; what it finds is only printed.
ScanPort(port) ==
  /\ At("scan") /\ port \in unread /\ unread' = unread \ {port}
  /\ \E s \in sfp_read_sysfs, i \in sfp_read_i2c :
       Pass(s.took + (IF s.ok THEN 0 ELSE i))
  /\ UNCHANGED <<board, led, speed, bound, store, pc, ticks, max_temp, psu, present, ok, fan_ok, fan_present, asked, quota>>

ScanDone ==
  /\ At("scan") /\ unread = {} /\ Goto("sleep")
  /\ UNCHANGED <<board, led, speed, bound, store, ticks, polling, clock, asked, quota>>

\* ticks is kept modulo the two periods.
Sleep ==
  /\ At("sleep") /\ Goto("top")
  /\ ticks' = (ticks + 1) % (POLL_INTERVAL_S * WDT_KEEPALIVE_S)
  /\ Pass(1)
  /\ UNCHANGED <<board, led, speed, bound, store, polling, asked, quota>>

Daemon ==
  \/ FinishStore \/ Start \/ Top \/ thermal_manage_fans
  \/ \E s \in Sensors : thermal_read_max(s)
  \/ CheckPsuPresent \/ CheckPsuOk \/ SetPsuLed \/ CheckFanOk \/ CheckFanPresent \/ SetFanLed
  \/ \E port \in SfpPorts : ScanPort(port)
  \/ ScanDone \/ Sleep

-----------------------------------------------------------------------------
(* The operator and the board.                                             *)

OperatorLed ==
  /\ bound /\ store["operator"] = NoStore
  /\ Event
  /\ \E l \in OperatorLeds, c \in OperatorColors : led_store_read("operator", l, c)
  /\ UNCHANGED <<board, led, speed, bound, pc, ticks, polling, clock>>

OperatorPwm1 ==
  /\ bound
  /\ Event
  /\ \E v \in OperatorPwm : pwm1_store(v)
  /\ UNCHANGED <<board, led, bound, store, pc, ticks, polling, clock, asked>>

OperatorFinish ==
  /\ led_store_write("operator")
  /\ UNCHANGED <<board, speed, bound, pc, ticks, polling, clock, asked, quota>>

BoardChanges ==
  /\ Event
  /\ \/ \E s \in Sensors, t \in Temps : temp' = [temp EXCEPT ![s] = t] /\ UNCHANGED <<supply, fans>>
     \/ \E n \in Psus, c \in {"absent", "fault", "good"} :
          supply' = [supply EXCEPT ![n] = c] /\ UNCHANGED <<temp, fans>>
     \/ fans' \in SUBSET {"present", "fail"} /\ UNCHANGED <<temp, supply>>
  /\ UNCHANGED <<led, speed, bound, store, pc, ticks, polling, clock, asked>>

Init ==
  /\ temp \in [Sensors -> {Min({t \in Temps : t >= 0})}]
  /\ supply \in [Psus -> {"good"}] /\ fans = {"present"}
  /\ led = 0 /\ speed = 12 /\ bound \in BOOLEAN
  /\ store = [p \in Procs |-> NoStore]
  /\ pc = "start" /\ ticks = 0
  /\ unread = {} /\ max_temp = -1 /\ psu = 0 /\ present = 0 /\ ok = Garbage
  /\ fan_ok = 1 /\ fan_present = 1
  /\ gap = 0 /\ unfed = 0 /\ missed = 0 /\ asked = [l \in Leds |-> {"off"}]
  /\ quota = MaxEvents

Next == Daemon \/ Probe \/ Remove \/ OperatorLed \/ OperatorPwm1 \/ OperatorFinish \/ BoardChanges

\* The daemon's system calls return, and so do stores that have begun.
Spec == Init /\ [][Next]_vars /\ WF_vars(Daemon) /\ WF_vars(OperatorFinish)

-----------------------------------------------------------------------------

\* The registers keep their width, a store in progress belongs to an LED.
TypeOK ==
  /\ led \in 0 .. 255 /\ speed \in 0 .. 31 /\ pwm1_show \in 0 .. PWM_MAX
  /\ \A p \in Procs : store[p] = NoStore \/ (store[p].led \in Leds /\ store[p].val \in 0 .. 255)
  /\ max_temp \in Temps \cup {-1} /\ psu \in 0 .. 2 /\ ok \in {0, 1, Garbage}
  /\ {gap, unfed} \subseteq Nat /\ missed \in 0 .. MaxMissed /\ asked \in [Leds -> SUBSET Colors]

\* Whatever stores of the daemon and of the operator overlap in the unlocked
\* register of the four LEDs, each LED shows a colour that was stored for it,
\* never another's bits.
LedsApart == \A l \in Leds : LedField(led, l) < 3 /\ led_show(l) \in asked[l]

\* The longest the loop lets a keepalive wait: its period and the time of one
\* poll in which every bus transfer of the scan times out.
Longest == WDT_KEEPALIVE_S + 2 * BusTimeout * Cardinality(SfpPorts)

\* Register 0x06, the driver's best guess at a watchdog, is written again
\* within that time, and each keepalive that found no driver (main.c:128, the
\* failing store is not looked at) costs that much once more: nothing else in
\* the loop holds it up, and the first one after the driver is back counts.
WatchdogFed == missed < MaxMissed => unfed <= (missed + 1) * Longest

\* What the hottest sensor demands of the fans.
Demand == LET t == Max({temp[s] : s \in Sensors})
          IN CASE t < TEMP_LOW_MC -> PWM_LOW [] t >= TEMP_MED_MC -> PWM_MAX [] OTHER -> PWM_MED

\* Once the temperatures are steady (MaxEvents bounds their changes) the fans
\* turn, for good, at least as fast as the hottest sensor demands, whatever
\* reads failed or values an operator wrote to pwm1 before.
FansCool == []bound ~> [](bound /\ speed >= Demand \div 8)

\* The condition of supply n, and of the fans, as the LEDs are to show it.
PsuCondition(n) == CASE supply[n] = "absent" -> "off" [] supply[n] = "fault" -> "amber" [] OTHER -> "green"
FanCondition    == IF fans = {"present"} THEN "green" ELSE "amber"

\* Once the board is steady, the LEDs of the supplies and of the fans show its
\* condition for good: a colour lost to an overlapping store, or derived from a
\* value that could not be read, is repaired by a later poll.
LedsSettle == []bound ~> [](/\ \A n \in Psus : led_show(psu_led(n)) = PsuCondition(n)
                            /\ led_show("fan") = FanCondition)
=============================================================================
