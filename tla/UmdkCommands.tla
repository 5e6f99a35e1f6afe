--------------------------- MODULE UmdkCommands ---------------------------
(***************************************************************************)
(* LORA/lora-mqtt/modules/umdk-*.c, downlink: the text of an MQTT command  *)
(* becomes the hexadecimal text of a frame for the mote.                   *)
(*                                                                         *)
(* A command is what the parsers tell apart: the words op at its start,    *)
(* sp whether a space follows them, the numbers args in their order (what  *)
(* strtol does not find is 0), further words, and a hexadecimal argument.  *)
(* umdk_M_command(c) is the set of texts the call may leave in out: <<>>   *)
(* when it writes nothing, several when it prints an uninitialised         *)
(* variable, {Overrun} when it writes past its arrays.                     *)
(***************************************************************************)
EXTENDS HexText, SequencesExt, FiniteSetsExt, TLC

Overrun == <<-1>>
Silent  == {<<>>}

Is(c, op)    == c.op = op                \* strstr(param, "op") == param
IsArg(c, op) == c.op = op /\ c.sp        \* strstr(param, "op ") == param
Arg(c, i)    == IF i <= Len(c.args) THEN c.args[i] ELSE 0
Word(c, i)   == IF i <= Len(c.words) THEN c.words[i] ELSE ""

\* a | b of two bytes
BitOr(a, b)  == SumSet({2^i : i \in {k \in 0..7 : 1 \in {(a \div 2^k) % 2, (b \div 2^k) % 2}}})
-----------------------------------------------------------------------------
(* GPIO: the action in bits 5.. of one byte, the pin below it.  The pin of *)
(* SET and TOGGLE keeps six bits; TOGGLE shifts its action by six.         *)
umdk_gpio_command(c) ==
    LET pin   == U8(Arg(c, 1))
        value == U8(Arg(c, 2))
        set   == CASE value = 1 -> 2 * 32 [] value = 0 -> 1 * 32 [] OTHER -> 0
    IN CASE IsArg(c, "set")     -> {Hex(BitOr(set, pin % 64), 2)}
         [] IsArg(c, "get")     -> IF Word(c, 1) = "all" THEN {Hex(4 * 32, 2)}
                                   ELSE {Hex(pin % 32, 2)}
         [] IsArg(c, "toggle")  -> {Hex(BitOr(3 * 64, pin % 64), 2)}
         [] OTHER -> Silent

umdk_counter_command(c) ==
    CASE IsArg(c, "period") -> {Hex(0, 2) \o Hex(U8(Arg(c, 1)), 2)}
      [] Is(c, "reset")     -> {Hex(2, 2)}
      [] Is(c, "get")       -> {Hex(1, 2)}
      [] OTHER -> Silent

umdk_pulse_command(c) ==
    CASE IsArg(c, "period") -> {Hex(0, 2) \o Hex(U8(Arg(c, 1)), 2)}
      [] IsArg(c, "coeff")  -> {Hex(4, 2) \o Hex(U8(Arg(c, 1)), 2)}
      [] Is(c, "reset")     -> {Hex(2, 2)}
      [] Is(c, "get")       -> {Hex(1, 2)}
      [] Is(c, "tamper")    -> {Hex(5, 2)}
      [] IsArg(c, "values") -> {Hex(3, 2) \o Hex(U8(Arg(c, 1)), 2)
                                  \o Hex(Arg(c, 2), 8) \o Hex(Arg(c, 3), 8)}
      [] OTHER -> Silent

(* The part shared by the sensors that report by themselves or on request. *)
SensorCommand(c) ==
    CASE IsArg(c, "set_period") -> {Hex(0, 2) \o Hex(U8(Arg(c, 1)), 2)}
      [] Is(c, "get")           -> {Hex(1, 2)}
      [] OTHER -> Silent

I2cSensorCommand(c) ==
    IF IsArg(c, "set_i2c") THEN {Hex(2, 2) \o Hex(U8(Arg(c, 1)), 2)}
                           ELSE SensorCommand(c)

umdk_bme280_command(c)  == SensorCommand(c)
umdk_lmt01_command(c)   == SensorCommand(c)    \* set_gpios writes nothing
umdk_lps331_command(c)  == I2cSensorCommand(c)
umdk_sht21_command(c)   == I2cSensorCommand(c)
umdk_opt3001_command(c) == I2cSensorCommand(c)

(* ADC: set_lines reads numbers up to the first 0 and sets bit n-1 for     *)
(* each n of 1..7; there is an eighth line, which cannot be enabled.       *)
umdk_adc_command(c) ==
    LET ends  == {i \in 1..Len(c.args) : U8(c.args[i]) = 0}
        upto  == IF ends = {} THEN Len(c.args)
                 ELSE (CHOOSE i \in ends : \A j \in ends : i <= j) - 1
        lines == {U8(c.args[i]) : i \in 1..upto} \cap 1..7
        bits  == FoldSet(LAMBDA l, acc : acc + 2^(l - 1), 0, lines)
    IN CASE IsArg(c, "set_gpio")  -> {Hex(2, 2) \o Hex(U8(Arg(c, 1)), 2)}
         [] IsArg(c, "set_lines") -> {Hex(3, 2) \o Hex(bits, 2)}
         [] OTHER -> SensorCommand(c)

umdk_gps_command(c)      == IF Is(c, "get") THEN {Hex(0, 2)} ELSE Silent
umdk_rssiecho_command(c) == IF Is(c, "get") THEN {Hex(0, 2)} ELSE Silent

(* A plain "get" is no command: this parser wants a space behind it.       *)
umdk_mhz19_command(c) ==
    CASE IsArg(c, "set_period") -> {Hex(1, 2) \o Hex(U8(Arg(c, 1)), 2)}
      [] IsArg(c, "get")        -> {Hex(0, 2)}
      [] OTHER -> Silent

umdk_switch_command(c) ==
    CASE IsArg(c, "period") -> {Hex(0, 2) \o Hex(U8(Arg(c, 1)), 2)}
      [] IsArg(c, "reset")  -> {Hex(1, 2)}
      [] IsArg(c, "poll")   -> {Hex(2, 2)}
      [] OTHER -> Silent

(* UART: send wants an even number of digits, set at most as many          *)
(* characters as "115200-8N1"; their codes are the args.                   *)
umdk_uart_command(c) ==
    CASE IsArg(c, "send") ->
             IF hex_to_bytes(c.hex, TRUE) = Nothing THEN Silent
             ELSE {Hex(0, 2) \o c.hex}
      [] IsArg(c, "set_baudrate") ->
             IF U8(Arg(c, 1)) > 10 THEN Silent
             ELSE {Hex(1, 2) \o Hex(U8(Arg(c, 1)), 2)}
      [] IsArg(c, "set") ->
             IF Len(c.args) > 10 THEN Silent
             ELSE {Hex(2, 2) \o FlattenSeq([i \in 1..Len(c.args) |-> Hex(c.args[i], 2)])}
      [] OTHER -> Silent

(* PWM: freq, dev, channel, duty, and "on" or "off" in front of "ch".      *)
(* Without either the uninitialised mask is printed.                       *)
umdk_pwm_command(c) ==
    LET freq == Arg(c, 1) % 2^20
        dev  == U8(Arg(c, 2) - 1)
        ch   == U8(Arg(c, 3) - 1)
        mask == CASE Word(c, 1) = "on" -> {1}
                  [] Word(c, 1) = "off" -> {0}
                  [] OTHER -> 0..255
    IN IF IsArg(c, "set")
       THEN {Hex(freq * 256 + dev, 8) \o Hex(U8(16 * m + ch), 2)
                 \o Hex(U8(Arg(c, 4)), 2) : m \in mask}
       ELSE Silent

(* iButton: strtoll saturates at 2^63 - 1, so an id with the top bit set   *)
(* becomes 7fffffffffffffff.                                               *)
umdk_ibutton_command(c) ==
    LET zeros == [i \in 1..(16 - Len(c.hex)) |-> 0]
        id    == IF Len(c.hex) = 16 /\ c.hex[1] > 7
                 THEN <<7>> \o [i \in 1..15 |-> 15] ELSE zeros \o c.hex
    IN CASE Is(c, "reset")     -> {Hex(0, 2)}
         [] IsArg(c, "add")    -> {Hex(1, 2) \o id \o Hex(U16(Arg(c, 1)), 4)}
         [] IsArg(c, "remove") -> {Hex(2, 2) \o id}
         [] OTHER -> Silent
-----------------------------------------------------------------------------
M200Narrow(cmd, destination) == Hex(cmd, 2) \o Hex(destination, 2)   \* Mutant: "%02x"

(* Mercury 200 meter: command byte, then the 32-bit address of the meter.  *)
M200(cmd, destination) == Hex(cmd, 2) \o Hex(destination, 8)

(* Requests that carry at most one more number.  set number tariffs has    *)
(* the number in front of the address; remove prints the address with as   *)
(* few digits as it needs.                                                 *)
M200Simple(c) ==
    CASE IsArg(c, "set address")        -> {M200(2, Arg(c, 2)) \o Hex(Arg(c, 1), 8)}
      [] IsArg(c, "get serial")         -> {M200(1, Arg(c, 1))}
      [] IsArg(c, "get number tariffs") -> {M200(16, Arg(c, 1))}
      [] IsArg(c, "set number tariffs") -> {M200(17, Arg(c, 2)) \o Hex(U8(Arg(c, 1)), 2)}
      [] IsArg(c, "get timedate")       -> {M200(7, Arg(c, 1))}
      [] IsArg(c, "add")                -> {M200(254, Arg(c, 1))}
      [] IsArg(c, "remove")             -> {Hex(253, 2) \o Hex(Arg(c, 1), 2)}
      [] Is(c, "reset")                 -> {Hex(255, 2)}
      [] Is(c, "get list")              -> {Hex(252, 2)}
      [] IsArg(c, "iface") ->
            {Hex(251, 2) \o Hex(i, 2) : i \in CASE Word(c, 1) = "can" -> {2}
                                                [] Word(c, 1) = "485" -> {1}
                                                [] OTHER -> 0..255}
      [] OTHER -> Silent

(* get value: the total, the current month (15) or month m (m - 1).        *)
M200Value(c) ==
    CASE Word(c, 1) = "total"   -> {M200(10, Arg(c, 1))}
      [] Word(c, 1) = "current" -> {M200(15, Arg(c, 1)) \o Hex(15, 2)}
      [] Word(c, 1) = "month"   ->
            LET month == U8(Arg(c, 1) - 1)
            IN IF month = 255 THEN {M200(10, Arg(c, 2))}
               ELSE {M200(15, Arg(c, 2)) \o Hex(month, 2)}
      [] OTHER -> {M200(15, 0) \o Hex(0, 2)}

(* set timedate: seven numbers, printed in decimal, then the address.      *)
M200Timedate(c) ==
    {M200(22, Arg(c, 8)) \o FlattenSeq([i \in 1..7 |-> Dec(U8(Arg(c, i)), 2)])}

(* set holidays: a number, that many pairs of day and month, the address;  *)
(* a table of 16, in decimal where it was filled in.                       *)
M200Holidays(c) ==
    LET number   == U8(Arg(c, 1))
        Day(i)   == U8(Arg(c, 2 * i))
        Month(i) == U8(Arg(c, 2 * i + 1))
        Entry(i) == IF i > number THEN Hex(255, 2) \o Hex(255, 2)
                    ELSE IF Day(i) # 255 THEN Dec(Day(i), 2) \o Dec(Month(i), 2)
                    ELSE Hex(255, 2) \o Hex(Month(i), 2)
    IN IF number > 16 THEN {Overrun}
       ELSE {M200(241, Arg(c, 2 * number + 2)) \o FlattenSeq([i \in 1..16 |-> Entry(i)])}

(* The byte that names month (15: all) and day (12..15: groups of days).   *)
M200Date(month, day) == U8(16 * month + day)

(* get schedule m d address, and set schedule: when it applies, the number *)
(* of points, each with tariff, hour and minute, the address; a table of 8 *)
(* in BCD, the tariff in the top two bits of the hour.                     *)
M200Schedule(c) ==
    LET byMonth == Word(c, 1) = "month"
        byDay   == Word(c, 2) = "day"
        month   == IF byMonth THEN U8(Arg(c, 1) - 1) ELSE 15
        skip    == IF byMonth THEN 1 ELSE 0
        day     == CASE byDay -> U8(Arg(c, skip + 1))
                     [] Word(c, 2) = "all"      -> 15
                     [] Word(c, 2) = "weekdays" -> 14
                     [] Word(c, 2) = "weekends" -> 13
                     [] Word(c, 2) = "holidays" -> 12
        at      == skip + (IF byDay THEN 1 ELSE 0) + 1
        points  == U8(Arg(c, at))
        Bcd(n)  == 16 * (n \div 10) + (n % 10)
        Hour(i) == U8(64 * U8(Arg(c, at + 3 * i - 2) - 1) + Bcd(U8(Arg(c, at + 3 * i - 1))))
        Minute(i) == U8(Bcd(U8(Arg(c, at + 3 * i))))
        Entry(i) == IF i > points THEN Hex(255, 2) \o Hex(255, 2)
                    ELSE Hex(Hour(i), 2) \o Hex(Minute(i), 2)
    IN IF points > 8 THEN {Overrun}
       ELSE {M200(20, Arg(c, at + 3 * points + 1))
               \o FlattenSeq([i \in 1..8 |-> Entry(i)]) \o Hex(M200Date(month, day), 2)}

umdk_m200_command(c) ==
    CASE IsArg(c, "get value")    -> M200Value(c)
      [] IsArg(c, "get schedule") -> {M200(14, Arg(c, 3)) \o
                                        Hex(M200Date(U8(Arg(c, 1) - 1), U8(Arg(c, 2))), 2)}
      [] IsArg(c, "set timedate") -> M200Timedate(c)
      [] IsArg(c, "set holidays") -> M200Holidays(c)
      [] IsArg(c, "set schedule") -> M200Schedule(c)
      [] OTHER -> M200Simple(c)

(* Mercury 230 meter.  get serial sends the request for time and date.     *)
umdk_m230_command(c) ==
    LET month == CASE Word(c, 1) = "total"        -> 0
                   [] Word(c, 1) = "current_year" -> 16
                   [] Word(c, 1) = "last_year"    -> 32
                   [] Word(c, 1) = "month"        -> BitOr(48, U8(Arg(c, 1)))
                   [] Word(c, 1) = "current_day"  -> 64
                   [] Word(c, 1) = "last_day"     -> 80
        skip  == IF Word(c, 1) = "month" THEN 1 ELSE 0
        Timedate(d) == Hex(4, 2) \o Hex(U8(d), 8) \o Hex(0, 2)
    IN CASE IsArg(c, "get value") ->
               {Hex(3, 2) \o Hex(U8(Arg(c, skip + 2)), 2) \o Hex(month, 2)
                    \o Hex(U8(Arg(c, skip + 1)), 2)}
         [] IsArg(c, "get timedate") -> {Timedate(Arg(c, 1))}
         [] IsArg(c, "get serial")   -> {Timedate(Arg(c, 1))}
         [] OTHER -> Silent
-----------------------------------------------------------------------------
(* unwds_modules_list: ids by name.                                        *)
ModuleId ==
    LET ids == [gpio |-> 1, gps |-> 3, lsm6ds3 |-> 4, lm75 |-> 5, lmt01 |-> 6,
                uart |-> 7, sht21 |-> 8, pir |-> 9, adc |-> 10, lps331 |-> 11,
                counter |-> 12, echo |-> 13, pwm |-> 14, opt3001 |-> 15,
                dali |-> 16, bme280 |-> 17, mhz19 |-> 18, m200 |-> 50,
                pulse |-> 51, ibutton |-> 52, switch |-> 53, m230 |-> 54,
                config |-> 126]
    IN [name \in {"4btn"} \cup DOMAIN ids |-> IF name = "4btn" THEN 2 ELSE ids[name]]

unwds_modid_by_name(name) == IF name \in DOMAIN ModuleId THEN ModuleId[name] ELSE -1

(* config: mod takes a module by name or number and a state by word or     *)
(* number (a number leaves "" in words); an unknown name prints as -1.     *)
umdk_config_command(c) ==
    LET id    == IF Word(c, 1) = "" THEN Arg(c, 1) ELSE unwds_modid_by_name(Word(c, 1))
        onoff == IF Word(c, 2) = "" THEN Arg(c, 2)
                 ELSE IF Word(c, 2) = "enable" THEN 1 ELSE 0
    IN CASE IsArg(c, "mod")   -> {Hex(0, 2) \o Hex(id, 2) \o Hex(onoff, 2)}
         [] Is(c, "reboot")   -> {Hex(1, 2)}
         [] IsArg(c, "class") -> {Hex(2, 2) \o Hex(Arg(c, 1), 2)}
         [] OTHER -> Silent

HasCommand == DOMAIN ModuleId \ {"4btn", "lsm6ds3", "lm75", "pir", "dali"}

ModuleCommand(type, c) ==
    CASE type = "gpio"    -> umdk_gpio_command(c)
      [] type = "counter" -> umdk_counter_command(c)
      [] type = "gps"     -> umdk_gps_command(c)
      [] type = "lmt01"   -> umdk_lmt01_command(c)
      [] type = "uart"    -> umdk_uart_command(c)
      [] type = "sht21"   -> umdk_sht21_command(c)
      [] type = "adc"     -> umdk_adc_command(c)
      [] type = "lps331"  -> umdk_lps331_command(c)
      [] type = "echo"    -> umdk_rssiecho_command(c)
      [] type = "pwm"     -> umdk_pwm_command(c)
      [] type = "opt3001" -> umdk_opt3001_command(c)
      [] type = "bme280"  -> umdk_bme280_command(c)
      [] type = "m200"    -> umdk_m200_command(c)
      [] type = "config"  -> umdk_config_command(c)
      [] type = "pulse"   -> umdk_pulse_command(c)
      [] type = "mhz19"   -> umdk_mhz19_command(c)
      [] type = "ibutton" -> umdk_ibutton_command(c)
      [] type = "switch"  -> umdk_switch_command(c)
      [] type = "m230"    -> umdk_m230_command(c)

(* convert_from: the id of the module, then what its parser writes behind  *)
(* it; {} when no module of that name takes commands.                      *)
convert_from(type, c) ==
    IF type \notin HasCommand THEN {}
    ELSE {Hex(ModuleId[type], 2) \o out : out \in ModuleCommand(type, c)}
=============================================================================
