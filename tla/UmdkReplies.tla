---------------------------- MODULE UmdkReplies ----------------------------
(***************************************************************************)
(* LORA/lora-mqtt/modules/umdk-*.c, uplink: the bytes of a mote's reply    *)
(* become name/value pairs, and unwds-mqtt.c prints the pairs as JSON.     *)
(*                                                                         *)
(* umdk_M_reply(d) is the sequence of pairs added for the bytes d, or      *)
(* Refused when the function returns false.  Bytes behind the reply read   *)
(* as zero, because serve_reply zeroes its buffer (At in HexText).         *)
(***************************************************************************)
EXTENDS UmdkCommands

Refused == <<<<>>>>
Msg(s) == <<<<"msg", Text(s)>>>>
OkOrError(d) == Msg(IF d[1] = 0 THEN "ok" ELSE "error")

(* What a read past the end of a table of names yields.                    *)
Outside == Text("outside the table")
DayName(i) == IF i < 8 THEN Text(<<"Sun", "Mon", "Tue", "Wed", "Thu", "Fri", "Sat", "Hol">>[i + 1])
                       ELSE Outside

umdk_4btn_reply(d) ==
    IF Len(d) # 2 THEN Refused
    ELSE <<<<"btn", Plain(d[1])>>,
           <<"state", Text(IF d[2] # 0 THEN "released" ELSE "pressed")>>>>

umdk_pir_reply(d) == IF Len(d) # 1 THEN Refused ELSE <<<<"pir", Plain(d[1])>>>>

(* Eight channels, 0xFFFF for a channel that is off.                       *)
umdk_adc_reply(d) ==
    IF Len(d) = 1 THEN OkOrError(d)
    ELSE [i \in 1..8 |->
             LET sensor == Le16(d, 2 * (i - 1))
             IN <<<<"adc", i>>, IF sensor = 65535 THEN Text("null") ELSE Plain(sensor)>>]

umdk_bme280_reply(d) ==
    IF Len(d) = 1 THEN OkOrError(d)
    ELSE <<<<"temperature", int_to_float_str(S16(Le16(d, 0)), 1)>>,
           <<"humidity", int_to_float_str(S16(Le16(d, 2)), 1)>>,
           <<"pressure", Plain(Le16(d, 4))>>>>

umdk_lps331_reply(d) ==
    IF Len(d) = 1 THEN OkOrError(d)
    ELSE <<<<"temperature", int_to_float_str(S16(Le16(d, 0)), 1)>>,
           <<"pressure", Plain(Le16(d, 2))>>>>

umdk_sht21_reply(d) ==
    IF Len(d) = 1 THEN OkOrError(d)
    ELSE <<<<"temp", int_to_float_str(S16(Le16(d, 0)), 1)>>,
           <<"humid", int_to_float_str(S16(Le16(d, 2)), 1)>>>>

umdk_opt3001_reply(d) ==
    IF Len(d) = 1 THEN OkOrError(d) ELSE <<<<"luminocity", Plain(Le16(d, 0))>>>>

(* Four sensors, 0x7FFF for one that is missing.                           *)
umdk_lmt01_reply(d) ==
    IF Len(d) = 1 THEN OkOrError(d)
    ELSE [i \in 1..4 |->
             LET sensor == S16(Le16(d, 2 * (i - 1)))
             IN <<<<"s", i>>, IF sensor = 32767 THEN Text("null")
                              ELSE int_to_float_str(sensor, 1)>>]

(* CO2 is printed into room for four characters.                           *)
umdk_mhz19_reply(d) ==
    LET Type(s) == <<<<"type", Plain(d[1])>>>> \o Msg(s)
    IN IF Len(d) = 1
       THEN CASE d[1] = 0   -> Type("ok")
              [] d[1] = 253 -> Type("overflow error")
              [] d[1] = 254 -> Type("format error")
              [] d[1] = 255 -> Type("error")
              [] OTHER -> <<>>
       ELSE <<<<"co2", Cut(Plain(S16(Le16(d, 0))), 4)>>,
              <<"temp", int_to_float_str(S16(Le16(d, 2)), 1)>>,
              <<"valid", Plain(At(d, 4))>>>>

(* The only reply whose bytes are most significant first.                  *)
umdk_rssiecho_reply(d) ==
    IF Len(d) < 2 THEN Refused
    ELSE <<<<"rssi", Plain(S16(d[2] + 256 * d[1]))>>>>

(* Four 24-bit counters packed into three little-endian 32-bit words.      *)
umdk_counter_reply(d) ==
    LET Word24(hi, lo) == 65536 * hi + lo
        values == <<Le24(d, 1),                              \* num[0] >> 8
                    Word24(At(d, 0), Le16(d, 6)),            \* num[0] & FF, num[1] >> 16
                    256 * Le16(d, 4) + At(d, 11),            \* num[1] & FFFF, num[2] >> 24
                    Le24(d, 8)>>                             \* num[2] & FFFFFF
    IN IF Len(d) = 1
       THEN CASE d[1] = 0 -> Msg("ok")
              [] d[1] = 1 -> Msg("invalid command")
              [] d[1] = 2 -> Msg("invalid parameter")
              [] OTHER -> <<>>
       ELSE [i \in 1..4 |-> <<<<"v", i - 1>>, Plain(values[i])>>]

(* Bits 5 and 6 of the first byte are the signs of latitude and longitude. *)
umdk_gps_reply(d) ==
    LET Bit(k)  == (At(d, 0) \div 2^k) % 2 = 1
        lat     == IF Bit(5) THEN -Le16(d, 1) ELSE Le16(d, 1)
        lon     == IF Bit(6) THEN -Le16(d, 4) ELSE Le16(d, 4)
        Degrees(n, w, frac) == [Padded(n, w) EXCEPT !.frac = Dec(frac, 1)]
    IN CASE Len(d) < 1 -> Refused
         [] Len(d) >= 1 /\ d[1] % 4 = 0 ->
               IF Len(d) # 7 THEN Refused
               ELSE <<<<"valid", Text("true")>>, <<"lat", Degrees(lat, 3, d[4])>>,
                      <<"lon", Degrees(lon, 4, d[7])>>>>
         [] Len(d) >= 1 /\ d[1] % 4 = 1 ->
               <<<<"valid", Text("false")>>, <<"lat", Text("null")>>, <<"lon", Text("null")>>>>
         [] Len(d) >= 1 /\ d[1] % 4 = 3 -> <<<<"valid", Text("false")>>>> \o Msg("error")
         [] OTHER -> Refused

(* A status byte per two pins, low nibble first; every element of the list *)
(* is followed by a comma.                                                 *)
umdk_gpio_reply(d) ==
    CASE At(d, 0) = 6 ->
           <<<<"gpios", Array([i \in 1..(2 * (Len(d) - 1)) |->
                 (At(d, 1 + (i - 1) \div 2) \div 16^((i - 1) % 2)) % 8], Len(d) > 1)>>>>
      [] At(d, 0) = 0 -> <<<<"value", Plain(0)>>>>
      [] At(d, 0) = 1 -> <<<<"value", Plain(1)>>>>
      [] At(d, 0) = 2 -> Msg("set ok")
      [] At(d, 0) = 3 -> Msg("invalid pin")
      [] At(d, 0) = 4 -> Msg("invalid format")
      [] At(d, 0) = 5 -> <<<<"value", Plain(3)>>>>
      [] OTHER -> <<>>

umdk_switch_reply(d) ==
    CASE At(d, 0) = 3 -> <<<<<<"switch", At(d, 1) % 128>>, Plain(At(d, 1) \div 128)>>>>
      [] At(d, 0) = 4 ->
           <<<<"status", Array([i \in 1..4 |-> (At(d, 1) \div 2^(i - 1)) % 2], FALSE)>>>>
      [] At(d, 0) = 0 -> Msg("set ok")
      [] At(d, 0) = 1 -> Msg("invalid command")
      [] At(d, 0) = 2 -> Msg("invalid parameter")
      [] OTHER -> <<>>

umdk_pwm_reply(d) ==
    IF Len(d) = 1 /\ d[1] \in {0, 1}
    THEN <<<<"Msg", Text(IF d[1] = 0 THEN "Ok" ELSE "Error")>>>> ELSE <<>>

umdk_config_reply(d) ==
    CASE At(d, 0) = 0   -> Msg("ok")
      [] At(d, 0) = 253 -> Msg("error")
      [] OTHER -> <<>>

umdk_uart_reply(d) ==
    LET Type(n, s) == <<<<"type", Plain(n)>>>> \o Msg(s)
        hexbuf == FlattenSeq([i \in 1..(Len(d) - 1) |-> Hex(d[i + 1], 2)])
    IN CASE At(d, 0) = 0 -> Type(0, "sent ok")
         [] At(d, 0) = 1 -> <<<<"type", Plain(1)>>, <<"msg", Digits(hexbuf)>>>>
         [] At(d, 0) = 2 -> Type(2, "baud rate set")
         [] At(d, 0) = 253 -> Type(253, "rx buffer overrun")
         [] At(d, 0) = 254 -> Type(254, "invalid format")
         [] At(d, 0) = 255 -> Type(255, "UART interface error")
         [] OTHER -> Refused

(* The id is the eight bytes behind the code as one little-endian number.  *)
umdk_ibutton_reply(d) ==
    LET id == Digits(FlattenSeq([i \in 1..8 |-> Hex(At(d, 9 - i), 2)]))
    IN IF Len(d) = 1 THEN Msg(IF d[1] = 1 THEN "OK" ELSE "ERROR")
       ELSE CASE At(d, 0) = 17 -> <<<<"GRANTED", id>>>>
              [] At(d, 0) = 31 -> <<<<"DENIED", id>>>>
              [] At(d, 0) = 32 -> <<<<"Removed by timer", id>>>>
              [] OTHER -> <<>>
-----------------------------------------------------------------------------
(* Pulse counter: tamper bit, number of hours, number of channels; the     *)
(* present values, then for each channel the hourly increments.  Both      *)
(* bytes of an increment are taken from its low byte.                      *)
Increment(d, at) == At(d, at) + 256 * At(d, at)

PulseHistory(d, channels, hours, i) ==
    LET delta(k) == Increment(d, 2 + 3 * channels + 2 * i * (hours - 1) + 2 * (k - 1))
        history[k \in 0..(hours - 1)] ==
            IF k = 0 THEN Le24(d, 2 + 3 * i) ELSE history[k - 1] - delta(k)
    IN [k \in 1..hours |-> history[k - 1]]

umdk_pulse_reply(d) ==
    LET hours    == (At(d, 1) \div 4) % 32
        channels == (At(d, 1) % 4) + 1
    IN CASE At(d, 0) = 0 -> Msg("ok")
         [] At(d, 0) = 1 -> Msg("invalid command")
         [] At(d, 0) = 2 -> Msg("invalid parameter")
         [] At(d, 0) = 4 -> Msg("leak")
         [] At(d, 0) = 5 -> Msg("tamper")
         [] At(d, 0) = 3 ->
              [i \in 1..channels |->
                  <<<<"P", i>>, Array(PulseHistory(d, channels, hours, i - 1), FALSE)>>]
              \o <<<<"tamper", Text(IF At(d, 1) >= 128 THEN "broken" ELSE "ok")>>>>
         [] OTHER -> <<>>

(* "%u" of 32 bits.                                                        *)
Unsigned(u) == IF u[1] < 32768 THEN Plain(S32(u)) ELSE [t |-> "unsigned", u |-> u]
AllOnes == <<65535, 65535>>

(* Two digits each, with a character between them.                         *)
Fields(sep, fs) == [t |-> "fields", sep |-> sep, f |-> fs]

ReplyCode(d) ==
    CASE d[1] = 1 -> <<<<"Msg", Text("Ok")>>>>
      [] d[1] = 0 -> <<<<"Msg", Text("Error")>>>>
      [] d[1] = 2 /\ Len(d) > 1 -> <<<<"Msg", Text("No response")>>>>
      [] OTHER -> <<>>

(* Mercury 200: the database's addresses that are in use, numbered anew.   *)
M200List(d) ==
    LET used == SelectSeq([i \in 1..((Len(d) - 1) \div 4) |-> Le32(d, 4 * i - 3)],
                          LAMBDA u : u # AllOnes)
    IN IF used = <<>> THEN <<<<"Msg", Text("Empty")>>>>
       ELSE [i \in 1..Len(used) |-> <<<<"Address", i>>, Unsigned(used[i])>>]

(* Energy by tariff and in total, hundredths printed as a fixed point.     *)
M200Energy(d) ==
    [i \in 1..5 |-> <<IF i = 5 THEN "Total" ELSE <<"T", i>>,
                      int_to_float_str(S32(Le32(d, 4 * i + 1)), 2)>>]

umdk_m200_reply(d) ==
    LET address == <<<<"Address", Unsigned(Le32(d, 1))>>>>
        cmd     == At(d, 0)
        body    == CASE cmd = 1  -> <<<<"Serial number", Unsigned(Le32(d, 5))>>>>
                     [] cmd = 16 -> <<<<"Number of tariffs", Plain(At(d, 5))>>>>
                     [] cmd \in {10, 15} -> M200Energy(d)
                     [] cmd = 14 ->
                          [i \in 1..((Len(d) - 5) \div 3) |->
                              <<<<"T", At(d, 3 * i + 2) + 1>>,
                                Fields(":", <<At(d, 3 * i + 3), At(d, 3 * i + 4)>>)>>]
                     [] cmd = 7  ->
                          <<<<"Day", DayName(At(d, 5))>>,
                            <<"Time", Fields(":", <<At(d, 6), At(d, 7), At(d, 8)>>)>>,
                            <<"Date", Fields("/", <<At(d, 9), At(d, 10), At(d, 11)>>)>>>>
                     [] OTHER -> <<>>
    IN CASE Len(d) = 1 -> ReplyCode(d)
         [] Len(d) # 1 /\ cmd < 240 /\ Len(d) = 5 -> address \o ReplyCode(d)
         [] Len(d) # 1 /\ cmd < 240 /\ Len(d) # 5 -> address \o body
         [] Len(d) # 1 /\ cmd = 252 -> M200List(d)
         [] OTHER -> <<>>

(* Mercury 230.  The day of the week selects a season, and the season a    *)
(* day: the two tables are exchanged.                                      *)
umdk_m230_reply(d) ==
    LET cmd     == At(d, 0)
        address == <<<<"Address", Plain(At(d, 1))>>>>
        Value(i) == Le32(d, 4 * i + 2)
        Energy(name, i) == <<name, int_to_float_str(S32(Value(i)), 3)>>
        Optional(name, i) == IF Value(i) = AllOnes THEN <<name, Text("Not support")>>
                             ELSE Energy(name, i)
        Season(i) == IF i < 2 THEN Text(<<"Summer", "Winter">>[i + 1]) ELSE Outside
        body    == CASE cmd = 3 -> <<Energy("A+", 0), Optional("A-", 1),
                                     Energy("R+", 2), Optional("R-", 3)>>
                     [] cmd = 4 ->
                          <<<<"Day", Season(At(d, 5))>>,
                            <<"Time", Fields(":", <<At(d, 4), At(d, 3), At(d, 2)>>)>>,
                            <<"Date", Fields("/", <<At(d, 6), At(d, 7), At(d, 8)>>)>>,
                            <<"Season", DayName(At(d, 9))>>>>
                     [] cmd = 5 ->
                          <<<<"Serial number",
                              Fields("", <<At(d, 2), At(d, 3), At(d, 4), At(d, 5)>>)>>,
                            <<"Release date", Fields("/", <<At(d, 6), At(d, 7), At(d, 8)>>)>>>>
                     [] OTHER -> <<>>
    IN CASE cmd < 240 /\ Len(d) = 2 -> address \o ReplyCode(d)
         [] cmd < 240 /\ Len(d) # 2 -> address \o body
         [] OTHER -> <<>>
-----------------------------------------------------------------------------
NoReply == {"lsm6ds3", "lm75", "dali"}

ModuleReply(type, d) ==
    CASE type = "gpio"    -> umdk_gpio_reply(d)
      [] type = "4btn"    -> umdk_4btn_reply(d)
      [] type = "counter" -> umdk_counter_reply(d)
      [] type = "gps"     -> umdk_gps_reply(d)
      [] type = "lmt01"   -> umdk_lmt01_reply(d)
      [] type = "uart"    -> umdk_uart_reply(d)
      [] type = "sht21"   -> umdk_sht21_reply(d)
      [] type = "pir"     -> umdk_pir_reply(d)
      [] type = "adc"     -> umdk_adc_reply(d)
      [] type = "lps331"  -> umdk_lps331_reply(d)
      [] type = "echo"    -> umdk_rssiecho_reply(d)
      [] type = "pwm"     -> umdk_pwm_reply(d)
      [] type = "opt3001" -> umdk_opt3001_reply(d)
      [] type = "bme280"  -> umdk_bme280_reply(d)
      [] type = "m200"    -> umdk_m200_reply(d)
      [] type = "config"  -> umdk_config_reply(d)
      [] type = "pulse"   -> umdk_pulse_reply(d)
      [] type = "mhz19"   -> umdk_mhz19_reply(d)
      [] type = "ibutton" -> umdk_ibutton_reply(d)
      [] type = "switch"  -> umdk_switch_reply(d)
      [] type = "m230"    -> umdk_m230_reply(d)

(* convert_to: the module with this id decodes its reply.                  *)
convert_to(modid, d) ==
    LET named == {n \in DOMAIN ModuleId \ NoReply : ModuleId[n] = modid}
    IN IF named = {} THEN [topic |-> "", pairs |-> Refused]
       ELSE LET n == CHOOSE x \in named : TRUE
            IN [topic |-> n, pairs |-> ModuleReply(n, d)]

(* add_value_pair: there are 50 places, and no complaint when all are used.*)
MQTT_MSG_MAX_NUM == 50
Added(pairs) == SubSeq(pairs, 1, IF Len(pairs) < MQTT_MSG_MAX_NUM THEN Len(pairs)
                                 ELSE MQTT_MSG_MAX_NUM)
-----------------------------------------------------------------------------
(* Digits that strtof reads to the end: decimal, or with an exponent.      *)
Floating(h) ==
    \/ \A i \in DOMAIN h : h[i] < 10
    \/ \E e \in 2..(Len(h) - 1) :
          h[e] = 14 /\ \A i \in DOMAIN h \ {e} : h[i] < 10

LeadingZero(digits) == Len(digits) > 1 /\ digits[1] = 0

(* build_mqtt_message: which values get quotes.  Numbers do not, unless    *)
(* they begin with 0 and another digit; an empty value counts as a number. *)
needs_quotes(v) ==
    CASE v.t = "number"   -> ~v.neg /\ LeadingZero(v.int)
      [] v.t = "unsigned" -> FALSE
      [] v.t = "digits"   -> ~Floating(v.h) \/ LeadingZero(v.h)
      [] v.t = "array"    -> FALSE
      [] v.t = "fields"   -> v.sep # "" \/ v.f[1] < 10
      [] OTHER -> TRUE

(* build_mqtt_message: the members of "data", and whether its brace is     *)
(* closed: the loop closes it at the first empty place.                    *)
build_mqtt_message(pairs) ==
    [data   |-> [i \in 1..Len(pairs) |->
                    [name |-> pairs[i][1], value |-> pairs[i][2],
                     quoted |-> needs_quotes(pairs[i][2])]],
     closed |-> Len(pairs) < MQTT_MSG_MAX_NUM]
=============================================================================
