--------------------------- MODULE MCMqttDispatch ---------------------------
(* Instances of MqttDispatch for TLC: commands and readings at the edges   *)
(* of their fields, the readings with the encoding motes use.              *)
EXTENDS MqttDispatch

Command(type, op, args, words, hex) ==
    [type |-> type,
     c |-> [op |-> op, sp |-> TRUE, args |-> args, words |-> words, hex |-> hex]]

Bare(type, op) == [Command(type, op, <<>>, <<>>, <<>>) EXCEPT !.c.sp = FALSE]
With(type, op, args) == Command(type, op, args, <<>>, <<>>)

SensorCommands ==
    {Bare(t, "get") : t \in {"bme280", "lmt01", "lps331", "sht21", "opt3001", "adc", "gps", "echo"}}
    \cup {With(t, "set_period", <<0>>) : t \in {"bme280", "lmt01", "mhz19"}}
    \cup {With(t, "set_period", <<255>>) : t \in {"adc", "opt3001"}}
    \cup {With(t, "set_i2c", <<1>>) : t \in {"lps331", "sht21", "opt3001"}}
    \cup {With("adc", "set_gpio", <<3>>), With("adc", "set_lines", <<1, 7, 8>>),
          With("adc", "set_lines", <<>>), With("mhz19", "get", <<>>)}

SwitchCommands ==
    {With("gpio", "set", <<p, v>>) : p \in {0, 31, 33}, v \in {0, 1, 2}}
    \cup {With("gpio", "get", <<p>>) : p \in {0, 31}}
    \cup {Command("gpio", "get", <<>>, <<"all">>, <<>>), With("gpio", "toggle", <<5>>)}
    \cup {With("switch", op, <<7>>) : op \in {"period", "reset", "poll"}}
    \cup {Command("pwm", "set", <<2^20 - 1, 1, 2, 50>>, <<w>>, <<>>) : w \in {"on", "off"}}
    \cup {With("uart", "set_baudrate", <<b>>) : b \in {3, 11}}
    \cup {With("uart", "set", <<57, 54, 48>>)}
    \cup {Command("uart", "send", <<>>, <<>>, h) : h \in {<<1, 10>>, <<1, 10, 15>>}}

IdLow  == [i \in 1..16 |-> i - 1]
IdHigh == [i \in 1..16 |-> 15]

MeterCommands ==
    {Bare(t, "reset") : t \in {"counter", "pulse", "ibutton", "m200"}}
    \cup {With(t, "period", <<12>>) : t \in {"counter", "pulse"}}
    \cup {With("pulse", "coeff", <<4>>), With("pulse", "values", <<1, 70000, 3>>),
          Bare("pulse", "tamper")}
    \cup {Command("ibutton", "add", <<300>>, <<>>, h) : h \in {IdLow, IdHigh}}
    \cup {Command("ibutton", "remove", <<>>, <<>>, IdLow)}
    \cup {With("m200", op, <<70000>>) : op \in {"get serial", "get timedate", "add", "remove"}}
    \cup {With("m200", op, <<4, 70000>>) : op \in {"set address", "set number tariffs"}}
    \cup {Command("m200", "get value", <<1, 70000>>, <<"month">>, <<>>),
          Command("m200", "get value", <<70000>>, <<"total">>, <<>>),
          With("m200", "get schedule", <<12, 15, 70000>>),
          With("m200", "set timedate", <<1, 2, 3, 4, 5, 6, 99, 70000>>),
          With("m200", "set holidays", <<1, 31, 12, 70000>>),
          Command("m200", "set schedule", <<2, 1, 7, 0, 4, 23, 59, 70000>>,
                  <<"all", "weekends">>, <<>>),
          Command("m200", "set schedule", <<1, 3, 1, 1, 7, 0, 70000>>,
                  <<"month", "day">>, <<>>),
          Command("m200", "iface", <<>>, <<"can">>, <<>>)}
    \cup {With("m230", op, <<9>>) : op \in {"get timedate", "get serial"}}
    \cup {Command("m230", "get value", <<12, 1, 9>>, <<"month">>, <<>>),
          Command("m230", "get value", <<1, 9>>, <<"total">>, <<>>)}

OtherCommands ==
    {Command("config", "mod", <<0, 1>>, <<"gps", "">>, <<>>),
     Command("config", "mod", <<3, 0>>, <<"", "disable">>, <<>>),
     Command("config", "mod", <<>>, <<"gsp", "enable">>, <<>>),
     With("config", "class", <<2>>), Bare("config", "reboot"),
     Bare("gps", "unknown"), Bare("pir", "get"), Bare("nosuch", "get")}

Route(third, path, qos) == [third |-> third, path |-> path, qos |-> qos]
By(route, cmd) == [type |-> cmd.type, c |-> cmd.c, route |-> route]

(* Every command by one route to a node, one command by every route.       *)
Everything == SensorCommands \cup SwitchCommands \cup MeterCommands \cup OtherCommands
MCCommands ==
    {By(Route("addr", <<"mosi">>, 0), cmd) : cmd \in Everything}
    \cup {By(r, cmd) : cmd \in {With("gpio", "toggle", <<5>>)},
                       r \in {Route("addr", <<>>, 0), Route("*", <<"mosi">>, 0),
                              Route("*", <<>>, 0), Route("addr", <<>>, 2),
                              Route("addr", <<"mosi", "">>, 0)}}
NoCommands   == {}
Acknowledged == {By(Route("addr", <<>>, 1), Bare("gps", "get"))}
-----------------------------------------------------------------------------
(* External: how motes encode what they measure.                           *)
Little(n, bytes) == [i \in 1..bytes |-> (n \div 256^(i - 1)) % 256]
Packed(ns, bytes) == FlattenSeq([i \in DOMAIN ns |-> Little(ns[i], bytes)])

Measured(type, code, ns) ==
    [type |-> type, data |-> code \o Packed(ns, 2), truth |-> ns]
Status(type, data) == [type |-> type, data |-> data, truth |-> <<>>]

(* Four counters of 24 bits in three words of 32, from the top bit down.   *)
Counters(c) ==
    LET W(hi, lo) == Little(lo, 2) \o Little(hi, 2)
    IN W(c[1] \div 256, 256 * (c[1] % 256) + c[2] \div 65536)
       \o W(c[2] % 65536, c[3] \div 256)
       \o W(256 * (c[3] % 256) + c[4] \div 65536, c[4] % 65536)

SensorReadings ==
    {Measured(t, <<>>, ns) : t \in {"sht21", "lps331"}, ns \in {<<-5, 999>>, <<-32768, 0>>}}
    \cup {Measured("bme280", <<>>, <<-401, 1000, 760>>),
          Measured("opt3001", <<>>, <<65535>>),
          Measured("adc", <<>>, <<0, 1, 255, 256, 65534, 3300, 7, 8>>),
          Measured("lmt01", <<>>, <<-1, -10, 32766, -32767>>)}
    \cup {[type |-> "mhz19", data |-> Packed(<<co2, -15>>, 2) \o <<1>>,
           truth |-> <<co2, -15, 1>>] : co2 \in {0, 9999}}
    \cup {[type |-> "echo", data |-> <<255, 136>>, truth |-> <<-120>>],
          [type |-> "gps", data |-> <<0, 55, 0, 4, 37, 0, 6>>, truth |-> <<554, 376>>]}

SwitchReadings ==
    {[type |-> "gpio", data |-> <<6, 16, 35>>, truth |-> <<0, 1, 3, 2>>],
     [type |-> "gpio", data |-> <<1>>, truth |-> <<1>>],
     [type |-> "switch", data |-> <<4, 10>>, truth |-> <<0, 1, 0, 1>>],
     [type |-> "switch", data |-> <<3, 130>>, truth |-> <<1>>],
     [type |-> "4btn", data |-> <<2, 0>>, truth |-> <<2>>],
     [type |-> "pir", data |-> <<1>>, truth |-> <<1>>],
     Status("4btn", <<2>>), Status("uart", <<1, 10, 0>>), Status("uart", <<255>>),
     Status("uart", <<9>>), Status("pwm", <<0>>), Status("config", <<253>>),
     Status("ibutton", <<17, 1, 2, 3, 4, 5, 6, 7, 8>>), Status("lm75", <<1>>)}

MeterReadings ==
    {[type |-> "counter", data |-> Counters(ns), truth |-> ns] :
        ns \in {<<1, 2, 3, 4>>, <<16777215, 65536, 255, 256>>}}
    \cup {[type |-> "pulse", data |-> <<3, 5>> \o Packed(<<70000, 3>>, 3), truth |-> <<70000, 3>>],
          [type |-> "m200", data |-> <<10>> \o Packed(<<9, 1, 99, 100, 70000, 5>>, 4),
           truth |-> <<9, 1, 99, 100, 70000, 5>>],
          [type |-> "m200", data |-> <<252>> \o Packed(<<7, -1, 9>>, 4), truth |-> <<7, 9>>],
          Status("m200", <<7>> \o Packed(<<9>>, 4) \o <<3, 10, 11, 12, 1, 2, 17>>),
          Status("m200", <<14>> \o Packed(<<9>>, 4) \o <<0, 7, 30>>),
          [type |-> "m230", data |-> <<3, 9>> \o Packed(<<1, 1000, 999, 70000>>, 4),
           truth |-> <<9, 1, 1000, 999, 70000>>],
          Status("m230", <<4, 9, 1, 2, 3, 1, 5, 6, 17, 1>>),
          Status("m230", <<5, 9, 12, 34, 56, 78, 1, 2, 17>>)}

MCReadings == SensorReadings \cup SwitchReadings \cup MeterReadings
West       == {Status("gps", <<64, 55, 0, 4, 37, 0, 6>>)}
HourlyIncrement == {[type |-> "pulse", data |-> <<3, 8>> \o Packed(<<1000>>, 3) \o Packed(<<300>>, 2),
                     truth |-> <<1000, 700>>]}
NoReadings == {}

MCNodes == {<<0, 10, 1, 11>>}
MCOptions == {o \in [sepio : BOOLEAN, qos : {0, 1}, retain : BOOLEAN] :
                 o.retain <=> (o.qos = 1 \/ o.sepio)}
Shared == {[sepio |-> FALSE, qos |-> 1, retain |-> FALSE]}
=============================================================================
