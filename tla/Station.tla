------------------------------ MODULE Station -------------------------------
(* A weather station and what homeCore shows of it.  The console POSTs its   *)
(* readings and is polled for them; each answer goes through the parser of   *)
(* its path, and a device shows the last update parsed for it (how updates   *)
(* get there is DeviceRegistry's subject).  Batteries drain and are changed. *)
(* The console is external: which fields a sensor has on which path is read  *)
(* off the names the parsers look for.                                       *)
EXTENDS Readings, SequencesExt

CONSTANTS
    Stations,      \* sets of sensors that may be paired together
    UnclearOn      \* paths on which a text may come out as no number

Path == {"post", "poll"}

Sensor == UNION Stations

ASSUME PathAssumption == UnclearOn \subseteq Path

-----------------------------------------------------------------------------
(* The sensors: models and what the repository's README says of them.        *)

Model(post, keys, live, devices, kind) ==
    [post |-> post, keys |-> keys, live |-> live, devices |-> devices, kind |-> kind]

\* Fields POSTed, battery key, fields in livedata by section, devices it shows
\* up as, kind of battery (PM2.5: channels 1-4).  The table does not name the
\* WH52, whose kind is that of a comment in parser.rs.
Catalogue ==
    [WH65 |-> Model({"tempf", "humidity", "rainratein"}, {"wh65batt"},
                    [common_list |-> {"id0x02", "id0x07"}, rain |-> {"id0x0E"}],
                    {"weather", "rain"}, Binary),
     WH68 |-> Model({"windspeedmph"}, {"wh68batt"}, [common_list |-> {"id0x0B"}],
                    {"weather"}, Voltage(AALowV)),
     WH80 |-> Model({"tempf", "windspeedmph"}, {"wh80batt"},
                    [common_list |-> {"id0x02", "id0x0B"}], {"weather"}, Voltage(SupercapLowV)),
     WH85 |-> Model({"windspeedmph", "rrain_piezo"}, {"wh85batt"},
                    [common_list |-> {"id0x0B"}, piezoRain |-> {"id0x0E"}],
                    {"weather", "rain", "piezo_rain"}, Voltage(SupercapLowV)),
     WH90 |-> Model({"tempf", "rrain_piezo"}, {"wh90batt"},
                    [common_list |-> {"id0x02"}, piezoRain |-> {"id0x0E"}],
                    {"weather", "rain", "piezo_rain"}, Voltage(SupercapLowV)),
     WS90 |-> Model({"tempf", "rrain_piezo"}, {"ws90batt"},
                    [common_list |-> {"id0x02"}, piezoRain |-> {"id0x0E"}],
                    {"weather", "rain", "piezo_rain"}, Voltage(SupercapLowV)),
     WH25 |-> Model({"tempinf", "humidityin"}, {"wh25batt"},
                    [wh25 |-> {"intemp", "inhumi", "unit"}], {"indoor"}, Binary),
     WH26 |-> Model({"tempinf", "humidityin"}, {"wh26batt"},
                    [wh25 |-> {"intemp", "inhumi", "unit"}], {"indoor"}, Binary),
     WH40 |-> Model({"rainratein"}, {"wh40batt"}, [rain |-> {"id0x0E"}],
                    {"rain"}, Voltage(AALowV)),
     WH31 |-> Model({"tempf", "humidity"}, {"batt"},
                    [ch_aisle |-> {"temp", "humidity", "unit"}], {"temp", "aisle"}, Binary),
     WN34 |-> Model({"tf_ch"}, {"tf_batt"}, [ch_temp |-> {"temp", "unit"}],
                    {"temp"}, Voltage(AALowV)),
     WH51 |-> Model({"soilmoisture", "soilad"}, {"soilbatt"}, [ch_soil |-> {"humidity"}],
                    {"soil"}, Voltage(AALowV)),
     WH52 |-> Model({"soilec_ch", "soilec_hum", "soilec_temp"}, {},
                    [ch_ec |-> {"temp", "humidity"}], {"ec"}, Voltage(AALowV)),
     WN35 |-> Model({"leafwetness_ch"}, {"leaf_batt"}, [ch_leaf |-> {"humidity"}],
                    {"leaf"}, Voltage(AALowV)),
     WH55 |-> Model({"leak_ch"}, {"leakbatt"}, [ch_leak |-> {"status"}], {"leak"}, Level),
     WH41 |-> Model({"pm25_ch", "pm25_avg_24h_ch"}, {"pm25batt"}, [ch_pm25 |-> {"PM25"}],
                    {"pm25"}, Level),
     LDS |-> Model({"air_ch"}, {"ldsbatt"}, [ch_lds |-> {"air", "depth"}],
                   {"lds"}, Voltage(AALowV)),
     WH57 |-> Model({"lightning", "lightning_num", "lightning_time"}, {"wh57batt"},
                    [lightning |-> {"distance", "count", "timestamp"}], {"lightning"}, Level),
     WH45 |-> Model({"co2", "pm25_co2", "tf_co2"}, {"co2_batt"},
                    [co2 |-> {"temp", "PM25", "CO2", "unit"}], {"co2"}, Level)]

ModelOf(s) == Catalogue[s.model]

\* PM2.5 channels 5-8 report 0 or 1; parse_livedata takes them for levels.
BinaryPm25(s) == s.model = "WH41" /\ s.channel > 4

KindOf(s) == IF BinaryPm25(s) THEN Binary ELSE ModelOf(s).kind

DevicesOf(s) == ModelOf(s).devices \X {s.channel}

\* Readings on both sides of the line between low and not low.
BatteryReadings(s) ==
    LET limit == KindOf(s).limit
    IN  IF KindOf(s).label = "binary" THEN {0, limit}
        ELSE IF KindOf(s).label = "voltage" THEN {limit - 1, limit}
        ELSE {limit, limit + 10}

\* The sensors a console tells apart by channel.
Numbered == {"WH31", "WN34", "WH51", "WH52", "WN35", "WH55", "WH41", "LDS"}

ASSUME StationAssumption ==
    /\ \A sensors \in Stations : IsFiniteSet(sensors)
    /\ Sensor \subseteq [model : DOMAIN Catalogue, channel : Nat]
    /\ \A s \in Sensor : s.channel = 0 <=> s.model \notin Numbered

-----------------------------------------------------------------------------

VARIABLES
    station,   \* the sensors paired with the console
    battery,   \* what each one's battery reads
    shown      \* the last update of each device homeCore knows

vars == <<station, battery, shown>>

Init ==
    /\ station \in Stations
    /\ battery \in {b \in [station -> UNION {BatteryReadings(s) : s \in station}] :
                      \A s \in station : b[s] \in BatteryReadings(s)}
    /\ shown = <<>>

\* What is unreadable in a message: nothing, or the numbers or the battery of
\* one sensor.
Unclear(path) ==
    {{}} \cup IF path \in UnclearOn THEN {{u} : u \in station \X {"numbers", "battery"}} ELSE {}

Text(unclear, s, part, number) == IF <<s, part>> \in unclear THEN {} ELSE {number}

\* The keys of a sensor in a form.
FieldsOf(s) == {<<f, s.channel>> : f \in ModelOf(s).post}
BatteryKeys(s) == {<<k, s.channel>> : k \in ModelOf(s).keys}

\* A POST carries every sensor, and the time.
Form(unclear) ==
    LET sensor(key) == CHOOSE s \in station : key \in FieldsOf(s)
        batteryOf(key) == CHOOSE s \in station : key \in BatteryKeys(s)
    IN  Overlay([key \in UNION {FieldsOf(s) : s \in station} |->
                   Text(unclear, sensor(key), "numbers", 1)],
        Overlay([key \in UNION {BatteryKeys(s) : s \in station} |->
                   Text(unclear, batteryOf(key), "battery", battery[batteryOf(key)])],
                [key \in {<<"dateutc", 0>>} |-> {}]))

\* A sensor's item in a section.
Item(unclear, s, section) ==
    [section |-> section, channel |-> s.channel,
     values |-> [f \in ModelOf(s).live[section] |-> Text(unclear, s, "numbers", 1)],
     battery |-> {Text(unclear, s, "battery", battery[s])}]

\* The console's own clock is an item of the outdoor block, whatever is paired;
\* its text is no number.
Clock == [section |-> "common_list", channel |-> 0,
          values |-> [id0x18 |-> {}], battery |-> {}]

\* A sensor has an item in each of its sections.
Places == UNION {{s} \X DOMAIN ModelOf(s).live : s \in station}

\* A section is an array: its items are not scattered.
BySection(order) ==
    \A i, j, k \in DOMAIN order :
        i < j /\ j < k /\ order[i][2] = order[k][2] => order[j][2] = order[i][2]

\* The clock, and the sensors' items in any order.
Responses(unclear) ==
    {<<Clock>> \o [i \in DOMAIN order |-> Item(unclear, order[i][1], order[i][2])] :
        order \in {o \in SetToSeqs(Places) : BySection(o)}}

\* A device shows its last update.
Show(updates) ==
    shown' = Overlay([d \in {u.device : u \in updates} |->
                        CHOOSE u \in updates : u.device = d], shown)

Post(unclear) ==
    /\ \E form \in {Form(unclear)} : \E updates \in {ParseFormData(form)} : Show(updates)
    /\ UNCHANGED <<station, battery>>

Poll(unclear) ==
    /\ \E response \in Responses(unclear) : \E updates \in {ParseLivedata(response)} : Show(updates)
    /\ UNCHANGED <<station, battery>>

\* A battery runs low, or is replaced.
BatteryChanges(s) ==
    /\ \E raw \in BatteryReadings(s) \ {battery[s]} : battery' = [battery EXCEPT ![s] = raw]
    /\ UNCHANGED <<station, shown>>

Next ==
    \/ \E unclear \in Unclear("post") : Post(unclear)
    \/ \E unclear \in Unclear("poll") : Poll(unclear)
    \/ \E s \in station : BatteryChanges(s)

Spec == Init /\ [][Next]_vars

-----------------------------------------------------------------------------
(* Properties.                                                               *)

\* Every variable has its type; a device has one battery, of one kind, and a
\* verdict exactly when the kind is known.
TypeOK ==
    /\ station \in Stations
    /\ \A s \in station : battery[s] \in BatteryReadings(s)
    /\ \A d \in DOMAIN shown :
         /\ \A a \in DOMAIN shown[d].state :
              shown[d].state[a] \in {"bool", "integer", "float", "string"}
         /\ LET b == shown[d].battery
            IN  /\ AtMostOne(b.raw) /\ AtMostOne(b.low) /\ AtMostOne(b.label)
                /\ b.low = {} <=> b.label = {}
                /\ b.raw = {} => b.low = {}

\* README: "Devices are dynamically discovered from incoming data": no device
\* without a sensor of its kind on its channel.  The time of day, in every
\* message, is enough for the weather station.
NoPhantomDevice ==
    \A d \in DOMAIN shown :
        d = <<"weather", 0>> \/ \E s \in station : d \in DevicesOf(s)

\* The two verdicts of parse_livedata that the table does not bear out: a PM2.5
\* sensor on channels 5-8 is always low, being taken for a level, and a text
\* that cannot be read counts as zero.
Misread(s, low) ==
    \/ BinaryPm25(s) /\ low /\ \E unclear \in Unclear("poll") : Poll(unclear)
    \/ /\ low = IsLow(KindOf(s), 0)
       /\ \E unclear \in Unclear("poll") : <<s, "battery">> \in unclear /\ Poll(unclear)

\* README: "battery_low is what rules should trigger off".  A message changes
\* what a device says of its battery only to what is true, by the README's
\* table, of a sensor it stands for, whatever else was in the message and
\* whichever path it took, but for those two.
VerdictIsReal ==
    [][\A d \in DOMAIN shown' :
         (IF d \in DOMAIN shown THEN shown[d].battery # shown'[d].battery ELSE TRUE) =>
            \A low \in shown'[d].battery.low :
                \E s \in station : /\ d \in DevicesOf(s)
                                  /\ (low = IsLow(KindOf(s), battery[s]) \/ Misread(s, low))]_vars

\* The two paths and their parsers agree on the kind of every attribute they
\* both publish for a device, but for the count of strikes and the station's
\* clock: a schema, which is sent anew when names change, can be wrong about no
\* other.
OnlyCountAndClockChangeType ==
    [][\A d \in DOMAIN shown :
         LET before == SchemaForState(shown[d].state)
             after == SchemaForState(shown'[d].state)
         IN  \A a \in DOMAIN before \cap DOMAIN after :
                before[a] # after[a] => a \in {"strike_count", "datetime"}]_vars

OnItsOwn(s) == \A t \in station \ {s} : DevicesOf(s) \cap DevicesOf(t) = {}

UpToDate(s) ==
    \E d \in DevicesOf(s) :
        d \in DOMAIN shown /\ shown[d].battery.low = {IsLow(KindOf(s), battery[s])}

\* The message a sensor's battery is read from.
ReadBy(s) == IF s.model \in Numbered THEN Poll({}) ELSE Post({})

\* The converse of VerdictIsReal: a readable message that changes anything brings
\* what a sensor's device says of its battery up to date, low or not.  It takes a
\* POST for the sensors a console has once, whose battery livedata gives without
\* its kind or not at all, and a poll for those on channels, as parse_form_data
\* has no extractor for some of them.  Excepted are sensors that share a device,
\* where the first readable battery hides the rest, the PM2.5 sensors above, and
\* the WH85: no extractor tries wh85batt.
VerdictIsShownAtOnce ==
    [][\A s \in station :
         /\ OnItsOwn(s) /\ ~BinaryPm25(s) /\ s.model # "WH85"
         /\ ~UpToDate(s)'
         => ~ReadBy(s)]_vars

=============================================================================
