------------------------------ MODULE Readings ------------------------------
(* The two parsers as functions from what the console sends to device        *)
(* updates: form_parser.rs for a POSTed form, parser.rs for a livedata       *)
(* response, and the battery taxonomy both of them consult.                  *)
(*                                                                           *)
(* A text is the set of the number it reads as, in tenths: empty if it is no *)
(* number.  A key is a field name and its channel, 0 if it has none.  A few  *)
(* of a family's measured fields stand for all of them, a °F field for its   *)
(* °C twin too; the units livedata attaches to single values are left out.   *)
(* An update keeps the JSON type of each attribute, all that a schema        *)
(* depends on, and of the values those of the battery.  The updates of one   *)
(* message are a set: none of them names a device twice unless livedata has  *)
(* two items for it, and their order matters only to the registry.           *)
EXTENDS Integers, Sequences

\* f and what g adds to it.  (TLC's @@, which has no meaning in a proof.)
Overlay(f, g) == [x \in DOMAIN f \cup DOMAIN g |-> IF x \in DOMAIN f THEN f[x] ELSE g[x]]

Number(text) == CHOOSE n \in text : TRUE

\* The members of S that come first, at most one.
Earliest(S) == {i \in S : \A j \in S : i <= j}
Latest(S) == {i \in S : \A j \in S : j <= i}

AtMostOne(S) == \A x, y \in S : x = y

Single == {0}

-----------------------------------------------------------------------------
(* battery.rs.                                                               *)

AALowV == 12
SupercapLowV == 24

Binary == [label |-> "binary", limit |-> 10]
Voltage(lowThreshold) == [label |-> "voltage", limit |-> lowThreshold]
Level == [label |-> "level", limit |-> 10]

IsLow(kind, raw) ==
    \/ kind.label = "binary" /\ raw >= kind.limit
    \/ kind.label = "voltage" /\ raw < kind.limit
    \/ kind.label = "level" /\ raw <= kind.limit

Taxonomy ==
    {[keys |-> {"wh25batt", "wh26batt", "wh65batt"}, channels |-> {0}, kind |-> Binary],
     [keys |-> {"wh40batt", "wh68batt"}, channels |-> {0}, kind |-> Voltage(AALowV)],
     [keys |-> {"wh80batt", "wh85batt", "wh90batt", "ws90batt"}, channels |-> {0},
      kind |-> Voltage(SupercapLowV)],
     [keys |-> {"wh57batt", "co2_batt", "wh45batt"}, channels |-> {0}, kind |-> Level],
     [keys |-> {"console_batt"}, channels |-> {0}, kind |-> Voltage(30)],
     [keys |-> {"batt"}, channels |-> 1 .. 8, kind |-> Binary],
     [keys |-> {"pm25batt"}, channels |-> 1 .. 4, kind |-> Level],
     [keys |-> {"pm25batt"}, channels |-> 5 .. 8, kind |-> Binary],
     [keys |-> {"leakbatt"}, channels |-> 1 .. 8, kind |-> Level],
     [keys |-> {"soilbatt"}, channels |-> 1 .. 16, kind |-> Voltage(AALowV)],
     [keys |-> {"tf_batt", "leaf_batt"}, channels |-> 1 .. 8, kind |-> Voltage(AALowV)],
     [keys |-> {"ldsbatt"}, channels |-> 1 .. 4, kind |-> Voltage(AALowV)]}

\* Mutant: the channel of a key is not looked at.
KindForName(key) == {row.kind : row \in {r \in Taxonomy : key[1] \in r.keys}}

\* A key outside the taxonomy has no kind.
KindFor(key) ==
    {row.kind : row \in {r \in Taxonomy : key[1] \in r.keys /\ key[2] \in r.channels}}

NoBattery == [raw |-> {}, low |-> {}, label |-> {}]

\* Without a kind only the raw value is published.
Classify(raw, kinds) ==
    [raw |-> {raw},
     low |-> {IsLow(k, raw) : k \in kinds},
     label |-> {k.label : k \in kinds}]

OfType(type, names) == [a \in names |-> type]

BatteryState(battery) ==
    Overlay(OfType("float", {"battery" : r \in battery.raw}),
            Overlay(OfType("bool", {"battery_low" : l \in battery.low}),
                    OfType("string", {"battery_kind" : k \in battery.label})))

Update(device, state, battery) ==
    [device |-> device, state |-> Overlay(state, BatteryState(battery)), battery |-> battery]

\* schema.rs: the kind of control an attribute is described by to homeCore, from
\* the JSON type it was reported with.  No reading is an array or an object.
Describe(type) ==
    CASE type = "bool" -> "Bool" [] type = "integer" -> "Integer"
      [] type = "float" -> "Float" [] type = "string" -> "String"

SchemaForState(state) == [a \in DOMAIN state |-> Describe(state[a])]

-----------------------------------------------------------------------------
(* form_parser.rs.  A family is a device and the fields it is made from:     *)
(* numbers and texts with their attributes, the field that tells the unit    *)
(* of temperature, the battery keys in the order they are tried.  alone: the *)
(* parts that make a device with nothing else.                               *)

Outdoor == [slug |-> "weather", channels |-> Single,
    numbers |-> [tempf |-> "temperature", humidity |-> "humidity",
                 windspeedmph |-> "wind_speed", baromrelin |-> "barometric_rel"],
    texts |-> [dateutc |-> "datetime"], unit |-> {"tempf"},
    batteries |-> <<"wh65batt", "wh68batt", "wh80batt", "wh90batt", "ws90batt">>,
    alone |-> {"numbers", "texts", "unit"}]

Indoor == [slug |-> "indoor", channels |-> Single,
    numbers |-> [tempinf |-> "temperature", humidityin |-> "humidity"],
    texts |-> <<>>, unit |-> {"tempinf"},
    batteries |-> <<"wh25batt", "wh26batt">>, alone |-> {"numbers", "unit"}]

Rain == [slug |-> "rain", channels |-> Single,
    numbers |-> [rainratein |-> "rain_rate", rrain_piezo |-> "rain_rate_piezo"],
    texts |-> <<>>, unit |-> {},
    batteries |-> <<"wh40batt", "wh90batt">>, alone |-> {"numbers"}]

NumberedTemp == [slug |-> "temp", channels |-> 1 .. 8,
    numbers |-> [tempf |-> "temperature", humidity |-> "humidity"],
    texts |-> <<>>, unit |-> {"tempf"},
    batteries |-> <<"batt">>, alone |-> {"numbers", "battery"}]

SoilMoisture == [slug |-> "soil", channels |-> 1 .. 16,
    numbers |-> [soilmoisture |-> "moisture", soilad |-> "moisture_ad"],
    texts |-> <<>>, unit |-> {},
    batteries |-> <<"soilbatt">>, alone |-> {"numbers", "battery"}]

SoilEc == [slug |-> "ec", channels |-> 1 .. 16,
    numbers |-> [soilec_ch |-> "ec", soilec_hum |-> "moisture", soilec_temp |-> "temperature"],
    texts |-> <<>>, unit |-> {}, batteries |-> <<>>, alone |-> {"numbers"}]

LeafWetness == [slug |-> "leaf", channels |-> 1 .. 8,
    numbers |-> [leafwetness_ch |-> "wetness"],
    texts |-> <<>>, unit |-> {},
    batteries |-> <<"leaf_batt">>, alone |-> {"numbers", "battery"}]

Leak == [slug |-> "leak", channels |-> 1 .. 4,
    numbers |-> [leak_ch |-> "leak"],
    texts |-> <<>>, unit |-> {},
    batteries |-> <<"leakbatt">>, alone |-> {"numbers"}]

Pm25 == [slug |-> "pm25", channels |-> 1 .. 4,
    numbers |-> [pm25_ch |-> "pm25", pm25_avg_24h_ch |-> "pm25_24h"],
    texts |-> <<>>, unit |-> {},
    batteries |-> <<"pm25batt">>, alone |-> {"numbers", "battery"}]

Lightning == [slug |-> "lightning", channels |-> Single,
    numbers |-> [lightning |-> "distance", lightning_num |-> "strike_count"],
    texts |-> [lightning_time |-> "last_strike"], unit |-> {},
    batteries |-> <<"wh57batt">>, alone |-> {"numbers", "texts", "battery"}]

Co2 == [slug |-> "co2", channels |-> Single,
    numbers |-> [co2 |-> "co2", pm25_co2 |-> "pm25", tf_co2 |-> "temperature"],
    texts |-> <<>>, unit |-> {},
    batteries |-> <<"co2_batt">>, alone |-> {"numbers", "battery"}]

Families == {Outdoor, Indoor, Rain, NumberedTemp, SoilMoisture, SoilEc,
             LeafWetness, Leak, Pm25, Lightning, Co2}

\* fields.get(key) and the parse of its text, for present fields: what cannot
\* be read is left out.
Parsed(form, key) == IF key \in DOMAIN form THEN form[key] ELSE {}

\* Mutant: an absent or unreadable key ends the search.
FormBatteryFirstOnly(form, keys) ==
    IF keys = <<>> \/ Parsed(form, Head(keys)) = {} THEN NoBattery
    ELSE Classify(Number(form[Head(keys)]), KindFor(Head(keys)))

\* battery::insert on each key until one is readable.
FormBattery(form, keys) ==
    LET readable == Earliest({i \in DOMAIN keys : Parsed(form, keys[i]) # {}})
    IN  IF readable = {} THEN NoBattery
        ELSE LET key == keys[Number(readable)]
             IN  Classify(Number(form[key]), KindFor(key))

\* The part of a form a family reads on one channel.
Extract(form, family, ch) ==
    [numbers |-> {n \in DOMAIN family.numbers : Parsed(form, <<n, ch>>) # {}},
     texts |-> {n \in DOMAIN family.texts : <<n, ch>> \in DOMAIN form},
     unit |-> {n \in family.unit : <<n, ch>> \in DOMAIN form},
     battery |-> FormBattery(form, [i \in DOMAIN family.batteries |-> <<family.batteries[i], ch>>])]

\* Mutant: the check for an empty state is lost.
MakesDeviceAlways(family, found) == TRUE

\* The state is not empty where the code asks.
MakesDevice(family, found) ==
    \/ found.numbers # {} \/ found.texts # {}
    \/ found.unit # {} /\ "unit" \in family.alone
    \/ found.battery.raw # {} /\ "battery" \in family.alone

FormUpdate(family, ch, found) ==
    Update(<<family.slug, ch>>,
           Overlay(OfType("float", {family.numbers[n] : n \in found.numbers}),
                   OfType("string", {family.texts[n] : n \in found.texts}
                                    \cup {"temperature_unit" : n \in found.unit})),
           found.battery)

\* extract_*: an update, or none.
FamilyUpdates(form, family, ch) ==
    {FormUpdate(family, ch, found) :
        found \in {f \in {Extract(form, family, ch)} : MakesDevice(family, f)}}

ParseFormData(form) ==
    UNION {UNION {FamilyUpdates(form, family, ch) : ch \in family.channels} : family \in Families}

-----------------------------------------------------------------------------
(* parser.rs.  A response is a sequence of items, in the order of their      *)
(* arrays.  An item has a section, a channel, texts by field and, where the  *)
(* console gives one, the text of a battery.                                 *)

\* parse_value: strips a unit; what still is no number reads as zero.
ParseValue(text) == IF text = {} THEN 0 ELSE Number(text)

\* Mutant: leaf wetness sensors are put with the leak detectors.
MultiChannelBatteryKindLeaf(slug) ==
    {k \in {Binary} : slug = "aisle"}
    \cup {k \in {Voltage(AALowV)} : slug \in {"temp", "soil", "lds", "ec"}}
    \cup {k \in {Level} : slug \in {"leaf", "pm25", "leak"}}

\* multi_channel_battery_kind.
MultiChannelBatteryKind(slug) ==
    {k \in {Binary} : slug = "aisle"}
    \cup {k \in {Voltage(AALowV)} : slug \in {"temp", "soil", "leaf", "lds", "ec"}}
    \cup {k \in {Level} : slug \in {"pm25", "leak"}}

\* common_list, rain and piezoRain: all items make one device.
CommonList == [key |-> "common_list", slug |-> "weather",
    numbers |-> [id0x02 |-> "outdoor_temperature", id0x07 |-> "outdoor_humidity",
                 id0x0B |-> "wind_speed", id0x18 |-> "datetime"]]

RainSection(key, slug) == [key |-> key, slug |-> slug,
    numbers |-> [id0x0E |-> "rain_rate", id0x10 |-> "rain_day"]]

\* The first battery of the outdoor block, of unknown kind.
CommonListBattery(items) ==
    LET given == Earliest({i \in DOMAIN items : items[i].battery # {}})
    IN  IF given = {} THEN NoBattery
        ELSE Classify(ParseValue(Number(items[Number(given)].battery)), {})

\* The last battery of a rain block, skipped with its item if the id is unknown.
RainBattery(items, section) ==
    LET given == Latest({i \in DOMAIN items :
                    /\ items[i].battery # {}
                    /\ DOMAIN items[i].values \cap DOMAIN section.numbers # {}})
    IN  IF given = {} THEN NoBattery
        ELSE Classify(ParseValue(Number(items[Number(given)].battery)), {})

\* The items of a block, by their places in the response.
ItemsOf(response, key) ==
    [i \in {j \in DOMAIN response : response[j].section = key} |-> response[i]]

Attributes(item, section) ==
    {section.numbers[f] : f \in DOMAIN item.values \cap DOMAIN section.numbers}

\* The block as one update, or none if nothing was read.
Merged(items, section, battery) ==
    LET names == UNION {Attributes(items[i], section) : i \in DOMAIN items}
    IN  {Update(<<section.slug, 0>>, OfType("float", n), battery) :
            n \in {m \in {names} : m # {} \/ battery.raw # {}}}

\* The other sections: one device per item, even if nothing was read.
ItemSection(key, slug, numbers, kinds) ==
    [key |-> key, slug |-> slug, numbers |-> numbers, kinds |-> kinds]

ChannelFields == [temp |-> "temperature", humidity |-> "humidity", air |-> "air",
                  depth |-> "depth", PM25 |-> "pm25", PM25_RealAQI |-> "pm25_aqi"]

MultiChannel(key, slug) ==
    ItemSection(key, slug, ChannelFields, {MultiChannelBatteryKind(slug)})

\* wh25 items have no battery field that is read.
ItemSections ==
    {ItemSection("wh25", "indoor", [intemp |-> "temperature", inhumi |-> "humidity"], {}),
      ItemSection("lightning", "lightning",
                  [distance |-> "distance", count |-> "strike_count"], {{Level}}),
      ItemSection("co2", "co2",
                  [temp |-> "temperature", PM25 |-> "pm25", CO2 |-> "co2"], {{Level}}),
      MultiChannel("ch_aisle", "aisle"), MultiChannel("ch_temp", "temp"),
      MultiChannel("ch_soil", "soil"), MultiChannel("ch_leaf", "leaf"),
      MultiChannel("ch_leak", "leak"), MultiChannel("ch_pm25", "pm25"),
      MultiChannel("ch_lds", "lds"), MultiChannel("ch_ec", "ec")}

\* Fields kept as they are, where a section has them; numbers are floats but
\* for the count of strikes.
TextFields == [status |-> "status", timestamp |-> "last_strike", unit |-> "temperature_unit"]

\* Mutant: ppm are whole numbers too.
NumberTypesPpm(names) ==
    [a \in names |-> IF a \in {"strike_count", "co2"} THEN "integer" ELSE "float"]

NumberTypes(names) == [a \in names |-> IF a = "strike_count" THEN "integer" ELSE "float"]

ItemUpdate(item, section) ==
    Update(<<section.slug, item.channel>>,
           Overlay(NumberTypes(Attributes(item, section)),
                   OfType("string", {TextFields[f] : f \in DOMAIN item.values \cap DOMAIN TextFields})),
           IF item.battery = {} \/ section.kinds = {} THEN NoBattery
           ELSE Classify(ParseValue(Number(item.battery)), UNION section.kinds))

ParseLivedata(response) ==
    LET common == ItemsOf(response, "common_list")
        Rains(key, slug) ==
            LET items == ItemsOf(response, key)
            IN  Merged(items, RainSection(key, slug), RainBattery(items, RainSection(key, slug)))
        range == {response[i] : i \in DOMAIN response}
    IN  Merged(common, CommonList, CommonListBattery(common))
        \cup Rains("rain", "rain") \cup Rains("piezoRain", "piezo_rain")
        \cup UNION {{ItemUpdate(item, section) :
                       section \in {s \in ItemSections : s.key = item.section}} : item \in range}

=============================================================================
