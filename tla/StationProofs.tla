---------------------------- MODULE StationProofs ----------------------------
(* Safety of Station for any sets of sensors: types, no device without its   *)
(* sensor, true verdicts, verdicts shown at once, one type per attribute.    *)
EXTENDS Station, ReadingsProofs, FiniteSetTheorems

\* station never changes, batteries stay among their readings, and what is
\* shown came out of a parser.
StationInv ==
    /\ station \in Stations
    /\ DOMAIN battery = station
    /\ \A s \in station : battery[s] \in BatteryReadings(s)
    /\ \A d \in DOMAIN shown : WellTyped(shown[d].state) /\ WellFormed(shown[d].battery)

-----------------------------------------------------------------------------
(* The catalogue beside the parsers' tables.                                 *)

LEMMA CatalogueModels ==
    DOMAIN Catalogue = {"WH65", "WH68", "WH80", "WH85", "WH90", "WS90", "WH25", "WH26", "WH40",
                        "WH31", "WN34", "WH51", "WH52", "WN35", "WH55", "WH41", "LDS", "WH57",
                        "WH45"}
  BY DEF Catalogue

LEMMA ModelFields ==
    \A post, keys, live, devices, kind :
        /\ Model(post, keys, live, devices, kind).post = post
        /\ Model(post, keys, live, devices, kind).keys = keys
        /\ Model(post, keys, live, devices, kind).live = live
        /\ Model(post, keys, live, devices, kind).devices = devices
        /\ Model(post, keys, live, devices, kind).kind = kind
  BY DEF Model

\* A field POSTed for a sensor is looked for by families of its devices only, on
\* its channel; the station's clock by the outdoor family.
LEMMA FieldMeansDevice ==
    ASSUME NEW s \in Sensor, NEW family \in Families, s.channel \in family.channels,
           NEW n \in Fields(family), n \in ModelOf(s).post
    PROVE  family.slug \in ModelOf(s).devices
<1>1. s.model \in DOMAIN Catalogue /\ s.channel \in Nat
      /\ (s.channel = 0 <=> s.model \notin Numbered)
  BY StationAssumption
<1>2. CASE family.channels = Single
  <2>1. s.model \in {"WH65", "WH68", "WH80", "WH85", "WH90", "WS90", "WH25", "WH26", "WH40", "WH57", "WH45"}
    BY <1>1, <1>2, CatalogueModels DEF Numbered, Single
  <2>2. family \in {Outdoor, Indoor, Rain, Lightning, Co2}
    <3>1. \A other \in {NumberedTemp, SoilMoisture, SoilEc, LeafWetness, Leak, Pm25} :
             1 \in other.channels
      BY DEF NumberedTemp, SoilMoisture, SoilEc, LeafWetness, Leak, Pm25
    <3>2. 1 \notin family.channels
      BY <1>2 DEF Single
    <3> QED
      BY <3>1, <3>2 DEF Families
  <2>3. CASE family = Outdoor
    <3>1. n \in {"tempf", "humidity", "windspeedmph", "baromrelin", "dateutc"} /\ family.slug = "weather"
      BY <2>3 DEF Fields, Outdoor
    <3> QED
      BY <2>1, <3>1, ModelFields, SMTT(60) DEF ModelOf, Catalogue
  <2>4. CASE family = Indoor
    <3>1. n \in {"tempinf", "humidityin"} /\ family.slug = "indoor"
      BY <2>4 DEF Fields, Indoor
    <3> QED
      BY <2>1, <3>1, ModelFields, SMTT(60) DEF ModelOf, Catalogue
  <2>5. CASE family = Rain
    <3>1. n \in {"rainratein", "rrain_piezo"} /\ family.slug = "rain"
      BY <2>5 DEF Fields, Rain
    <3> QED
      BY <2>1, <3>1, ModelFields, SMTT(60) DEF ModelOf, Catalogue
  <2>6. CASE family = Lightning
    <3>1. n \in {"lightning", "lightning_num", "lightning_time"} /\ family.slug = "lightning"
      BY <2>6 DEF Fields, Lightning
    <3> QED
      BY <2>1, <3>1, ModelFields, SMTT(60) DEF ModelOf, Catalogue
  <2>7. CASE family = Co2
    <3>1. n \in {"co2", "pm25_co2", "tf_co2"} /\ family.slug = "co2"
      BY <2>7 DEF Fields, Co2
    <3> QED
      BY <2>1, <3>1, ModelFields, SMTT(60) DEF ModelOf, Catalogue
  <2> QED
    BY <2>2, <2>3, <2>4, <2>5, <2>6, <2>7
<1>3. CASE family.channels # Single
  <2>1. s.model \in Numbered
    <3>1. \A other \in {NumberedTemp, SoilMoisture, SoilEc, LeafWetness, Leak, Pm25} :
             0 \notin other.channels
      BY DEF NumberedTemp, SoilMoisture, SoilEc, LeafWetness, Leak, Pm25
    <3>2. \A other \in {Outdoor, Indoor, Rain, Lightning, Co2} : other.channels = Single
      BY DEF Outdoor, Indoor, Rain, Lightning, Co2
    <3>3. 0 \notin family.channels
      BY <1>3, <3>1, <3>2 DEF Families
    <3> QED
      BY <1>1, <3>3
  <2>2. family \in {NumberedTemp, SoilMoisture, SoilEc, LeafWetness, Leak, Pm25}
    <3>1. \A other \in {Outdoor, Indoor, Rain, Lightning, Co2} : other.channels = Single
      BY DEF Outdoor, Indoor, Rain, Lightning, Co2
    <3> QED
      BY <1>3, <3>1 DEF Families
  <2>3. CASE family = NumberedTemp
    <3>1. n \in {"tempf", "humidity"} /\ family.slug = "temp"
      BY <2>3 DEF Fields, NumberedTemp
    <3> QED
      BY <2>1, <3>1, ModelFields, SMTT(60) DEF ModelOf, Catalogue, Numbered
  <2>4. CASE family = SoilMoisture
    <3>1. n \in {"soilmoisture", "soilad"} /\ family.slug = "soil"
      BY <2>4 DEF Fields, SoilMoisture
    <3> QED
      BY <2>1, <3>1, ModelFields, SMTT(60) DEF ModelOf, Catalogue, Numbered
  <2>5. CASE family = SoilEc
    <3>1. n \in {"soilec_ch", "soilec_hum", "soilec_temp"} /\ family.slug = "ec"
      BY <2>5 DEF Fields, SoilEc
    <3> QED
      BY <2>1, <3>1, ModelFields, SMTT(60) DEF ModelOf, Catalogue, Numbered
  <2>6. CASE family = LeafWetness
    <3>1. n \in {"leafwetness_ch"} /\ family.slug = "leaf"
      BY <2>6 DEF Fields, LeafWetness
    <3> QED
      BY <2>1, <3>1, ModelFields, SMTT(60) DEF ModelOf, Catalogue, Numbered
  <2>7. CASE family = Leak
    <3>1. n \in {"leak_ch"} /\ family.slug = "leak"
      BY <2>7 DEF Fields, Leak
    <3> QED
      BY <2>1, <3>1, ModelFields, SMTT(60) DEF ModelOf, Catalogue, Numbered
  <2>8. CASE family = Pm25
    <3>1. n \in {"pm25_ch", "pm25_avg_24h_ch"} /\ family.slug = "pm25"
      BY <2>8 DEF Fields, Pm25
    <3> QED
      BY <2>1, <3>1, ModelFields, SMTT(60) DEF ModelOf, Catalogue, Numbered
  <2> QED
    BY <2>2, <2>3, <2>4, <2>5, <2>6, <2>7, <2>8
<1> QED
  BY <1>2, <1>3

\* A battery's key is read only for devices of its sensor.
LEMMA BatteryMeansDevice ==
    ASSUME NEW s \in Sensor, NEW family \in Families,
           NEW i \in DOMAIN family.batteries, family.batteries[i] \in ModelOf(s).keys
    PROVE  family.slug \in ModelOf(s).devices
<1>1. s.model \in DOMAIN Catalogue
  BY StationAssumption
<1>2. CASE family = Outdoor
  BY <1>1, <1>2, CatalogueModels, ModelFields, SMTT(60) DEF ModelOf, Catalogue, Outdoor
<1>3. CASE family = Indoor
  BY <1>1, <1>3, CatalogueModels, ModelFields, SMTT(60) DEF ModelOf, Catalogue, Indoor
<1>4. CASE family = Rain
  BY <1>1, <1>4, CatalogueModels, ModelFields, SMTT(60) DEF ModelOf, Catalogue, Rain
<1>5. CASE family = NumberedTemp
  BY <1>1, <1>5, CatalogueModels, ModelFields, SMTT(60) DEF ModelOf, Catalogue, NumberedTemp
<1>6. CASE family = SoilMoisture
  BY <1>1, <1>6, CatalogueModels, ModelFields, SMTT(60) DEF ModelOf, Catalogue, SoilMoisture
<1>7. CASE family = SoilEc
  BY <1>1, <1>7, CatalogueModels, ModelFields, SMTT(60) DEF ModelOf, Catalogue, SoilEc
<1>8. CASE family = LeafWetness
  BY <1>1, <1>8, CatalogueModels, ModelFields, SMTT(60) DEF ModelOf, Catalogue, LeafWetness
<1>9. CASE family = Leak
  BY <1>1, <1>9, CatalogueModels, ModelFields, SMTT(60) DEF ModelOf, Catalogue, Leak
<1>10. CASE family = Pm25
  BY <1>1, <1>10, CatalogueModels, ModelFields, SMTT(60) DEF ModelOf, Catalogue, Pm25
<1>11. CASE family = Lightning
  BY <1>1, <1>11, CatalogueModels, ModelFields, SMTT(60) DEF ModelOf, Catalogue, Lightning
<1>12. CASE family = Co2
  BY <1>1, <1>12, CatalogueModels, ModelFields, SMTT(60) DEF ModelOf, Catalogue, Co2
<1> QED
  BY <1>2, <1>3, <1>4, <1>5, <1>6, <1>7, <1>8, <1>9, <1>10, <1>11, <1>12 DEF Families

\* A name is that of a field or of a battery, in the catalogue and in the
\* families, and the clock is no battery.
BatteryName == UNION {row.keys : row \in Taxonomy}

LEMMA BatteryNames ==
    BatteryName = {"wh25batt", "wh26batt", "wh65batt", "wh40batt", "wh68batt", "wh80batt",
                   "wh85batt", "wh90batt", "ws90batt", "wh57batt", "co2_batt", "wh45batt",
                   "console_batt", "batt", "pm25batt", "leakbatt", "soilbatt", "tf_batt",
                   "leaf_batt", "ldsbatt"}
  BY DEF BatteryName, Taxonomy

LEMMA NamesOfSensors ==
    ASSUME NEW s \in Sensor
    PROVE  /\ ModelOf(s).keys \subseteq BatteryName
           /\ AtMostOne(ModelOf(s).keys)
           /\ ModelOf(s).post \cap BatteryName = {}
<1>1. s.model \in DOMAIN Catalogue
  BY StationAssumption
<1>2. ModelOf(s).keys \subseteq BatteryName
  BY <1>1, BatteryNames, CatalogueModels, ModelFields, SMTT(60) DEF ModelOf, Catalogue
<1>3. AtMostOne(ModelOf(s).keys)
  BY <1>1, CatalogueModels, ModelFields, SMTT(60) DEF ModelOf, Catalogue, AtMostOne
<1>4. ModelOf(s).post \subseteq
        {"tempf", "humidity", "windspeedmph", "rainratein", "rrain_piezo", "tempinf",
         "humidityin", "tf_ch", "soilmoisture", "soilad", "soilec_ch", "soilec_hum",
         "soilec_temp", "leafwetness_ch", "leak_ch", "pm25_ch", "pm25_avg_24h_ch", "air_ch",
         "lightning", "lightning_num", "lightning_time", "co2", "pm25_co2", "tf_co2"}
  BY <1>1, CatalogueModels, ModelFields, SMTT(60) DEF ModelOf, Catalogue
<1> QED
  BY <1>2, <1>3, <1>4, BatteryNames

LEMMA NamesOfFamilies ==
    ASSUME NEW family \in Families
    PROVE  /\ Fields(family) \cap BatteryName = {}
           /\ \A i \in DOMAIN family.batteries : family.batteries[i] \in BatteryName
           /\ "dateutc" \in Fields(family) => family.slug = "weather"
  BY BatteryNames DEF Fields, Families, Outdoor, Indoor, Rain, NumberedTemp, SoilMoisture,
     SoilEc, LeafWetness, Leak, Pm25, Lightning, Co2

\* The taxonomy agrees with the README's table on every battery POSTed.
LEMMA TaxonomyIsTheTable ==
    ASSUME NEW s \in Sensor, NEW name \in ModelOf(s).keys, NEW k \in KindFor(<<name, s.channel>>)
    PROVE  k = KindOf(s)
<1>1. s.model \in DOMAIN Catalogue /\ s.channel \in Nat
  BY StationAssumption
<1>2. PICK row \in Taxonomy : /\ name \in row.keys /\ s.channel \in row.channels
                             /\ k = row.kind
  BY DEF KindFor
<1>3. CASE s.model = "WH41"
  <2>1. name = "pm25batt" /\ ModelOf(s).kind = Level
    BY <1>3, SMTT(60) DEF ModelOf, Catalogue, Model
  <2> QED
    BY <1>1, <1>2, <1>3, <2>1 DEF KindOf, BinaryPm25, Taxonomy
<1>4. CASE s.model # "WH41"
  <2>1. KindOf(s) = ModelOf(s).kind
    BY <1>4 DEF KindOf, BinaryPm25
  <2>2. name # "pm25batt"
    BY <1>1, <1>4, CatalogueModels, SMTT(60) DEF ModelOf, Catalogue, Model
  <2>3. /\ row.keys \cap {"wh65batt", "wh25batt", "wh26batt", "batt"} # {} => k = Binary
        /\ row.keys \cap {"wh68batt", "wh40batt", "tf_batt", "soilbatt", "leaf_batt", "ldsbatt"} # {}
             => k = Voltage(AALowV)
        /\ row.keys \cap {"wh80batt", "wh85batt", "wh90batt", "ws90batt"} # {}
             => k = Voltage(SupercapLowV)
        /\ row.keys \cap {"leakbatt", "wh57batt", "co2_batt"} # {} => k = Level
    BY <1>2 DEF Taxonomy
  <2>4. name \in row.keys
    BY <1>2
  <2>5. k = ModelOf(s).kind
    BY <1>1, <2>2, <2>3, <2>4, CatalogueModels, SMTT(60) DEF ModelOf, Catalogue, Model
  <2> QED
    BY <2>1, <2>5
<1> QED
  BY <1>3, <1>4

-----------------------------------------------------------------------------
(* POSTs.                                                                    *)

\* What a message may say: a device with a sensor paired, and verdicts that are
\* true of one.
HasSensor(u) == u.device = <<"weather", 0>> \/ \E s \in station : u.device \in DevicesOf(s)

TrueVerdict(u) ==
    \A low \in u.battery.low :
        \E s \in station : u.device \in DevicesOf(s) /\ low = IsLow(KindOf(s), battery[s])

LEMMA FormKeys ==
    ASSUME NEW unclear
    PROVE  DOMAIN Form(unclear) = (UNION {FieldsOf(s) : s \in station})
                                  \cup (UNION {BatteryKeys(s) : s \in station}) \cup {<<"dateutc", 0>>}
<1> DEFINE A == [key \in UNION {FieldsOf(s) : s \in station} |->
                  Text(unclear, CHOOSE s \in station : key \in FieldsOf(s), "numbers", 1)]
           B == [key \in UNION {BatteryKeys(s) : s \in station} |->
                  LET t == CHOOSE s \in station : key \in BatteryKeys(s)
                  IN  Text(unclear, t, "battery", battery[t])]
           C == [key \in {<<"dateutc", 0>>} |-> {}]
<1>1. Form(unclear) = Overlay(A, Overlay(B, C))
  BY DEF Form
<1>2. /\ DOMAIN A = UNION {FieldsOf(s) : s \in station}
      /\ DOMAIN B = UNION {BatteryKeys(s) : s \in station}
      /\ DOMAIN C = {<<"dateutc", 0>>}
  OBVIOUS
<1> HIDE DEF A, B, C
<1> QED
  BY <1>1, <1>2 DEF Overlay

LEMMA PairedIsSensor ==
    ASSUME station \in Stations, NEW s \in station
    PROVE  s \in Sensor
  BY DEF Sensor

\* The text under the key of a battery is the reading of such a battery.
LEMMA FormBatteryText ==
    ASSUME station \in Stations, NEW unclear, NEW s \in station, NEW key \in BatteryKeys(s)
    PROVE  \E t \in station : /\ key \in BatteryKeys(t)
                             /\ Form(unclear)[key] = Text(unclear, t, "battery", battery[t])
<1> DEFINE t == CHOOSE u \in station : key \in BatteryKeys(u)
<1>1. t \in station /\ key \in BatteryKeys(t)
  OBVIOUS
<1>2. \A u \in station : key \notin FieldsOf(u)
  BY PairedIsSensor, NamesOfSensors DEF BatteryKeys, FieldsOf
<1>3. key \in UNION {BatteryKeys(u) : u \in station}
  OBVIOUS
<1>4. Form(unclear)[key] = Text(unclear, t, "battery", battery[t])
  BY <1>2, <1>3 DEF Form, Overlay
<1> QED
  BY <1>1, <1>4

\* The battery keys of a family that are in a form are those of batteries
\* paired, of sensors of the family's device.
LEMMA FormBatteryKey ==
    ASSUME station \in Stations, NEW unclear,
           NEW family \in Families, NEW i \in DOMAIN family.batteries, NEW c,
           <<family.batteries[i], c>> \in DOMAIN Form(unclear)
    PROVE  \E s \in station : /\ <<family.batteries[i], c>> \in BatteryKeys(s)
                             /\ <<family.slug, c>> \in DevicesOf(s)
<1>1. family.batteries[i] \in BatteryName
  BY NamesOfFamilies
<1>2. <<family.batteries[i], c>> # <<"dateutc", 0>>
  BY <1>1, BatteryNames
<1>3. \A s \in station : <<family.batteries[i], c>> \notin FieldsOf(s)
  BY <1>1, PairedIsSensor, NamesOfSensors DEF FieldsOf
<1>4. PICK s \in station : <<family.batteries[i], c>> \in BatteryKeys(s)
  BY <1>2, <1>3, FormKeys
<1>5. family.batteries[i] \in ModelOf(s).keys /\ c = s.channel
  BY <1>4 DEF BatteryKeys
<1>6. family.slug \in ModelOf(s).devices
  BY <1>5, PairedIsSensor, BatteryMeansDevice
<1> QED
  BY <1>4, <1>5, <1>6 DEF DevicesOf

LEMMA PostUpdates ==
    ASSUME station \in Stations, NEW unclear, NEW u \in ParseFormData(Form(unclear))
    PROVE  HasSensor(u) /\ TrueVerdict(u)
<1> DEFINE form == Form(unclear)
<1>1. PICK family \in Families : \E c \in family.channels :
          /\ u.device = <<family.slug, c>>
          /\ \/ \E n \in Fields(family) : <<n, c>> \in DOMAIN form
             \/ \E i \in DOMAIN family.batteries : <<family.batteries[i], c>> \in DOMAIN form
          /\ \A low \in u.battery.low : \E i \in DOMAIN family.batteries :
                LET key == <<family.batteries[i], c>>
                IN  /\ key \in DOMAIN form /\ form[key] # {}
                    /\ \E k \in KindFor(key) : low = IsLow(k, Number(form[key]))
  BY FormUpdateFound
<1>2. PICK c \in family.channels :
          /\ u.device = <<family.slug, c>>
          /\ \/ \E n \in Fields(family) : <<n, c>> \in DOMAIN form
             \/ \E i \in DOMAIN family.batteries : <<family.batteries[i], c>> \in DOMAIN form
          /\ \A low \in u.battery.low : \E i \in DOMAIN family.batteries :
                LET key == <<family.batteries[i], c>>
                IN  /\ key \in DOMAIN form /\ form[key] # {}
                    /\ \E k \in KindFor(key) : low = IsLow(k, Number(form[key]))
  BY <1>1
<1>3. ASSUME NEW n \in Fields(family), <<n, c>> \in DOMAIN form
      PROVE  HasSensor(u)
  <2>1. CASE <<n, c>> = <<"dateutc", 0>>
    <3>1. family.slug = "weather"
      BY <2>1, NamesOfFamilies
    <3> QED
      BY <1>2, <2>1, <3>1 DEF HasSensor
  <2>2. CASE \E s \in station : <<n, c>> \in FieldsOf(s)
    <3>1. PICK s \in station : n \in ModelOf(s).post /\ c = s.channel
      BY <2>2 DEF FieldsOf
    <3>2. family.slug \in ModelOf(s).devices
      BY <3>1, PairedIsSensor, FieldMeansDevice
    <3> QED
      BY <1>2, <3>1, <3>2 DEF HasSensor, DevicesOf
  <2>3. CASE \E s \in station : <<n, c>> \in BatteryKeys(s)
    <3> QED
      BY <2>3, PairedIsSensor, NamesOfSensors, NamesOfFamilies DEF BatteryKeys
  <2> QED
    BY <1>3, <2>1, <2>2, <2>3, FormKeys
<1>4. HasSensor(u)
  <2>1. CASE \E n \in Fields(family) : <<n, c>> \in DOMAIN form
    BY <1>3, <2>1
  <2>2. CASE \E i \in DOMAIN family.batteries : <<family.batteries[i], c>> \in DOMAIN form
    BY <1>2, <2>2, FormBatteryKey DEF HasSensor
  <2> QED
    BY <1>2, <2>1, <2>2
<1>5. ASSUME NEW low \in u.battery.low
      PROVE  \E s \in station : u.device \in DevicesOf(s) /\ low = IsLow(KindOf(s), battery[s])
  <2>1. PICK i \in DOMAIN family.batteries :
           LET key == <<family.batteries[i], c>>
           IN  /\ key \in DOMAIN form /\ form[key] # {}
               /\ \E k \in KindFor(key) : low = IsLow(k, Number(form[key]))
    BY <1>2
  <2> DEFINE key == <<family.batteries[i], c>>
  <2>2. PICK s \in station : key \in BatteryKeys(s)
    <3>1. key \in DOMAIN Form(unclear)
      BY <2>1
    <3>2. \E s \in station : /\ <<family.batteries[i], c>> \in BatteryKeys(s)
                             /\ <<family.slug, c>> \in DevicesOf(s)
      BY <3>1, FormBatteryKey
    <3> QED
      BY <3>2
  <2>3. PICK t \in station : key \in BatteryKeys(t) /\ form[key] = {battery[t]}
    <3>1. form[key] # {}
      BY <2>1
    <3>2. PICK t \in station : /\ key \in BatteryKeys(t)
                              /\ form[key] = Text(unclear, t, "battery", battery[t])
      BY <2>2, FormBatteryText
    <3> QED
      BY <3>1, <3>2 DEF Text
  <2>4. PICK k \in KindFor(key) : low = IsLow(k, battery[t])
    BY <2>1, <2>3, NumberOfOne
  <2>5. family.batteries[i] \in ModelOf(t).keys /\ c = t.channel
    BY <2>3 DEF BatteryKeys
  <2>6. k = KindOf(t)
    BY <2>4, <2>5, PairedIsSensor, TaxonomyIsTheTable
  <2>7. u.device \in DevicesOf(t)
    BY <1>2, <2>5, PairedIsSensor, BatteryMeansDevice DEF DevicesOf
  <2> QED
    BY <2>4, <2>6, <2>7
<1> QED
  BY <1>4, <1>5 DEF TrueVerdict

-----------------------------------------------------------------------------
(* Polls.                                                                    *)

SectionName ==
    {"common_list", "rain", "piezoRain", "wh25"} \cup {"lightning", "co2", "ch_aisle", "ch_temp"}
    \cup {"ch_soil", "ch_leaf", "ch_leak", "ch_pm25"} \cup {"ch_lds", "ch_ec", "ch_lds", "ch_ec"}

\* A response has as many items as there are places.
LEMMA PlacesFinite == ASSUME station \in Stations PROVE IsFiniteSet(Places)
<1>1. IsFiniteSet(station)
  BY StationAssumption
<1>2. \A a, b, c, d : IsFiniteSet({a, b, c, d})
  <2> SUFFICES ASSUME NEW a, NEW b, NEW c, NEW d
               PROVE  IsFiniteSet({a, b, c, d})
    OBVIOUS
  <2>1. IsFiniteSet({a} \cup {b}) /\ IsFiniteSet({c} \cup {d})
    BY FS_Singleton, FS_Union
  <2>2. IsFiniteSet(({a} \cup {b}) \cup ({c} \cup {d}))
    BY <2>1, FS_Union
  <2>3. ({a} \cup {b}) \cup ({c} \cup {d}) = {a, b, c, d}
    OBVIOUS
  <2> QED
    BY <2>2, <2>3
<1>3. IsFiniteSet(SectionName)
  BY <1>2, FS_Union DEF SectionName
<1>4. \A s \in station : DOMAIN ModelOf(s).live \subseteq SectionName
  <2> SUFFICES ASSUME NEW s \in station
               PROVE  DOMAIN ModelOf(s).live \subseteq SectionName
    OBVIOUS
  <2>1. s.model \in DOMAIN Catalogue
    BY StationAssumption DEF Sensor
  <2> QED
    BY <2>1, CatalogueModels, SMTT(60) DEF ModelOf, Catalogue, Model, SectionName
<1>5. Places \in SUBSET (station \X SectionName)
  BY <1>4 DEF Places
<1>6. IsFiniteSet(station \X SectionName)
  BY <1>1, <1>3, FS_Product
<1> QED
  BY <1>5, <1>6, FS_Subset

\* What poll_once reads: the console's clock, and an item per place.
LEMMA ResponseItems ==
    ASSUME station \in Stations, NEW unclear, NEW response \in Responses(unclear),
           NEW i \in DOMAIN response
    PROVE  \/ response[i] = Clock
           \/ \E s \in station : \E x \in DOMAIN ModelOf(s).live : response[i] = Item(unclear, s, x)
<1>1. PICK order \in SetToSeqs(Places) :
          response = <<Clock>> \o [k \in DOMAIN order |-> Item(unclear, order[k][1], order[k][2])]
  BY DEF Responses
<1> DEFINE n == Cardinality(Places)
           items == [k \in DOMAIN order |-> Item(unclear, order[k][1], order[k][2])]
           any == {Clock} \cup {Item(unclear, p[1], p[2]) : p \in Places}
<1>2. n \in Nat
  BY PlacesFinite, FS_CardinalityType
<1>3. order \in [1 .. n -> Places]
  BY DEF SetToSeqs
<1>4. items \in Seq(any)
  <2>1. DOMAIN order = 1 .. n /\ \A k \in 1 .. n : order[k] \in Places
    BY <1>3
  <2>2. items = [k \in 1 .. n |-> Item(unclear, order[k][1], order[k][2])]
    BY <2>1
  <2>3. \A k \in 1 .. n : Item(unclear, order[k][1], order[k][2]) \in any
    BY <2>1
  <2> HIDE DEF n, any, items
  <2> QED
    BY <1>2, <2>2, <2>3
<1>5. <<Clock>> \in Seq(any)
  OBVIOUS
<1>6. response \in Seq(any)
  BY <1>1, <1>4, <1>5
<1> HIDE DEF any
<1>7. response[i] \in any
  BY <1>6
<1>8. \A p \in Places : p[1] \in station /\ p[2] \in DOMAIN ModelOf(p[1]).live
  BY DEF Places
<1> QED
  BY <1>7, <1>8 DEF any

\* A section of livedata makes the devices of its sensors.
LEMMA SectionMeansDevice ==
    ASSUME NEW s \in Sensor, NEW section \in ItemSections, section.key \in DOMAIN ModelOf(s).live
    PROVE  section.slug \in ModelOf(s).devices
<1>1. s.model \in DOMAIN Catalogue
  BY StationAssumption
<1> QED
  BY <1>1, CatalogueModels, SMTT(60)
     DEF ModelOf, Catalogue, Model, ItemSections, ItemSection, MultiChannel

LEMMA RainMeansDevice ==
    ASSUME NEW s \in Sensor,
           NEW section \in {RainSection("rain", "rain"), RainSection("piezoRain", "piezo_rain")},
           section.key \in DOMAIN ModelOf(s).live
    PROVE  <<section.slug, 0>> \in DevicesOf(s)
<1>1. s.model \in DOMAIN Catalogue /\ (s.channel = 0 <=> s.model \notin Numbered)
  BY StationAssumption
<1>2. \/ section.key = "rain" /\ section.slug = "rain"
      \/ section.key = "piezoRain" /\ section.slug = "piezo_rain"
  BY DEF RainSection
<1>3. s.model \in {"WH65", "WH85", "WH90", "WS90", "WH40"} /\ section.slug \in ModelOf(s).devices
  BY <1>1, <1>2, CatalogueModels, SMTT(60) DEF ModelOf, Catalogue, Model
<1>4. s.channel = 0
  BY <1>1, <1>3 DEF Numbered
<1> QED
  BY <1>3, <1>4 DEF DevicesOf

\* multi_channel_battery_kind agrees with the table, but for the PM2.5 sensors
\* it takes for levels.
LEMMA SectionIsTheTable ==
    ASSUME NEW s \in Sensor, NEW section \in ItemSections, section.key \in DOMAIN ModelOf(s).live,
           NEW k \in UNION section.kinds
    PROVE  IF BinaryPm25(s) THEN k = Level ELSE k = KindOf(s)
<1>1. s.model \in DOMAIN Catalogue /\ s.channel \in Nat
  BY StationAssumption
<1>2. /\ ~BinaryPm25(s) => KindOf(s) = ModelOf(s).kind
      /\ BinaryPm25(s) => ModelOf(s).kind = Level
  BY <1>1, SMTT(60) DEF KindOf, BinaryPm25, ModelOf, Catalogue, Model
<1>3. k = ModelOf(s).kind
  <2>1. CASE section.key \in {"wh25", "lightning", "co2"}
    <3>1. k = Level /\ section.key \in {"lightning", "co2"}
      BY <2>1 DEF ItemSections, ItemSection, MultiChannel
    <3> QED
      BY <1>1, <3>1, CatalogueModels, SMTT(60) DEF ModelOf, Catalogue, Model
  <2>2. CASE section.key \notin {"wh25", "lightning", "co2"}
    <3>1. /\ section.key = "ch_aisle" => k = Binary
          /\ section.key \in {"ch_temp", "ch_soil", "ch_leaf", "ch_lds", "ch_ec"}
               => k = Voltage(AALowV)
          /\ section.key \in {"ch_leak", "ch_pm25"} => k = Level
      BY <2>2 DEF ItemSections, ItemSection, MultiChannel, MultiChannelBatteryKind
    <3>2. section.key \in {"ch_aisle", "ch_temp", "ch_soil", "ch_leaf", "ch_lds", "ch_leak",
                          "ch_pm25", "ch_ec"}
      BY <2>2 DEF ItemSections, ItemSection, MultiChannel
    <3> QED
      BY <1>1, <3>1, <3>2, CatalogueModels, SMTT(60) DEF ModelOf, Catalogue, Model
  <2> QED
    BY <2>1, <2>2
<1> QED
  BY <1>2, <1>3

\* A block is of its own device, has items, and knows no kind of battery.
LEMMA RainBlock ==
    ASSUME NEW items, NEW section, NEW u \in Merged(items, section, RainBattery(items, section))
    PROVE  /\ u.device = <<section.slug, 0>> /\ u.battery.low = {}
           /\ DOMAIN items # {}
<1> DEFINE found == RainBattery(items, section)
<1>1. u.device = <<section.slug, 0>> /\ u.battery = found
  BY DEF Merged, Update
<1>2. found.low = {}
  BY DEF RainBattery, NoBattery, Classify
<1>3. UNION {Attributes(items[i], section) : i \in DOMAIN items} # {} \/ found.raw # {}
  BY DEF Merged
<1>4. found.raw # {} => DOMAIN items # {}
  BY DEF RainBattery, NoBattery, Latest
<1> QED
  BY <1>1, <1>2, <1>3, <1>4

LEMMA OutdoorBlock ==
    ASSUME NEW items, NEW u \in Merged(items, CommonList, CommonListBattery(items))
    PROVE  u.device = <<"weather", 0>> /\ u.battery.low = {}
<1>1. u.device = <<"weather", 0>> /\ u.battery = CommonListBattery(items)
  BY DEF Merged, Update, CommonList
<1> QED
  BY <1>1 DEF CommonListBattery, NoBattery, Classify

\* A polled verdict: true of the sensor, or misread.
ReadVerdict(unclear, s, low) ==
    \/ low = IsLow(KindOf(s), battery[s])
    \/ BinaryPm25(s) /\ low
    \/ low = IsLow(KindOf(s), 0) /\ <<s, "battery">> \in unclear

\* A PM2.5 sensor that reports 0 or 1 is low on the scale of levels.
LEMMA LevelOfBinary ==
    ASSUME NEW s, BinaryPm25(s), NEW raw \in BatteryReadings(s) \cup {0}
    PROVE  IsLow(Level, raw)
<1>1. KindOf(s) = Binary
  BY DEF KindOf
<1>2. raw \in {0, 10}
  BY <1>1 DEF BatteryReadings, Binary
<1> QED
  BY <1>2 DEF IsLow, Level

LEMMA PollUpdates ==
    ASSUME station \in Stations, \A s \in station : battery[s] \in BatteryReadings(s),
           NEW unclear, NEW response \in Responses(unclear),
           NEW u \in ParseLivedata(response)
    PROVE  /\ HasSensor(u)
           /\ \A low \in u.battery.low : \E s \in station :
                 /\ u.device \in DevicesOf(s)
                 /\ ReadVerdict(unclear, s, low)
<1>1. CASE u \in Merged(ItemsOf(response, "common_list"), CommonList,
                       CommonListBattery(ItemsOf(response, "common_list")))
  BY <1>1, OutdoorBlock DEF HasSensor
<1>2. CASE \E section \in {RainSection("rain", "rain"), RainSection("piezoRain", "piezo_rain")} :
              LET items == ItemsOf(response, section.key)
              IN  u \in Merged(items, section, RainBattery(items, section))
  <2>1. PICK section \in {RainSection("rain", "rain"), RainSection("piezoRain", "piezo_rain")} :
              LET items == ItemsOf(response, section.key)
              IN  u \in Merged(items, section, RainBattery(items, section))
    BY <1>2
  <2>2. /\ u.device = <<section.slug, 0>> /\ u.battery.low = {}
        /\ DOMAIN ItemsOf(response, section.key) # {}
    BY <2>1, RainBlock
  <2>3. PICK i \in DOMAIN response : response[i].section = section.key
    BY <2>2 DEF ItemsOf
  <2>4. section.key \in {"rain", "piezoRain"}
    BY <2>1 DEF RainSection
  <2>5. response[i] # Clock
    BY <2>3, <2>4 DEF Clock
  <2>6. PICK s \in station : \E x \in DOMAIN ModelOf(s).live : response[i] = Item(unclear, s, x)
    BY <2>5, ResponseItems
  <2>7. section.key \in DOMAIN ModelOf(s).live
    BY <2>3, <2>6 DEF Item
  <2>8. u.device \in DevicesOf(s)
    BY <2>2, <2>7, PairedIsSensor, RainMeansDevice
  <2> QED
    BY <2>2, <2>8 DEF HasSensor
<1>3. CASE \E i \in DOMAIN response : \E section \in ItemSections :
             /\ section.key = response[i].section
             /\ u = ItemUpdate(response[i], section)
  <2>1. PICK i \in DOMAIN response : \E section \in ItemSections :
             /\ section.key = response[i].section
             /\ u = ItemUpdate(response[i], section)
    BY <1>3
  <2>2. PICK section \in ItemSections : /\ section.key = response[i].section
                                       /\ u = ItemUpdate(response[i], section)
    BY <2>1
  <2>3. response[i] # Clock
    BY <2>2 DEF Clock, ItemSections, ItemSection, MultiChannel
  <2>4. PICK s \in station : \E x \in DOMAIN ModelOf(s).live : response[i] = Item(unclear, s, x)
    BY <2>3, ResponseItems
  <2>5. /\ section.key \in DOMAIN ModelOf(s).live /\ response[i].channel = s.channel
        /\ response[i].battery = {Text(unclear, s, "battery", battery[s])}
    BY <2>2, <2>4 DEF Item
  <2>6. u.device = <<section.slug, s.channel>>
    BY <2>2, <2>5 DEF ItemUpdate, Update
  <2>7. u.device \in DevicesOf(s)
    BY <2>5, <2>6, PairedIsSensor, SectionMeansDevice DEF DevicesOf
  <2>8. ASSUME NEW low \in u.battery.low
        PROVE  ReadVerdict(unclear, s, low)
    <3> DEFINE raw == ParseValue(Number(response[i].battery))
    <3>1. raw = IF <<s, "battery">> \in unclear THEN 0 ELSE battery[s]
      BY <2>5, NumberOfOne DEF ParseValue, Text
    <3>2. u.battery = NoBattery \/ u.battery = Classify(raw, UNION section.kinds)
      BY <2>2 DEF ItemUpdate, Update
    <3> HIDE DEF raw
    <3>3. PICK k \in UNION section.kinds : low = IsLow(k, raw)
      BY <2>8, <3>2 DEF NoBattery, Classify
    <3>4. IF BinaryPm25(s) THEN k = Level ELSE k = KindOf(s)
      BY <2>5, PairedIsSensor, SectionIsTheTable
    <3>5. CASE BinaryPm25(s)
      <4>1. raw \in BatteryReadings(s) \cup {0}
        BY <3>1
      <4>2. IsLow(Level, raw)
        BY <3>5, <4>1, LevelOfBinary
      <4> QED
        BY <3>3, <3>4, <3>5, <4>2 DEF ReadVerdict
    <3>6. CASE ~BinaryPm25(s)
      BY <3>1, <3>3, <3>4, <3>6 DEF ReadVerdict
    <3> QED
      BY <3>5, <3>6
  <2> QED
    BY <2>7, <2>8 DEF HasSensor
<1> QED
  BY <1>1, <1>2, <1>3, LivedataUpdates

-----------------------------------------------------------------------------
(* The invariant.                                                            *)

\* A message changes what is shown of the devices it names, to one of its
\* updates for them.
LEMMA ShowChanges ==
    ASSUME NEW updates, Show(updates), NEW d \in DOMAIN shown'
    PROVE  \/ d \in DOMAIN shown /\ shown'[d] = shown[d]
           \/ shown'[d] \in updates /\ shown'[d].device = d
<1> DEFINE named == {u.device : u \in updates}
<1>1. DOMAIN shown' = named \cup DOMAIN shown
  BY DEF Show, Overlay
<1>2. CASE d \in named
  <2>1. shown'[d] = CHOOSE u \in updates : u.device = d
    BY <1>2 DEF Show, Overlay
  <2>2. \E u \in updates : u.device = d
    BY <1>2
  <2> QED
    BY <2>1, <2>2
<1>3. CASE d \notin named
  BY <1>1, <1>3 DEF Show, Overlay
<1> QED
  BY <1>2, <1>3

LEMMA InitStation == Init => StationInv
  BY DEF Init, StationInv

\* What a step shows anew was parsed from a form or a response of this state.
LEMMA ShownIsParsed ==
    ASSUME StationInv, [Next]_vars, NEW d \in DOMAIN shown'
    PROVE  \/ d \in DOMAIN shown /\ shown'[d] = shown[d]
           \/ /\ shown'[d].device = d
              /\ \/ \E unclear \in Unclear("post") : shown'[d] \in ParseFormData(Form(unclear))
                 \/ \E unclear \in Unclear("poll") : \E response \in Responses(unclear) :
                       shown'[d] \in ParseLivedata(response)
<1>1. CASE \E unclear \in Unclear("post") : Post(unclear)
  BY <1>1, ShowChanges DEF Post
<1>2. CASE \E unclear \in Unclear("poll") : Poll(unclear)
  BY <1>2, ShowChanges DEF Poll
<1>3. CASE UNCHANGED shown
  BY <1>3
<1> QED
  BY <1>1, <1>2, <1>3 DEF Next, vars, BatteryChanges

LEMMA StepStation == StationInv /\ [Next]_vars => StationInv'
<1> SUFFICES ASSUME StationInv, [Next]_vars
             PROVE  StationInv'
  OBVIOUS
<1>1. \A d \in DOMAIN shown' : WellTyped(shown'[d].state) /\ WellFormed(shown'[d].battery)
  <2> SUFFICES ASSUME NEW d \in DOMAIN shown'
               PROVE  WellTyped(shown'[d].state) /\ WellFormed(shown'[d].battery)
    OBVIOUS
  <2>1. CASE d \in DOMAIN shown /\ shown'[d] = shown[d]
    BY <2>1 DEF StationInv
  <2>2. CASE \E unclear \in Unclear("post") : shown'[d] \in ParseFormData(Form(unclear))
    BY <2>2, FormWellTyped, FormWellFormed
  <2>3. CASE \E unclear \in Unclear("poll") : \E response \in Responses(unclear) :
               shown'[d] \in ParseLivedata(response)
    BY <2>3, LivedataWellTyped, LivedataWellFormed
  <2> QED
    BY <2>1, <2>2, <2>3, ShownIsParsed
<1>2. CASE UNCHANGED <<station, battery>>
  <2>1. station' = station /\ battery' = battery
    BY <1>2
  <2> QED
    BY <1>1, <2>1 DEF StationInv, BatteryReadings
<1>3. CASE \E s \in station : BatteryChanges(s)
  <2>1. PICK s \in station : \E raw \in BatteryReadings(s) :
             battery' = [battery EXCEPT ![s] = raw] /\ station' = station
    BY <1>3 DEF BatteryChanges
  <2> QED
    BY <1>1, <2>1 DEF StationInv, BatteryReadings
<1> QED
  BY <1>2, <1>3 DEF Next, vars, Post, Poll

-----------------------------------------------------------------------------
(* Theorems.                                                                 *)

\* Type correctness.
THEOREM TypeCorrect == Spec => []TypeOK
<1>1. StationInv => TypeOK
  BY DEF StationInv, TypeOK, WellTyped, WellFormed
<1> QED
  BY <1>1, InitStation, StepStation, PTL DEF Spec

\* No sensor, no device: homeCore shows none that is not paired, but for the
\* weather station itself, which the time of day is enough for.
THEOREM NoPhantomDeviceHolds == Spec => []NoPhantomDevice
<1> DEFINE Inv == StationInv /\ NoPhantomDevice
<1>1. Init => Inv
  BY InitStation DEF Init, NoPhantomDevice
<1>2. Inv /\ [Next]_vars => Inv'
  <2> SUFFICES ASSUME Inv, [Next]_vars, NEW d \in DOMAIN shown'
               PROVE  d = <<"weather", 0>> \/ \E s \in station' : d \in DevicesOf(s)
    BY StepStation DEF NoPhantomDevice, DevicesOf
  <2>1. station' = station
    BY DEF Next, vars, Post, Poll, BatteryChanges
  <2>2. CASE d \in DOMAIN shown
    BY <2>1, <2>2 DEF NoPhantomDevice
  <2>3. CASE d \notin DOMAIN shown
    <3>1. shown'[d].device = d /\ HasSensor(shown'[d])
      BY <2>3, ShownIsParsed, PostUpdates, PollUpdates DEF StationInv
    <3> QED
      BY <2>1, <3>1 DEF HasSensor
  <2> QED
    BY <2>2, <2>3
<1> QED
  BY <1>1, <1>2, PTL DEF Spec

\* What a device says anew of its battery is true of a sensor it stands for, or
\* is one of the two verdicts a poll gets wrong.
THEOREM VerdictIsRealHolds == Spec => VerdictIsReal
<1> DEFINE Verdicts(d) ==
             (IF d \in DOMAIN shown THEN shown[d].battery # shown'[d].battery ELSE TRUE) =>
                \A low \in shown'[d].battery.low :
                   \E s \in station : /\ d \in DevicesOf(s)
                                     /\ (low = IsLow(KindOf(s), battery[s]) \/ Misread(s, low))
<1>1. StationInv /\ [Next]_vars => [\A d \in DOMAIN shown' : Verdicts(d)]_vars
  <2> SUFFICES ASSUME StationInv, [Next]_vars, NEW d \in DOMAIN shown'
               PROVE  Verdicts(d)
    OBVIOUS
  <2>1. CASE d \in DOMAIN shown /\ shown'[d] = shown[d]
    BY <2>1
  <2>2. CASE ~(d \in DOMAIN shown /\ shown'[d] = shown[d]) /\ \E unclear \in Unclear("post") : Post(unclear)
    <3>1. PICK unclear \in Unclear("post") : Show(ParseFormData(Form(unclear)))
      BY <2>2 DEF Post
    <3>2. shown'[d] \in ParseFormData(Form(unclear)) /\ shown'[d].device = d
      BY <2>2, <3>1, ShowChanges
    <3>3. TrueVerdict(shown'[d])
      BY <3>2, PostUpdates DEF StationInv
    <3> QED
      BY <3>2, <3>3 DEF TrueVerdict
  <2>3. CASE ~(d \in DOMAIN shown /\ shown'[d] = shown[d]) /\ \E unclear \in Unclear("poll") : Poll(unclear)
    <3>1. PICK unclear \in Unclear("poll") : Poll(unclear)
      BY <2>3
    <3>2. PICK response \in Responses(unclear) : Show(ParseLivedata(response))
      BY <3>1 DEF Poll
    <3>3. shown'[d] \in ParseLivedata(response) /\ shown'[d].device = d
      BY <2>3, <3>2, ShowChanges
    <3>4. \A low \in shown'[d].battery.low : \E s \in station :
             d \in DevicesOf(s) /\ ReadVerdict(unclear, s, low)
      BY <3>3, PollUpdates DEF StationInv
    <3>5. \A s \in station : \A low : ReadVerdict(unclear, s, low) =>
             low = IsLow(KindOf(s), battery[s]) \/ Misread(s, low)
      BY <3>1 DEF ReadVerdict, Misread
    <3> QED
      BY <3>4, <3>5
  <2>4. CASE UNCHANGED shown
    BY <2>4
  <2> QED
    BY <2>1, <2>2, <2>3, <2>4 DEF Next, vars, BatteryChanges
<1> QED
  BY <1>1, InitStation, StepStation, PTL DEF Spec, VerdictIsReal

\* Both parsers give an attribute the same type, so that it is described the
\* same, whatever the messages and the sensors; the count of strikes and the
\* station's clock excepted.
THEOREM OnlyCountAndClockChangeTypeHolds == Spec => OnlyCountAndClockChangeType
<1>1. ASSUME StationInv, [Next]_vars
      PROVE  DOMAIN shown \subseteq DOMAIN shown'
  <2>1. ASSUME NEW updates, Show(updates)
        PROVE  DOMAIN shown \subseteq DOMAIN shown'
    BY <2>1 DEF Show, Overlay
  <2> QED
    BY <1>1, <2>1 DEF Next, vars, Post, Poll, BatteryChanges
<1>2. StationInv /\ StationInv' /\ [Next]_vars =>
        [\A d \in DOMAIN shown :
           LET before == SchemaForState(shown[d].state)
               after == SchemaForState(shown'[d].state)
           IN  \A a \in DOMAIN before \cap DOMAIN after :
                  before[a] # after[a] => a \in {"strike_count", "datetime"}]_vars
  <2> SUFFICES ASSUME StationInv, StationInv', [Next]_vars, NEW d \in DOMAIN shown,
                      NEW a \in DOMAIN SchemaForState(shown[d].state)
                               \cap DOMAIN SchemaForState(shown'[d].state),
                      a \notin {"strike_count", "datetime"}
               PROVE  SchemaForState(shown[d].state)[a] = SchemaForState(shown'[d].state)[a]
    OBVIOUS
  <2>1. d \in DOMAIN shown'
    BY <1>1
  <2>2. WellTyped(shown[d].state) /\ WellTyped(shown'[d].state)
    BY <2>1 DEF StationInv
  <2>3. a \in DOMAIN shown[d].state /\ a \in DOMAIN shown'[d].state
    BY DEF SchemaForState
  <2>4. shown[d].state[a] = shown'[d].state[a]
    BY <2>2, <2>3 DEF WellTyped
  <2> QED
    BY <2>3, <2>4 DEF SchemaForState
<1> QED
  BY <1>2, InitStation, StepStation, PTL DEF Spec, OnlyCountAndClockChangeType

-----------------------------------------------------------------------------
(* One readable message brings a verdict up to date.                         *)

\* A sensor that a console has once, and whose battery is tried, makes a device
\* of a form by a number and a battery key of one family.
LEMMA UnnumberedFamily ==
    ASSUME NEW s \in Sensor, s.model \notin Numbered, s.model # "WH85"
    PROVE  /\ s.channel = 0
           /\ \E family \in Families : \E i \in DOMAIN family.batteries :
                 /\ 0 \in family.channels
                 /\ family.batteries[i] \in ModelOf(s).keys
                 /\ DOMAIN family.numbers \cap ModelOf(s).post # {}
<1>1. /\ s.model \in {"WH65", "WH68", "WH80", "WH90", "WS90", "WH25", "WH26", "WH40", "WH57", "WH45"}
      /\ s.channel = 0
  BY StationAssumption, CatalogueModels DEF Numbered
<1>2. CASE s.model \in {"WH65", "WH68", "WH80", "WH90", "WS90"}
  <2>1. Outdoor \in Families /\ 0 \in Outdoor.channels
    BY DEF Families, Outdoor, Single
  <2>2. \E i \in DOMAIN Outdoor.batteries : Outdoor.batteries[i] \in ModelOf(s).keys
    <3>1. /\ DOMAIN Outdoor.batteries = 1 .. 5
          /\ Outdoor.batteries[1] = "wh65batt" /\ Outdoor.batteries[2] = "wh68batt"
          /\ Outdoor.batteries[3] = "wh80batt" /\ Outdoor.batteries[4] = "wh90batt"
          /\ Outdoor.batteries[5] = "ws90batt"
      BY DEF Outdoor
    <3> QED
      BY <1>2, <3>1, ModelFields, SMTT(60) DEF ModelOf, Catalogue
  <2>3. DOMAIN Outdoor.numbers \cap ModelOf(s).post # {}
    <3>1. "tempf" \in ModelOf(s).post \/ "windspeedmph" \in ModelOf(s).post
      BY <1>2, ModelFields, SMTT(60) DEF ModelOf, Catalogue
    <3> QED
      BY <3>1 DEF Outdoor
  <2> QED
    BY <1>1, <2>1, <2>2, <2>3
<1>3. CASE s.model \in {"WH25", "WH26"}
  <2>1. Indoor \in Families /\ 0 \in Indoor.channels
    BY DEF Families, Indoor, Single
  <2>2. \E i \in DOMAIN Indoor.batteries : Indoor.batteries[i] \in ModelOf(s).keys
    <3>1. /\ DOMAIN Indoor.batteries = 1 .. 2
          /\ Indoor.batteries[1] = "wh25batt" /\ Indoor.batteries[2] = "wh26batt"
      BY DEF Indoor
    <3> QED
      BY <1>3, <3>1, ModelFields, SMTT(60) DEF ModelOf, Catalogue
  <2>3. DOMAIN Indoor.numbers \cap ModelOf(s).post # {}
    <3>1. "tempinf" \in ModelOf(s).post
      BY <1>3, ModelFields, SMTT(60) DEF ModelOf, Catalogue
    <3> QED
      BY <3>1 DEF Indoor
  <2> QED
    BY <1>1, <2>1, <2>2, <2>3
<1>4. CASE s.model = "WH40"
  <2>1. Rain \in Families /\ 0 \in Rain.channels
    BY DEF Families, Rain, Single
  <2>2. \E i \in DOMAIN Rain.batteries : Rain.batteries[i] \in ModelOf(s).keys
    BY <1>4, ModelFields, SMTT(60) DEF Rain, ModelOf, Catalogue
  <2>3. DOMAIN Rain.numbers \cap ModelOf(s).post # {}
    <3>1. "rainratein" \in ModelOf(s).post
      BY <1>4, ModelFields, SMTT(60) DEF ModelOf, Catalogue
    <3> QED
      BY <3>1 DEF Rain
  <2> QED
    BY <1>1, <2>1, <2>2, <2>3
<1>5. CASE s.model = "WH57"
  <2>1. Lightning \in Families /\ 0 \in Lightning.channels
    BY DEF Families, Lightning, Single
  <2>2. \E i \in DOMAIN Lightning.batteries : Lightning.batteries[i] \in ModelOf(s).keys
    BY <1>5, ModelFields, SMTT(60) DEF Lightning, ModelOf, Catalogue
  <2>3. DOMAIN Lightning.numbers \cap ModelOf(s).post # {}
    <3>1. "lightning" \in ModelOf(s).post
      BY <1>5, ModelFields, SMTT(60) DEF ModelOf, Catalogue
    <3> QED
      BY <3>1 DEF Lightning
  <2> QED
    BY <1>1, <2>1, <2>2, <2>3
<1>6. CASE s.model = "WH45"
  <2>1. Co2 \in Families /\ 0 \in Co2.channels
    BY DEF Families, Co2, Single
  <2>2. \E i \in DOMAIN Co2.batteries : Co2.batteries[i] \in ModelOf(s).keys
    BY <1>6, ModelFields, SMTT(60) DEF Co2, ModelOf, Catalogue
  <2>3. DOMAIN Co2.numbers \cap ModelOf(s).post # {}
    <3>1. "co2" \in ModelOf(s).post
      BY <1>6, ModelFields, SMTT(60) DEF ModelOf, Catalogue
    <3> QED
      BY <3>1 DEF Co2
  <2> QED
    BY <1>1, <2>1, <2>2, <2>3
<1> QED
  BY <1>1, <1>2, <1>3, <1>4, <1>5, <1>6

\* The taxonomy knows its key.
LEMMA UnnumberedKind ==
    ASSUME NEW s \in Sensor, s.model \notin Numbered, NEW name \in ModelOf(s).keys
    PROVE  KindFor(<<name, s.channel>>) = {KindOf(s)}
<1>1. s.model \in DOMAIN Catalogue /\ s.model \notin Numbered /\ s.channel = 0
  BY StationAssumption
<1>2. \E row \in Taxonomy : name \in row.keys /\ 0 \in row.channels
  <2>1. name \in {"wh25batt", "wh26batt", "wh65batt", "wh40batt", "wh68batt", "wh80batt",
                  "wh85batt", "wh90batt", "ws90batt", "wh57batt", "co2_batt"}
    BY <1>1, CatalogueModels, ModelFields, SMTT(60) DEF ModelOf, Catalogue, Numbered
  <2> QED
    BY <2>1 DEF Taxonomy
<1>3. KindFor(<<name, s.channel>>) # {}
  BY <1>1, <1>2 DEF KindFor
<1> QED
  BY <1>3, TaxonomyIsTheTable

\* No family tries a key twice.
LEMMA KeysAreDistinct ==
    ASSUME NEW family \in Families,
           NEW i \in DOMAIN family.batteries, NEW j \in DOMAIN family.batteries,
           family.batteries[i] = family.batteries[j]
    PROVE  i = j /\ i \in Nat
  BY DEF Families, Outdoor, Indoor, Rain, NumberedTemp, SoilMoisture,
     SoilEc, LeafWetness, Leak, Pm25, Lightning, Co2

\* Without a shared device, the keys a family finds for it are the sensor's.
LEMMA OwnBattery ==
    ASSUME station \in Stations, NEW s \in station, OnItsOwn(s),
           NEW family \in Families, NEW i \in DOMAIN family.batteries,
           <<family.slug, s.channel>> \in DevicesOf(s),
           <<family.batteries[i], s.channel>> \in DOMAIN Form({})
    PROVE  /\ <<family.batteries[i], s.channel>> \in BatteryKeys(s)
           /\ Form({})[<<family.batteries[i], s.channel>>] = {battery[s]}
<1> DEFINE key == <<family.batteries[i], s.channel>>
<1>1. PICK t \in station : key \in BatteryKeys(t) /\ <<family.slug, s.channel>> \in DevicesOf(t)
  BY FormBatteryKey
<1>2. t = s
  BY <1>1 DEF OnItsOwn
<1>3. key \in BatteryKeys(s)
  BY <1>1, <1>2
<1>4. PICK r \in station : /\ key \in BatteryKeys(r)
                          /\ Form({})[key] = Text({}, r, "battery", battery[r])
  BY <1>3, FormBatteryText
<1>5. family.batteries[i] \in ModelOf(r).keys /\ r.channel = s.channel
  BY <1>4 DEF BatteryKeys
<1>6. <<family.slug, s.channel>> \in DevicesOf(r)
  BY <1>5, PairedIsSensor, BatteryMeansDevice DEF DevicesOf
<1>7. r = s
  BY <1>6 DEF OnItsOwn
<1> QED
  BY <1>3, <1>4, <1>7 DEF Text

\* A device named by an update shows one of the updates for it.
LEMMA ShowNamed ==
    ASSUME NEW updates, Show(updates), NEW u \in updates
    PROVE  /\ u.device \in DOMAIN shown'
           /\ shown'[u.device] \in updates
           /\ shown'[u.device].device = u.device
<1> DEFINE named == {v.device : v \in updates}
           chosen == CHOOSE v \in updates : v.device = u.device
<1>1. u.device \in named /\ chosen \in updates /\ chosen.device = u.device
  OBVIOUS
<1>2. u.device \in DOMAIN shown' /\ shown'[u.device] = chosen
  BY <1>1 DEF Show, Overlay
<1> QED
  BY <1>1, <1>2

LEMMA PostIsUpToDate ==
    ASSUME station \in Stations, NEW s \in station, s.model \notin Numbered, s.model # "WH85",
           OnItsOwn(s), Post({})
    PROVE  UpToDate(s)'
<1>1. PICK family \in Families : \E i \in DOMAIN family.batteries :
          /\ s.channel = 0 /\ 0 \in family.channels
          /\ family.batteries[i] \in ModelOf(s).keys
          /\ DOMAIN family.numbers \cap ModelOf(s).post # {}
  BY PairedIsSensor, UnnumberedFamily
<1>2. PICK i \in DOMAIN family.batteries :
          /\ s.channel = 0 /\ 0 \in family.channels
          /\ family.batteries[i] \in ModelOf(s).keys
          /\ DOMAIN family.numbers \cap ModelOf(s).post # {}
  BY <1>1
<1> DEFINE form == Form({})
           d == <<family.slug, 0>>
           keys == [j \in DOMAIN family.batteries |-> <<family.batteries[j], 0>>]
           found == Extract(form, family, 0)
           u == FormUpdate(family, 0, found)
<1>3. d \in DevicesOf(s)
  BY <1>2, PairedIsSensor, BatteryMeansDevice DEF DevicesOf
<1>4. keys[i] \in BatteryKeys(s) /\ keys[i] \in DOMAIN form
  <2>1. keys[i] = <<family.batteries[i], s.channel>>
    BY <1>2
  <2>2. keys[i] \in BatteryKeys(s)
    BY <1>2, <2>1 DEF BatteryKeys
  <2> HIDE DEF keys
  <2> QED
    BY <2>2, FormKeys
<1>5. form[keys[i]] = {battery[s]}
  <2>1. keys[i] = <<family.batteries[i], s.channel>>
    BY <1>2
  <2> QED
    BY <1>2, <1>3, <1>4, <2>1, OwnBattery
<1>6. {j \in DOMAIN keys : Parsed(form, keys[j]) # {}} = {i}
  <2>1. Parsed(form, keys[i]) # {}
    BY <1>4, <1>5 DEF Parsed
  <2>2. ASSUME NEW j \in DOMAIN keys, Parsed(form, keys[j]) # {}
        PROVE  j = i
    <3>1. <<family.batteries[j], 0>> \in DOMAIN form
      BY <2>2 DEF Parsed
    <3>2. <<family.batteries[j], 0>> \in BatteryKeys(s)
      BY <1>2, <1>3, <3>1, OwnBattery
    <3>3. family.batteries[j] = family.batteries[i]
      BY <1>2, <3>2, PairedIsSensor, NamesOfSensors DEF BatteryKeys, AtMostOne
    <3> QED
      BY <3>3, KeysAreDistinct
  <2> QED
    BY <2>1, <2>2
<1>7. FormBattery(form, keys) = Classify(battery[s], {KindOf(s)})
  <2>1. i \in Nat
    BY KeysAreDistinct
  <2>2. Earliest({i}) = {i} /\ Number({i}) = i
    <3>1. \A x \in {i} : x = i /\ i <= i
      BY <2>1
    <3>2. Earliest({i}) = {i}
      BY <3>1 DEF Earliest
    <3> QED
      BY <3>2, NumberOfOne
  <2>3. KindFor(keys[i]) = {KindOf(s)}
    BY <1>2, <1>4, PairedIsSensor, UnnumberedKind
  <2>4. Number(form[keys[i]]) = battery[s]
    BY <1>4, <1>5, NumberOfOne
  <2> HIDE DEF keys, form
  <2> QED
    BY <1>6, <2>2, <2>3, <2>4 DEF FormBattery
<1>8. FormBattery(form, keys).low = {IsLow(KindOf(s), battery[s])}
  <2> HIDE DEF form, keys
  <2>1. FormBattery(form, keys).low = {IsLow(k, battery[s]) : k \in {KindOf(s)}}
    BY <1>7 DEF Classify
  <2> QED
    BY <2>1
<1>9. MakesDevice(family, found)
  <2>1. PICK n \in DOMAIN family.numbers : n \in ModelOf(s).post
    BY <1>2
  <2>2. <<n, 0>> \in FieldsOf(s)
    BY <1>2, <2>1 DEF FieldsOf
  <2>3. <<n, 0>> \in DOMAIN form
    BY <2>2, FormKeys
  <2>4. form[<<n, 0>>] = {1}
    BY <2>2 DEF Form, Overlay, Text
  <2> QED
    BY <2>1, <2>3, <2>4 DEF MakesDevice, Extract, Parsed
<1>10. u \in ParseFormData(form)
  BY <1>2, <1>9 DEF ParseFormData, FamilyUpdates
<1>11. u.device = d /\ u.battery = FormBattery(form, keys)
  BY DEF FormUpdate, Update, Extract
<1> HIDE DEF u, form, d, keys, found
<1>12. Show(ParseFormData(form))
  BY DEF Post, form
<1>13. d \in DOMAIN shown' /\ shown'[d] \in ParseFormData(form) /\ shown'[d].device = u.device
  BY <1>10, <1>11, <1>12, ShowNamed
<1>14. shown'[d] = u
  BY <1>10, <1>13, OneUpdatePerDevice
<1>15. battery' = battery
  BY DEF Post
<1> QED
  BY <1>3, <1>8, <1>11, <1>13, <1>14, <1>15 DEF UpToDate, DevicesOf

\* A sensor on a channel has a section of livedata, and its kind of battery is
\* known there.
LEMMA NumberedSection ==
    ASSUME NEW s \in Sensor, s.model \in Numbered
    PROVE  /\ s.channel # 0
           /\ \E section \in ItemSections : section.key \in DOMAIN ModelOf(s).live
           /\ \A section \in ItemSections : section.key \in DOMAIN ModelOf(s).live =>
                 section.kinds # {} /\ UNION section.kinds # {}
<1>1. s.channel # 0
  BY StationAssumption
<1>2. \E x \in {"ch_aisle", "ch_temp", "ch_soil", "ch_leaf", "ch_leak", "ch_pm25", "ch_lds", "ch_ec"} :
         DOMAIN ModelOf(s).live = {x}
  <2>1. s.model = "WH31" => DOMAIN ModelOf(s).live = {"ch_aisle"}
    BY ModelFields, SMTT(60) DEF ModelOf, Catalogue
  <2>2. s.model = "WN34" => DOMAIN ModelOf(s).live = {"ch_temp"}
    BY ModelFields, SMTT(60) DEF ModelOf, Catalogue
  <2>3. s.model = "WH51" => DOMAIN ModelOf(s).live = {"ch_soil"}
    BY ModelFields, SMTT(60) DEF ModelOf, Catalogue
  <2>4. s.model = "WH52" => DOMAIN ModelOf(s).live = {"ch_ec"}
    BY ModelFields, SMTT(60) DEF ModelOf, Catalogue
  <2>5. s.model = "WN35" => DOMAIN ModelOf(s).live = {"ch_leaf"}
    BY ModelFields, SMTT(60) DEF ModelOf, Catalogue
  <2>6. s.model = "WH55" => DOMAIN ModelOf(s).live = {"ch_leak"}
    BY ModelFields, SMTT(60) DEF ModelOf, Catalogue
  <2>7. s.model = "WH41" => DOMAIN ModelOf(s).live = {"ch_pm25"}
    BY ModelFields, SMTT(60) DEF ModelOf, Catalogue
  <2>8. s.model = "LDS" => DOMAIN ModelOf(s).live = {"ch_lds"}
    BY ModelFields, SMTT(60) DEF ModelOf, Catalogue
  <2> QED
    BY <2>1, <2>2, <2>3, <2>4, <2>5, <2>6, <2>7, <2>8 DEF Numbered
<1>3. \E section \in ItemSections : section.key \in DOMAIN ModelOf(s).live
  <2>1. PICK x \in DOMAIN ModelOf(s).live : x \in {"ch_aisle", "ch_temp", "ch_soil", "ch_leaf",
                                                   "ch_leak", "ch_pm25", "ch_lds", "ch_ec"}
    BY <1>2
  <2>2. \E section \in ItemSections : section.key = x
    BY <2>1 DEF ItemSections, ItemSection, MultiChannel
  <2> QED
    BY <2>1, <2>2
<1>4. ASSUME NEW section \in ItemSections, section.key \in DOMAIN ModelOf(s).live
      PROVE  section.kinds # {} /\ UNION section.kinds # {}
  <2>1. section.key \in {"ch_aisle", "ch_temp", "ch_soil", "ch_leaf", "ch_leak",
                         "ch_pm25", "ch_lds", "ch_ec"}
    BY <1>2, <1>4
  <2>2. PICK slug \in {"aisle", "temp", "soil", "leaf", "leak", "pm25", "lds", "ec"} :
           section.kinds = {MultiChannelBatteryKind(slug)}
    BY <2>1 DEF ItemSections, ItemSection, MultiChannel
  <2>3. MultiChannelBatteryKind(slug) # {}
    BY <2>2 DEF MultiChannelBatteryKind
  <2> QED
    BY <2>2, <2>3
<1> QED
  BY <1>1, <1>3, <1>4

LEMMA AfterFirst ==
    ASSUME NEW S, NEW x \in S, NEW rest \in Seq(S), NEW k \in 1 .. Len(rest)
    PROVE  k + 1 \in DOMAIN (<<x>> \o rest) /\ (<<x>> \o rest)[k + 1] = rest[k]
<1>1. Len(<<x>> \o rest) = 1 + Len(rest) /\ <<x>> \o rest \in Seq(S)
  OBVIOUS
<1>2. DOMAIN (<<x>> \o rest) = 1 .. 1 + Len(rest)
  BY <1>1
<1> QED
  BY <1>2

\* A response has an item of each sensor in each of its sections.
LEMMA ResponseHasEach ==
    ASSUME station \in Stations, NEW unclear, NEW response \in Responses(unclear),
           NEW s \in station, NEW x \in DOMAIN ModelOf(s).live
    PROVE  \E i \in DOMAIN response : response[i] = Item(unclear, s, x)
<1>1. PICK order \in SetToSeqs(Places) :
          response = <<Clock>> \o [k \in DOMAIN order |-> Item(unclear, order[k][1], order[k][2])]
  BY DEF Responses
<1> DEFINE n == Cardinality(Places)
           items == [k \in 1 .. n |-> Item(unclear, order[k][1], order[k][2])]
           any == {Clock} \cup {Item(unclear, order[k][1], order[k][2]) : k \in 1 .. n}
<1>2. IsFiniteSet(Places) /\ n \in Nat
  BY PlacesFinite, FS_CardinalityType
<1>3. order \in [1 .. n -> Places] /\ \A i, j \in 1 .. n : i # j => order[i] # order[j]
  BY DEF SetToSeqs
<1>4. PICK k \in 1 .. n : order[k] = <<s, x>>
  <2>1. order \in Injection(1 .. n, Places)
    BY <1>3 DEF Injection, IsInjective
  <2>2. Cardinality(1 .. n) = n
    BY <1>2, FS_Interval
  <2>3. order \in Surjection(1 .. n, Places)
    BY <1>2, <2>1, <2>2, FS_Injection
  <2>4. <<s, x>> \in Places
    BY DEF Places
  <2> QED
    BY <2>3, <2>4 DEF Surjection
<1>5. response = <<Clock>> \o items
  BY <1>1, <1>3
<1>6. /\ Clock \in any /\ items \in Seq(any) /\ Len(items) = n
      /\ items[k] = Item(unclear, s, x)
  BY <1>2, <1>4
<1> HIDE DEF items, n, any
<1>7. k \in 1 .. Len(items)
  BY <1>4, <1>6
<1>8. k + 1 \in DOMAIN (<<Clock>> \o items) /\ (<<Clock>> \o items)[k + 1] = items[k]
  BY <1>6, <1>7, AfterFirst
<1> QED
  BY <1>5, <1>6, <1>8

LEMMA PollIsUpToDate ==
    ASSUME station \in Stations, NEW s \in station, s.model \in Numbered, ~BinaryPm25(s),
           OnItsOwn(s), Poll({})
    PROVE  UpToDate(s)'
<1>1. PICK response \in Responses({}) : Show(ParseLivedata(response))
  BY DEF Poll
<1>2. PICK section \in ItemSections : section.key \in DOMAIN ModelOf(s).live
  BY PairedIsSensor, NumberedSection
<1> DEFINE item == Item({}, s, section.key)
           u == ItemUpdate(item, section)
           d == <<section.slug, s.channel>>
<1>3. PICK i \in DOMAIN response : response[i] = item
  BY <1>2, ResponseHasEach
<1>4. u \in ParseLivedata(response)
  <2>1. section.key = response[i].section
    BY <1>3 DEF Item
  <2> QED
    <3> HIDE DEF item
    <3>1. item \in {response[k] : k \in DOMAIN response}
      BY <1>3
    <3>2. u \in {ItemUpdate(item, place) : place \in {p \in ItemSections : p.key = item.section}}
      BY <1>3, <2>1
    <3> QED
      BY <3>1, <3>2 DEF ParseLivedata
<1>5. u.device = d /\ d \in DevicesOf(s)
  BY <1>2, PairedIsSensor, SectionMeansDevice DEF ItemUpdate, Update, Item, DevicesOf
<1>6. ASSUME NEW v \in ParseLivedata(response), v.device = d
      PROVE  v.battery.low = {IsLow(KindOf(s), battery[s])}
  <2>1. \A slug : v.device # <<slug, 0>>
    BY <1>6, PairedIsSensor, NumberedSection
  <2>2. PICK j \in DOMAIN response : \E place \in ItemSections :
           place.key = response[j].section /\ v = ItemUpdate(response[j], place)
    BY <2>1, LivedataUpdates, RainBlock, OutdoorBlock
  <2>3. PICK place \in ItemSections :
           place.key = response[j].section /\ v = ItemUpdate(response[j], place)
    BY <2>2
  <2>4. response[j] # Clock
    BY <2>3 DEF Clock, ItemSections, ItemSection, MultiChannel
  <2>5. PICK t \in station : \E x \in DOMAIN ModelOf(t).live : response[j] = Item({}, t, x)
    BY <2>4, ResponseItems
  <2>6. /\ place.key \in DOMAIN ModelOf(t).live /\ v.device = <<place.slug, t.channel>>
        /\ response[j].battery = {{battery[t]}}
    BY <2>3, <2>5 DEF Item, ItemUpdate, Update, Text
  <2>7. v.device \in DevicesOf(t)
    BY <2>6, PairedIsSensor, SectionMeansDevice DEF DevicesOf
  <2>8. t = s
    BY <1>5, <1>6, <2>7 DEF OnItsOwn
  <2>9. place.kinds # {} /\ UNION place.kinds # {}
    BY <2>6, <2>8, PairedIsSensor, NumberedSection
  <2>10. UNION place.kinds = {KindOf(s)}
    <3>1. \A k \in UNION place.kinds : k = KindOf(s)
      BY <2>6, <2>8, PairedIsSensor, SectionIsTheTable
    <3> QED
      BY <2>9, <3>1
  <2>11. v.battery = Classify(battery[s], {KindOf(s)})
    <3>1. ParseValue(Number(response[j].battery)) = battery[s]
      <4>1. Number(response[j].battery) = {battery[s]}
        BY <2>6, <2>8, NumberOfOne
      <4>2. Number({battery[s]}) = battery[s]
        BY NumberOfOne
      <4> QED
        BY <4>1, <4>2 DEF ParseValue
    <3> QED
      BY <2>3, <2>6, <2>9, <2>10, <3>1 DEF ItemUpdate, Update
  <2>12. v.battery.low = {IsLow(k, battery[s]) : k \in {KindOf(s)}}
    BY <2>11 DEF Classify
  <2> QED
    BY <2>12
<1> HIDE DEF u, d
<1>7. d \in DOMAIN shown' /\ shown'[d] \in ParseLivedata(response) /\ shown'[d].device = d
  BY <1>1, <1>4, <1>5, ShowNamed
<1>8. shown'[d].battery.low = {IsLow(KindOf(s), battery[s])}
  BY <1>6, <1>7
<1>9. battery' = battery
  BY DEF Poll
<1> QED
  BY <1>5, <1>7, <1>8, <1>9 DEF UpToDate, DevicesOf

\* A readable message of the right path brings what homeCore shows of a battery
\* up to date, for any sensors paired and whatever was shown before; the
\* exceptions are those of the property.
THEOREM VerdictIsShownAtOnceHolds == Spec => VerdictIsShownAtOnce
<1> DEFINE Shown(s) ==
             /\ OnItsOwn(s) /\ ~BinaryPm25(s) /\ s.model # "WH85"
             /\ ~UpToDate(s)'
             => ~ReadBy(s)
<1>1. StationInv => [\A s \in station : Shown(s)]_vars
  BY PostIsUpToDate, PollIsUpToDate DEF StationInv, ReadBy
<1> QED
  BY <1>1, InitStation, StepStation, PTL DEF Spec, VerdictIsShownAtOnce

=============================================================================
