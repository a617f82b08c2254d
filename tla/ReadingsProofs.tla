--------------------------- MODULE ReadingsProofs ---------------------------
(* What the parsers give for every form and every livedata response: the     *)
(* types of attributes, the shape of a battery, one update per device of a   *)
(* form, and where a device and a verdict come from.                         *)
EXTENDS Readings, TLAPS

StringAttribute == {"datetime", "last_strike", "temperature_unit", "status", "battery_kind"}

\* The type the schema of homeCore gets to know for an attribute.
TypeOfAttribute(a) ==
    IF a = "battery_low" THEN "bool" ELSE IF a \in StringAttribute THEN "string" ELSE "float"

\* The two attributes the parsers disagree on have one of two types.
WellTyped(state) ==
    \A a \in DOMAIN state :
        /\ state[a] \in {"bool", "integer", "float", "string"}
        /\ a \notin {"strike_count", "datetime"} => state[a] = TypeOfAttribute(a)

\* At most one value, verdict and kind; a verdict exactly if there is a kind,
\* and none without a value.
WellFormed(battery) ==
    /\ AtMostOne(battery.raw) /\ AtMostOne(battery.low) /\ AtMostOne(battery.label)
    /\ battery.low = {} <=> battery.label = {}
    /\ battery.raw = {} => battery.low = {}

-----------------------------------------------------------------------------
(* Helpers.                                                                  *)

LEMMA OverlayDomain ==
    ASSUME NEW f, NEW g
    PROVE  DOMAIN Overlay(f, g) = DOMAIN f \cup DOMAIN g
  BY DEF Overlay

LEMMA OverlayValue ==
    ASSUME NEW f, NEW g, NEW x \in DOMAIN Overlay(f, g)
    PROVE  Overlay(f, g)[x] = IF x \in DOMAIN f THEN f[x] ELSE g[x]
  BY DEF Overlay

LEMMA NumberOfOne == ASSUME NEW n PROVE Number({n}) = n
  BY DEF Number

\* The taxonomy gives a key one kind at most.
LEMMA OneKind ==
    ASSUME NEW key
    PROVE  AtMostOne(KindFor(key))
  BY DEF AtMostOne, KindFor, Taxonomy

LEMMA ClassifyWellFormed ==
    ASSUME NEW raw, NEW kinds, AtMostOne(kinds)
    PROVE  WellFormed(Classify(raw, kinds))
  BY DEF AtMostOne, WellFormed, Classify

LEMMA NoBatteryWellFormed == WellFormed(NoBattery)
  BY DEF AtMostOne, WellFormed, NoBattery

-----------------------------------------------------------------------------
(* Where updates come from.                                                  *)

\* An update of a form is made by one family on one channel.
LEMMA FormUpdates ==
    ASSUME NEW form, NEW u \in ParseFormData(form)
    PROVE  \E family \in Families : \E ch \in family.channels :
               LET found == Extract(form, family, ch)
               IN  MakesDevice(family, found) /\ u = FormUpdate(family, ch, found)
  BY DEF ParseFormData, FamilyUpdates

\* An update of livedata comes from a block or from an item.
LEMMA LivedataUpdates ==
    ASSUME NEW response, NEW u \in ParseLivedata(response)
    PROVE  \/ u \in Merged(ItemsOf(response, "common_list"), CommonList,
                          CommonListBattery(ItemsOf(response, "common_list")))
           \/ \E section \in {RainSection("rain", "rain"), RainSection("piezoRain", "piezo_rain")} :
                 LET items == ItemsOf(response, section.key)
                 IN  u \in Merged(items, section, RainBattery(items, section))
           \/ \E i \in DOMAIN response : \E section \in ItemSections :
                 /\ section.key = response[i].section
                 /\ u = ItemUpdate(response[i], section)
  BY DEF ParseLivedata, RainSection

-----------------------------------------------------------------------------
(* Types of attributes.                                                      *)

LEMMA OverlayWellTyped ==
    ASSUME NEW f, NEW g, WellTyped(f), WellTyped(g)
    PROVE  WellTyped(Overlay(f, g))
<1> SUFFICES ASSUME NEW a \in DOMAIN Overlay(f, g)
             PROVE  /\ Overlay(f, g)[a] \in {"bool", "integer", "float", "string"}
                    /\ a \notin {"strike_count", "datetime"} =>
                         Overlay(f, g)[a] = TypeOfAttribute(a)
  BY DEF WellTyped
<1>1. a \in DOMAIN f \/ a \in DOMAIN g
  BY DEF Overlay
<1>2. Overlay(f, g)[a] = IF a \in DOMAIN f THEN f[a] ELSE g[a]
  BY DEF Overlay
<1> QED
  BY <1>1, <1>2 DEF WellTyped

LEMMA BatteryWellTyped ==
    ASSUME NEW battery
    PROVE  WellTyped(BatteryState(battery))
<1>1. WellTyped(OfType("float", {"battery" : r \in battery.raw}))
  BY DEF OfType, WellTyped, TypeOfAttribute, StringAttribute
<1>2. WellTyped(OfType("bool", {"battery_low" : l \in battery.low}))
  BY DEF OfType, WellTyped, TypeOfAttribute, StringAttribute
<1>3. WellTyped(OfType("string", {"battery_kind" : k \in battery.label}))
  BY DEF OfType, WellTyped, TypeOfAttribute, StringAttribute
<1> QED
  BY <1>1, <1>2, <1>3, OverlayWellTyped DEF BatteryState

LEMMA UpdateWellTyped ==
    ASSUME NEW device, NEW state, NEW battery, WellTyped(state)
    PROVE  WellTyped(Update(device, state, battery).state)
  BY BatteryWellTyped, OverlayWellTyped DEF Update

LEMMA FamilyAttributes ==
    ASSUME NEW family \in Families
    PROVE  /\ \A n \in DOMAIN family.numbers :
                 family.numbers[n] \notin StringAttribute \cup {"battery_low"}
           /\ \A n \in DOMAIN family.texts : family.texts[n] \in StringAttribute
  BY DEF Families, Outdoor, Indoor, Rain, NumberedTemp, SoilMoisture, SoilEc, LeafWetness,
         Leak, Pm25, Lightning, Co2, StringAttribute

LEMMA FormWellTyped ==
    ASSUME NEW form, NEW u \in ParseFormData(form)
    PROVE  WellTyped(u.state)
<1>1. PICK family \in Families : \E ch \in family.channels :
          u = FormUpdate(family, ch, Extract(form, family, ch))
  BY FormUpdates
<1>6. PICK ch \in family.channels : u = FormUpdate(family, ch, Extract(form, family, ch))
  BY <1>1
<1> DEFINE found == Extract(form, family, ch)
           numbers == {family.numbers[n] : n \in found.numbers}
           texts == {family.texts[n] : n \in found.texts} \cup {"temperature_unit" : n \in found.unit}
<1>2. found.numbers \subseteq DOMAIN family.numbers /\ found.texts \subseteq DOMAIN family.texts
  BY DEF Extract
<1>3. WellTyped(OfType("float", numbers))
  <2>1. \A a \in numbers : a \notin StringAttribute \cup {"battery_low"}
    BY <1>2, FamilyAttributes
  <2> QED
    BY <2>1 DEF OfType, WellTyped, TypeOfAttribute
<1>4. WellTyped(OfType("string", texts))
  <2>1. \A a \in texts : a \in StringAttribute
    BY <1>2, FamilyAttributes DEF StringAttribute
  <2> QED
    BY <2>1 DEF OfType, WellTyped, TypeOfAttribute, StringAttribute
<1>5. WellTyped(Overlay(OfType("float", numbers), OfType("string", texts)))
  BY <1>3, <1>4, OverlayWellTyped
<1> QED
  BY <1>5, <1>6, UpdateWellTyped DEF FormUpdate

LEMMA SectionAttributes ==
    /\ \A section \in {CommonList, RainSection("rain", "rain"),
                       RainSection("piezoRain", "piezo_rain")} :
          \A f \in DOMAIN section.numbers :
              section.numbers[f] \notin (StringAttribute \ {"datetime"}) \cup {"battery_low"}
    /\ \A section \in ItemSections : \A f \in DOMAIN section.numbers :
          section.numbers[f] \notin StringAttribute \cup {"battery_low"}
    /\ \A f \in DOMAIN TextFields : TextFields[f] \in StringAttribute
<1>1. \A section \in {CommonList, RainSection("rain", "rain"),
                     RainSection("piezoRain", "piezo_rain")} :
        \A f \in DOMAIN section.numbers :
            section.numbers[f] \notin (StringAttribute \ {"datetime"}) \cup {"battery_low"}
  BY DEF CommonList, RainSection, StringAttribute
<1>2. \A f \in DOMAIN ChannelFields : ChannelFields[f] \notin StringAttribute \cup {"battery_low"}
  BY DEF ChannelFields, StringAttribute
<1>3. \A section \in ItemSections : \A f \in DOMAIN section.numbers :
          section.numbers[f] \notin StringAttribute \cup {"battery_low"}
  BY <1>2 DEF ItemSections, ItemSection, MultiChannel, StringAttribute
<1>4. \A f \in DOMAIN TextFields : TextFields[f] \in StringAttribute
  BY DEF TextFields, StringAttribute
<1> QED
  BY <1>1, <1>3, <1>4

LEMMA MergedWellTyped ==
    ASSUME NEW items, NEW section, NEW battery, NEW u \in Merged(items, section, battery),
           \A f \in DOMAIN section.numbers :
              section.numbers[f] \notin (StringAttribute \ {"datetime"}) \cup {"battery_low"}
    PROVE  WellTyped(u.state)
<1> DEFINE names == UNION {Attributes(items[i], section) : i \in DOMAIN items}
<1>1. u = Update(<<section.slug, 0>>, OfType("float", names), battery)
  BY DEF Merged
<1>2. \A a \in names : a \notin (StringAttribute \ {"datetime"}) \cup {"battery_low"}
  BY DEF Attributes
<1>3. WellTyped(OfType("float", names))
  BY <1>2 DEF OfType, WellTyped, TypeOfAttribute
<1> QED
  BY <1>1, <1>3, UpdateWellTyped

LEMMA ItemWellTyped ==
    ASSUME NEW item, NEW section \in ItemSections
    PROVE  WellTyped(ItemUpdate(item, section).state)
<1> DEFINE numbers == Attributes(item, section)
           texts == {TextFields[f] : f \in DOMAIN item.values \cap DOMAIN TextFields}
<1>1. WellTyped(NumberTypes(numbers))
  <2>1. \A a \in numbers : a \notin StringAttribute \cup {"battery_low"}
    BY SectionAttributes DEF Attributes
  <2> QED
    BY <2>1 DEF NumberTypes, WellTyped, TypeOfAttribute
<1>2. WellTyped(OfType("string", texts))
  <2>1. \A a \in texts : a \in StringAttribute
    BY SectionAttributes
  <2> QED
    BY <2>1 DEF OfType, WellTyped, TypeOfAttribute, StringAttribute
<1>3. WellTyped(Overlay(NumberTypes(numbers), OfType("string", texts)))
  BY <1>1, <1>2, OverlayWellTyped
<1> QED
  BY <1>3, UpdateWellTyped DEF ItemUpdate

LEMMA LivedataWellTyped ==
    ASSUME NEW response, NEW u \in ParseLivedata(response)
    PROVE  WellTyped(u.state)
  BY LivedataUpdates, MergedWellTyped, ItemWellTyped, SectionAttributes

\* Whichever messages two updates come from, POSTed or polled, they give an
\* attribute they share the same JSON type, unless it is the strike count (a
\* float and an integer) or the clock (a string and a float).
THEOREM PathsAgreeOnTypes ==
    ASSUME NEW form, NEW response, NEW otherForm, NEW otherResponse,
           NEW u \in ParseFormData(form) \cup ParseLivedata(response),
           NEW v \in ParseFormData(otherForm) \cup ParseLivedata(otherResponse),
           NEW a \in (DOMAIN u.state \cap DOMAIN v.state) \ {"strike_count", "datetime"}
    PROVE  u.state[a] = v.state[a]
<1>1. WellTyped(u.state) /\ WellTyped(v.state)
  BY FormWellTyped, LivedataWellTyped
<1> QED
  BY <1>1 DEF WellTyped

-----------------------------------------------------------------------------
(* Batteries.                                                                *)

LEMMA FormBatteryWellFormed ==
    ASSUME NEW form, NEW keys
    PROVE  WellFormed(FormBattery(form, keys))
  BY OneKind, ClassifyWellFormed, NoBatteryWellFormed DEF FormBattery

LEMMA FormWellFormed ==
    ASSUME NEW form, NEW u \in ParseFormData(form)
    PROVE  WellFormed(u.battery)
<1>1. PICK family \in Families : \E ch \in family.channels :
          u = FormUpdate(family, ch, Extract(form, family, ch))
  BY FormUpdates
<1>2. PICK ch \in family.channels : u = FormUpdate(family, ch, Extract(form, family, ch))
  BY <1>1
<1>3. u.battery = Extract(form, family, ch).battery
  BY <1>2 DEF FormUpdate, Update
<1> QED
  BY <1>3, FormBatteryWellFormed DEF Extract

\* A section has one kind of battery at most.
LEMMA OneKindPerSection ==
    ASSUME NEW section \in ItemSections
    PROVE  AtMostOne(UNION section.kinds)
  BY DEF AtMostOne, ItemSections, ItemSection, MultiChannel, MultiChannelBatteryKind,
         Binary, Voltage, Level

LEMMA LivedataWellFormed ==
    ASSUME NEW response, NEW u \in ParseLivedata(response)
    PROVE  WellFormed(u.battery)
<1>1. \A raw : WellFormed(Classify(raw, {}))
  BY ClassifyWellFormed DEF AtMostOne
<1>2. \A items : WellFormed(CommonListBattery(items))
  BY <1>1, NoBatteryWellFormed DEF CommonListBattery
<1>3. \A items, section : WellFormed(RainBattery(items, section))
  BY <1>1, NoBatteryWellFormed DEF RainBattery
<1>4. \A item : \A section \in ItemSections : WellFormed(ItemUpdate(item, section).battery)
  BY OneKindPerSection, ClassifyWellFormed, NoBatteryWellFormed DEF ItemUpdate, Update
<1>5. \A items, section, battery : \A v \in Merged(items, section, battery) : v.battery = battery
  BY DEF Merged, Update
<1> QED
  BY LivedataUpdates, <1>2, <1>3, <1>4, <1>5

-----------------------------------------------------------------------------
(* Devices of a form.                                                        *)

LEMMA FamilyIsItsSlug ==
    ASSUME NEW f \in Families, NEW g \in Families, f.slug = g.slug
    PROVE  f = g
<1>1. /\ Outdoor.slug = "weather" /\ Indoor.slug = "indoor" /\ Rain.slug = "rain"
      /\ NumberedTemp.slug = "temp" /\ SoilMoisture.slug = "soil" /\ SoilEc.slug = "ec"
      /\ LeafWetness.slug = "leaf" /\ Leak.slug = "leak" /\ Pm25.slug = "pm25"
      /\ Lightning.slug = "lightning" /\ Co2.slug = "co2"
  BY DEF Outdoor, Indoor, Rain, NumberedTemp, SoilMoisture, SoilEc, LeafWetness,
         Leak, Pm25, Lightning, Co2
<1> QED
  BY <1>1 DEF Families

\* parse_form_data: the updates of one form are of different devices, so the
\* order in which they are published does not matter.
THEOREM OneUpdatePerDevice ==
    ASSUME NEW form, NEW u \in ParseFormData(form), NEW v \in ParseFormData(form),
           u.device = v.device
    PROVE  u = v
<1>1. PICK f \in Families : \E ch \in f.channels : u = FormUpdate(f, ch, Extract(form, f, ch))
  BY FormUpdates
<1>2. PICK c \in f.channels : u = FormUpdate(f, c, Extract(form, f, c))
  BY <1>1
<1>3. PICK g \in Families : \E ch \in g.channels : v = FormUpdate(g, ch, Extract(form, g, ch))
  BY FormUpdates
<1>4. PICK d \in g.channels : v = FormUpdate(g, d, Extract(form, g, d))
  BY <1>3
<1>5. <<f.slug, c>> = <<g.slug, d>>
  BY <1>2, <1>4 DEF FormUpdate, Update
<1>6. f.slug = g.slug /\ c = d
  BY <1>5
<1>7. f = g
  BY <1>6, FamilyIsItsSlug
<1> QED
  BY <1>2, <1>4, <1>6, <1>7

-----------------------------------------------------------------------------
(* What an update tells of the form it was made from.                        *)

\* The names a family looks for.
Fields(family) == DOMAIN family.numbers \cup DOMAIN family.texts \cup family.unit

LEMMA FormBatteryFound ==
    ASSUME NEW form, NEW keys
    PROVE  /\ FormBattery(form, keys).raw # {} =>
                 \E i \in DOMAIN keys : keys[i] \in DOMAIN form
           /\ \A low \in FormBattery(form, keys).low :
                 \E i \in DOMAIN keys :
                     /\ keys[i] \in DOMAIN form /\ form[keys[i]] # {}
                     /\ \E k \in KindFor(keys[i]) : low = IsLow(k, Number(form[keys[i]]))
<1> DEFINE readable == Earliest({i \in DOMAIN keys : Parsed(form, keys[i]) # {}})
           first == Number(readable)
<1>1. CASE readable = {}
  BY <1>1 DEF FormBattery, NoBattery
<1>2. CASE readable # {}
  <2>1. first \in readable
    BY <1>2 DEF Number
  <2>2. first \in DOMAIN keys /\ keys[first] \in DOMAIN form /\ form[keys[first]] # {}
    BY <2>1 DEF Earliest, Parsed
  <2>3. FormBattery(form, keys) = Classify(Number(form[keys[first]]), KindFor(keys[first]))
    BY <1>2 DEF FormBattery
  <2>4. FormBattery(form, keys).low = {IsLow(k, Number(form[keys[first]])) : k \in KindFor(keys[first])}
    BY <2>3 DEF Classify
  <2> HIDE DEF first
  <2> QED
    BY <2>2, <2>4
<1> QED
  BY <1>1, <1>2

\* A device is made from a field of its family that is in the form, or from one
\* of its batteries; a verdict from a battery that can be read.
LEMMA FormUpdateFound ==
    ASSUME NEW form, NEW u \in ParseFormData(form)
    PROVE  \E family \in Families : \E ch \in family.channels :
              /\ u.device = <<family.slug, ch>>
              /\ \/ \E n \in Fields(family) : <<n, ch>> \in DOMAIN form
                 \/ \E i \in DOMAIN family.batteries : <<family.batteries[i], ch>> \in DOMAIN form
              /\ \A low \in u.battery.low : \E i \in DOMAIN family.batteries :
                    LET key == <<family.batteries[i], ch>>
                    IN  /\ key \in DOMAIN form /\ form[key] # {}
                        /\ \E k \in KindFor(key) : low = IsLow(k, Number(form[key]))
<1>1. PICK family \in Families : \E ch \in family.channels :
          LET found == Extract(form, family, ch)
          IN  MakesDevice(family, found) /\ u = FormUpdate(family, ch, found)
  BY FormUpdates
<1>2. PICK ch \in family.channels :
          LET found == Extract(form, family, ch)
          IN  MakesDevice(family, found) /\ u = FormUpdate(family, ch, found)
  BY <1>1
<1> DEFINE found == Extract(form, family, ch)
           keys == [i \in DOMAIN family.batteries |-> <<family.batteries[i], ch>>]
<1>3. u.device = <<family.slug, ch>> /\ u.battery = FormBattery(form, keys)
  BY <1>2 DEF FormUpdate, Update, Extract
<1>4. DOMAIN keys = DOMAIN family.batteries
      /\ \A i \in DOMAIN keys : keys[i] = <<family.batteries[i], ch>>
  OBVIOUS
<1>5. \A low \in u.battery.low : \E i \in DOMAIN family.batteries :
         LET key == <<family.batteries[i], ch>>
         IN  /\ key \in DOMAIN form /\ form[key] # {}
             /\ \E k \in KindFor(key) : low = IsLow(k, Number(form[key]))
  <2> SUFFICES ASSUME NEW low \in u.battery.low
               PROVE  \E i \in DOMAIN family.batteries :
                         LET key == <<family.batteries[i], ch>>
                         IN  /\ key \in DOMAIN form /\ form[key] # {}
                             /\ \E k \in KindFor(key) : low = IsLow(k, Number(form[key]))
    OBVIOUS
  <2>1. PICK i \in DOMAIN keys :
           /\ keys[i] \in DOMAIN form /\ form[keys[i]] # {}
           /\ \E k \in KindFor(keys[i]) : low = IsLow(k, Number(form[keys[i]]))
    <3> HIDE DEF keys
    <3> QED
      BY <1>3, FormBatteryFound
  <2> QED
    BY <1>4, <2>1
<1>6. \/ \E n \in Fields(family) : <<n, ch>> \in DOMAIN form
      \/ \E i \in DOMAIN family.batteries : <<family.batteries[i], ch>> \in DOMAIN form
  <2>1. CASE found.battery.raw # {}
    <3>1. FormBattery(form, keys).raw # {}
      BY <2>1 DEF Extract
    <3>2. \E i \in DOMAIN keys : keys[i] \in DOMAIN form
      <4> HIDE DEF keys
      <4> QED
        BY <3>1, FormBatteryFound
    <3> QED
      BY <1>4, <3>2
  <2>2. CASE found.battery.raw = {}
    <3>1. found.numbers # {} \/ found.texts # {} \/ found.unit # {}
      BY <1>2, <2>2 DEF MakesDevice
    <3> QED
      BY <3>1 DEF Fields, Extract, Parsed
  <2> QED
    BY <2>1, <2>2
<1> QED
  BY <1>3, <1>5, <1>6

=============================================================================
