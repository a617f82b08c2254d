-------------------------- MODULE MCDeviceRegistry --------------------------
(* Instances of DeviceRegistry for TLC.  The batches are what the parsers    *)
(* make of POSTed forms and livedata responses with a lightning and a soil   *)
(* sensor.                                                                   *)
EXTENDS DeviceRegistry, SequencesExt

Parser == INSTANCE Readings

Named(update) == [device |-> update.device, names |-> DOMAIN update.state]

\* parse_form_data looks for soil sensors before it looks for lightning.
FormBatch(form) ==
    LET soilFirst(u, v) == u.device[1] = "soil" /\ v.device[1] # "soil"
        updates == SetToSortSeq(Parser!ParseFormData(form), soilFirst)
    IN  [i \in DOMAIN updates |-> Named(updates[i])]

\* parse_livedata has a device per item of these sections, lightning first.
LivedataBatch(response) ==
    FlattenSeq([i \in DOMAIN response |->
                  SetToSeq({Named(u) : u \in Parser!ParseLivedata(<<response[i]>>)})])

\* The lightning sensor POSTed alone, without its battery, and with it beside a
\* soil sensor of which only the battery is readable.
strikes == <<"lightning_num", 0>> :> {40}
strikesSoilAndBatteries == strikes @@ <<"wh57batt", 0>> :> {50}
                           @@ <<"soilmoisture", 1>> :> {} @@ <<"soilbatt", 1>> :> {15}

Item(section, channel, values, battery) ==
    [section |-> section, channel |-> channel, values |-> values, battery |-> battery]

\* Livedata items of which nothing, the count, or the battery can be read.
unreadable == Item("lightning", 0, <<>>, {})
counted == Item("lightning", 0, [count |-> {40}], {})
soil == Item("ch_soil", 1, <<>>, {{15}})

MCDevice == {<<"lightning", 0>>, <<"soil", 1>>}
MCAttribute == {"strike_count", "battery", "battery_low", "battery_kind"}

\* A gateway that gains and loses sensors and a battery field; a poll names the
\* lightning sensor twice.
MCReports == {FormBatch(strikes), FormBatch(strikesSoilAndBatteries)}
MCPolls == {LivedataBatch(<<unreadable, counted, soil>>)}

OnePoll == {LivedataBatch(<<counted>>)}

\* One device with one attribute, which a poll may name twice.  The batches are
\* written out, as checking liveness evaluates them over and over.
OneDevice == {<<"lightning", 0>>}
OneAttribute == {"strike_count"}
LightningReport == <<[device |-> <<"lightning", 0>>, names |-> {"strike_count"}]>>
LightningPoll == <<[device |-> <<"lightning", 0>>, names |-> {}],
                   [device |-> <<"lightning", 0>>, names |-> {"strike_count"}]>>
LightningReports == {LightningReport}
LightningPolls == {LightningPoll}

ASSUME LightningBatchesAreParsed ==
    /\ LightningReport = FormBatch(strikes)
    /\ LightningPoll = LivedataBatch(<<unreadable, counted>>)

=============================================================================
