---------------------------- MODULE AsciiProtocol ----------------------------
(***************************************************************************)
(* The lines airs exchanges with the general-control, file and database    *)
(* servers: a type and pairs of keyword and value.  One table holds what   *)
(* the Compact functions write, another what the resolve functions read,   *)
(* a third what the constructors preset.                                   *)
(*                                                                         *)
(* A value stands for its class.  Texts: "" , "word", "dotted" (ends with  *)
(* a full stop), "listed" (holds a comma).  Numbers: themselves, "fine" (a *)
(* real with more than six digits) and "rounded" (that real as             *)
(* boost::format prints it).                                               *)
(***************************************************************************)
EXTENDS Sequences, FiniteSets, FiniteSetsExt, SequencesExt, TLC

CONSTANTS MaxSet  \* how many fields of a message differ from the presets

VARIABLES sent,  \* the message composed
          line,  \* the line it became
          got    \* what Resolve made of the line

apVars == <<sent, line, got>>

valid_ra(v) == v \in {"0", "1", "40", "180", "fine", "rounded"}
valid_dec(v) == v \in {"0", "1", "40", "fine", "rounded"}

\* What the constructors preset.
PresetSite ==
    [register |-> << >>, start |-> << >>, stop |-> << >>, load_plan |-> << >>,
     abort_plan |-> [plan_sn |-> ""],
     obsite |-> [sitename |-> "", longitude |-> "0", latitude |-> "0",
                 altitude |-> "0", timezone |-> "8"]]

PresetMount ==
    [home_sync |-> [ra |-> "1e30", dec |-> "1e30"],
     slewto |-> [coorsys |-> "1", coor1 |-> "180", coor2 |-> "40"],
     track |-> [objid |-> "", line1 |-> "", line2 |-> ""],
     park |-> << >>, abort_slew |-> << >>,
     guide |-> [ra |-> "1e30", dec |-> "1e30", objra |-> "1e30", objdec |-> "1e30"],
     mount |-> [state |-> "0", errcode |-> "INT_MIN", ra |-> "1e30", dec |-> "1e30",
                azi |-> "1e30", alt |-> "1e30"]]

PresetCamera ==
    [take_image |-> [objname |-> "", imgtype |-> "", expdur |-> "0", frmcnt |-> "0"],
     abort_image |-> << >>, expose |-> [command |-> "0"],
     object |-> [plan_type |-> "0", plan_sn |-> "", objname |-> "", btime |-> "",
                 etime |-> "", objra |-> "-1000", objdec |-> "-1000", imgtype |-> "",
                 sabbr |-> "", iimgtyp |-> "IMGTYPE_ERROR", expdur |-> "0",
                 frmcnt |-> "-1"],
     camera |-> [state |-> "CAMCTL_ERROR", errcode |-> "INT_MIN", coolget |-> "0"]]

PresetDevice ==
    [fwhm |-> [value |-> "0"], focus |-> [state |-> "INT_MIN", value |-> "INT_MIN"],
     slit |-> [state |-> "INT_MIN", command |-> "INT_MIN", enable |-> "-1"],
     rain |-> [value |-> "0"],
     fileinfo |-> [tmobs |-> "", subpath |-> "", filename |-> "",
                   filesize |-> "INT_MIN"],
     filestat |-> [status |-> "INT_MIN"]]

Preset == PresetSite @@ PresetMount @@ PresetCamera @@ PresetDevice
Type == DOMAIN Preset

\* The keywords the Compact functions write, in their order.
WriteSite ==
    [register |-> << >>, start |-> << >>, stop |-> << >>, load_plan |-> << >>,
     abort_plan |-> <<"plan_sn">>,
     obsite |-> <<"sitename", "longitude", "latitude", "altitude", "timezone">>]

WriteMount ==
    [home_sync |-> <<"ra", "dec">>, slewto |-> <<"coorsys", "coor1", "coor2">>,
     track |-> <<"objid", "line1", "line2">>, park |-> << >>, abort_slew |-> << >>,
     guide |-> <<"ra", "dec", "objra", "objdec">>,
     mount |-> <<"state", "errcode", "ra", "dec", "azi", "alt">>]

WriteDevice ==
    [fwhm |-> <<"value">>, focus |-> <<"value">>,
     slit |-> <<"state", "command", "enable">>, rain |-> <<"value">>]

WriteCamera ==
    [take_image |-> <<"objname", "imgtype", "expdur", "frmcnt">>, abort_image |-> << >>,
     object |-> <<"plan_type", "plan_sn", "objname", "btime", "etime", "objra", "objdec",
                  "imgtype", "sabbr", "iimgtyp", "expdur", "frmcnt">>,
     expose |-> <<"command">>, camera |-> <<"state", "errcode", "coolget">>,
     fileinfo |-> <<"tmobs", "subpath", "filename", "filesize">>,
     filestat |-> <<"status">>]

Writes == WriteSite @@ WriteMount @@ WriteDevice @@ WriteCamera

\* The keywords the resolve functions read and how they convert the text.
ReadSite ==
    [register |-> << >>, start |-> << >>, stop |-> << >>, load_plan |-> << >>,
     abort_plan |-> [plan_sn |-> "str"],
     obsite |-> [sitename |-> "str", longitude |-> "stod", latitude |-> "stod",
                 altitude |-> "stod", timezone |-> "stoi"]]

\* Mutant: resolve_slewto asks for "coor1" twice.
ReadMount_Coor1Twice ==
    [home_sync |-> [ra |-> "stod", dec |-> "stod"],
     slewto |-> [coorsys |-> "stoi", coor1 |-> "stod"],
     track |-> [objid |-> "str", line1 |-> "str", line2 |-> "str"],
     park |-> << >>, abort_slew |-> << >>,
     guide |-> [ra |-> "stod", dec |-> "stod", objra |-> "stod", objdec |-> "stod"],
     mount |-> [state |-> "stoi", errcode |-> "stoi", ra |-> "stod", dec |-> "stod",
                azi |-> "stod", alt |-> "stod"]]

ReadMount ==
    [home_sync |-> [ra |-> "stod", dec |-> "stod"],
     slewto |-> [coorsys |-> "stoi", coor1 |-> "stod", coor2 |-> "stod"],
     track |-> [objid |-> "str", line1 |-> "str", line2 |-> "str"],
     park |-> << >>, abort_slew |-> << >>,
     guide |-> [ra |-> "stod", dec |-> "stod", objra |-> "stod", objdec |-> "stod"],
     mount |-> [state |-> "stoi", errcode |-> "stoi", ra |-> "stod", dec |-> "stod",
                azi |-> "stod", alt |-> "stod"]]

ReadDevice ==
    [fwhm |-> [value |-> "stod"], focus |-> [state |-> "stoi", value |-> "stoi"],
     slit |-> [state |-> "stoi", command |-> "stoi", enable |-> "stoi"],
     rain |-> [value |-> "stoi"]]

\* resolve_object assigns a comparison to ch, so the branch for keywords that begin
\* with "p" is never taken: plan_sn and plan_type are not read.
ReadCamera ==
    [take_image |-> [objname |-> "str", imgtype |-> "str", expdur |-> "stod",
                     frmcnt |-> "stoi"],
     abort_image |-> << >>, expose |-> [command |-> "stoi"],
     object |-> [objname |-> "str", btime |-> "str", etime |-> "str", objra |-> "stod",
                 objdec |-> "stod", imgtype |-> "str", sabbr |-> "str",
                 iimgtyp |-> "stoi", expdur |-> "stod", frmcnt |-> "stoi"],
     camera |-> [state |-> "stoi", errcode |-> "stoi", coolget |-> "stod"],
     fileinfo |-> [tmobs |-> "str", subpath |-> "str", filename |-> "str",
                   filesize |-> "stoi"],
     filestat |-> [status |-> "stoi"]]

Reads == ReadSite @@ ReadMount @@ ReadDevice @@ ReadCamera
-----------------------------------------------------------------------------
\* A message the Compact functions answer with NULL.
Refused(m) ==
    /\ ~m.bare
    /\ \/ m.type \in {"home_sync", "guide"} /\ ~(valid_ra(m.val.ra) /\ valid_dec(m.val.dec))
       \/ m.type = "focus" /\ m.val.value = "INT_MIN"
       \/ m.type = "object" /\ m.val.plan_sn = ""

\* A keyword left out because its value says nothing.  The target of a guide
\* message makes its ra and dec a position instead of an offset: it needs both.
Omitted(m, k) ==
    \/ m.type = "guide" /\ k \in {"objra", "objdec"}
       /\ (m.bare \/ ~(valid_ra(m.val.objra) /\ valid_dec(m.val.objdec)))
    \/ m.type = "object" /\ k = "objra" /\ ~valid_ra(m.val.objra)
    \/ m.type = "object" /\ k = "objdec" /\ ~valid_dec(m.val.objdec)
    \/ m.type = "slit" /\ k \in {"state", "command"} /\ m.val[k] = "INT_MIN"
    \/ m.type = "slit" /\ k = "enable" /\ (m.bare \/ m.val[k] \notin {"0", "1"})

\* join_kv: six digits of a real.
Printed(v) == IF v = "fine" THEN "rounded" ELSE v

IdKey == <<"gid", "uid", "cid">>

\* compact_base: the time tag, then the three identities that are not empty.
compact_base(m) ==
    IF m.bare THEN << >>
    ELSE <<<<"utc", "now">>>> \o
         SelectSeq([i \in 1 .. 3 |-> <<IdKey[i], m.ids[i]>>], LAMBDA p : p[2] # "")

\* output_compacted trims the punctuation at the end of the line: the comma after
\* the last pair, and what its value ends with.
output_compacted(pairs) ==
    IF pairs = << >> THEN pairs
    ELSE [pairs EXCEPT ![Len(pairs)][2] = IF @ = "dotted" THEN "word" ELSE @]

Compact(m) ==
    LET own == SelectSeq(Writes[m.type], LAMBDA k : ~Omitted(m, k))
    IN  output_compacted(compact_base(m) \o
                         [i \in 1 .. Len(own) |-> <<own[i], Printed(m.val[own[i]])>>])

\* resolve_kv: a value with a comma ends at the comma, the rest is a pair without
\* a value; a pair without a value is passed over.
resolve_kv_array(pairs) ==
    SelectSeq([i \in 1 .. Len(pairs) |->
                 <<pairs[i][1], IF pairs[i][2] = "listed" THEN "word" ELSE pairs[i][2]>>],
              LAMBDA p : p[2] # "")

\* stoi and stod throw on a text that does not begin with a number.
Throws(type, kvs) ==
    \E i \in 1 .. Len(kvs) : /\ kvs[i][1] \in DOMAIN Reads[type]
                             /\ Reads[type][kvs[i][1]] \in {"stoi", "stod"}
                             /\ kvs[i][2] \in {"word", "dotted"}

\* The value of the last pair with keyword k, or what stands there already.
LastOf(kvs, k, preset) ==
    LET at == {i \in 1 .. Len(kvs) : kvs[i][1] = k}
    IN  IF at = {} THEN preset ELSE kvs[Max(at)][2]

\* The type is compared without regard to case, but only after its first letter has
\* been compared with regard to it for six letters.
FirstLetterCounts == {"abort_slew", "abort_image", "abort_plan", "fileinfo", "filestat",
    "fwhm", "focus", "object", "obsite", "rain", "register", "slewto", "start", "stop",
    "slit", "take_image", "track"}

Resolve(type, capital, pairs) ==
    LET kvs == resolve_kv_array(pairs)
    IN  IF type \notin Type \/ (capital /\ type \in FirstLetterCounts)
        THEN [outcome |-> "null"]
        ELSE IF Throws(type, kvs) THEN [outcome |-> "throws"]
        ELSE [outcome |-> "message", type |-> type,
              ids |-> [i \in 1 .. 3 |-> LastOf(kvs, IdKey[i], "")],
              val |-> [k \in DOMAIN Preset[type] |->
                         IF k \in DOMAIN Reads[type] THEN LastOf(kvs, k, Preset[type][k])
                         ELSE Preset[type][k]]]
-----------------------------------------------------------------------------
Nothing == [outcome |-> "none"]

APInit == sent = Nothing /\ line = << >> /\ got = Nothing

Sample(conv) == CASE conv = "str" -> {"", "word", "dotted", "listed"}
                  [] conv = "stoi" -> {"INT_MIN", "1"}
                  [] conv = "stod" -> {"1e30", "-1000", "40", "180", "fine"}

\* plan_sn and plan_type are fields of the message though nothing reads them.
ConvOf(t, k) == IF k \in DOMAIN Reads[t] THEN Reads[t][k]
                ELSE IF k = "plan_sn" THEN "str" ELSE "stoi"

\* The types with a Compact function that takes the values themselves, and those
\* that have no other.
BareForm == {"load_plan", "home_sync", "slewto", "track", "park", "guide", "abort_slew",
             "focus", "slit", "rain", "expose"}
OnlyBare == {"load_plan", "rain", "expose"}

\* Compose a message, send it and resolve the line.
Converse ==
    /\ sent = Nothing /\ got = Nothing
    /\ \E t \in Type, gid, cid \in {"", "word"}, bare \in BOOLEAN :
         /\ bare => t \in BareForm
         /\ t \in OnlyBare => bare
         /\ \E size \in 0 .. MaxSet : \E C \in kSubset(size, DOMAIN Preset[t]) :
            \E g \in [C -> UNION {Sample(c) : c \in {"str", "stoi", "stod"}}] :
              /\ \A k \in C : g[k] \in Sample(ConvOf(t, k))
              /\ LET m == [outcome |-> "message", type |-> t, bare |-> bare,
                           ids |-> <<gid, "", cid>>, val |-> g @@ Preset[t]]
                 IN  /\ ~Refused(m)
                     /\ sent' = m
                     /\ line' = Compact(m)
                     /\ got' = Resolve(t, FALSE, Compact(m))

\* A line that no Compact function wrote: a capital type, an unknown one, a word
\* where a number is wanted.
Hear ==
    /\ sent = Nothing /\ got = Nothing
    /\ \E t \in Type \cup {"preslew"}, capital \in BOOLEAN :
         \E k \in IF t \in Type THEN DOMAIN Reads[t] \cup {"gid"} ELSE {"gid"},
            v \in {"word", "1", "40"} :
           /\ line' = <<<<k, v>>>>
           /\ got' = Resolve(t, capital, line')
    /\ UNCHANGED sent

APNext == Converse \/ Hear

\* Whatever the code writes into a line, it reads back out of it: the same type,
\* identities and values (six digits of a real), but for values that hold a comma, a
\* text the trimming of the line's end cuts, and the plan of an object message; no
\* line of its own makes Resolve throw; and a guide message is a position for the
\* reader exactly when it is one for the writer.
ReadsBack ==
    sent # Nothing =>
      /\ got.outcome = "message" /\ got.type = sent.type
      /\ ~sent.bare => got.ids = sent.ids
      /\ \A i \in 1 .. Len(Writes[sent.type]) :
           LET k == Writes[sent.type][i]
           IN  \/ Omitted(sent, k)
               \/ sent.val[k] = "listed"
               \/ sent.val[k] = "dotted" /\ i = Len(Writes[sent.type])
               \/ sent.type = "object" /\ k \in {"plan_sn", "plan_type"}
               \/ got.val[k] = Printed(sent.val[k])
      /\ sent.type = "guide" /\ ~sent.bare =>
           (valid_ra(got.val.objra) /\ valid_dec(got.val.objdec) <=>
              valid_ra(sent.val.objra) /\ valid_dec(sent.val.objdec))
=============================================================================
