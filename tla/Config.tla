-------------------------------- MODULE Config --------------------------------
(***************************************************************************)
(* The constructors of client::Config and server::Config                   *)
(* (common/config/Config.h), with Parser.h, SetFilePath and SetLevel of    *)
(* Logger and SetFilePath of Statistics.  Each is one pass over the file,  *)
(* section by section and field by field; a fault found on the way ends    *)
(* the process, after whatever came before it was done.                    *)
(*                                                                         *)
(* A JSON value is its type and a number: of a string or list, which one   *)
(* it is.  Strings, lists and numbers past 32 bits have no more to them.   *)
(***************************************************************************)
EXTENDS Naturals, Sequences

CONSTANTS
    Correct,  \* Correct[p]: the file of program p with no fault
    Values    \* the values that stand in place of any two of Correct: the bound

\* "negative" is an integer below 0, "huge" one that does not fit uint32_t or int,
\* "mixed" an array with an element that is not a string.
Types == {"absent", "uint", "negative", "huge", "bool", "string", "list", "mixed", "object"}
Value == [type : Types, v : Nat]

Programs == {"client", "server"}

\* What Config reads, in its order: a section itself, then its fields.
Enter(section) ==
    [section |-> section, key |-> "itself", type |-> "object", member |-> "none"]
Field(section, key, type, member) ==
    [section |-> section, key |-> key, type |-> type, member |-> member]

\* (The gap is read under LEVEL.)
ClientSteps ==
  << Enter("log"),     Field("log", "path", "string", "logPath"),
                       Field("log", "level", "uint", "logLevel"),
     Enter("server"),  Field("server", "ip", "string", "serverIp"),
                       Field("server", "port", "uint", "serverPort"),
     Enter("packet"),  Field("packet", "encoded", "bool", "encodingMode"),
                       Field("packet", "amount", "uint", "packetAmount"),
                       Field("packet", "level", "uint", "interPacketGap"),
     Enter("general"), Field("general", "port", "uint", "ownPort"),
                       Field("general", "source", "string", "streamSource") >>

ServerSteps ==
  << Enter("log"),        Field("log", "path", "string", "logPath"),
                          Field("log", "level", "uint", "logLevel"),
     Enter("statistics"), Field("statistics", "path", "string", "statPath"),
                          Field("statistics", "counters", "list", "counters"),
     Enter("player"),     Field("player", "bufferInterval", "uint", "bufferInterval"),
                          Field("player", "frameTimeout", "uint", "frameTimeout"),
     Enter("general"),    Field("general", "port", "uint", "ownPort"),
                          Field("general", "rxBufferSize", "int", "rxBufferSize") >>

Steps(p) == IF p = "client" THEN ClientSteps ELSE ServerSteps

FieldsOf(p) ==
    {Steps(p)[i] : i \in {j \in 1..Len(Steps(p)) : Steps(p)[j].key # "itself"}}

Mandatory(p) == IF p = "client" THEN {"server", "general"} ELSE {"general"}

MandatoryFields(p) ==
    IF p = "client" THEN {<<"server", "ip">>, <<"server", "port">>, <<"general", "source">>}
                    ELSE {<<"general", "port">>}

\* The members' initial values; the address and port of the server have none.
\* _counters is a list of lists of names, at first the default five: list 0.
Unset == 0
Defaults(p) ==
    IF p = "client"
    THEN [logPath |-> 0, logLevel |-> 0, serverIp |-> Unset, serverPort |-> Unset,
          encodingMode |-> 0, packetAmount |-> 255, interPacketGap |-> 0,
          ownPort |-> 8000, streamSource |-> 0]
    ELSE [logPath |-> 0, logLevel |-> 0, statPath |-> 0, counters |-> <<0>>,
          bufferInterval |-> 33, frameTimeout |-> 100, ownPort |-> 8000,
          rxBufferSize |-> 65536]

\* Mistake: the level is a uint8_t, so ports are too.
NarrowStored(member, v) ==
    IF member \in {"logLevel", "packetAmount", "serverPort", "ownPort"} THEN v % 256 ELSE v

\* Mistake: the members are as wide as the numbers of the file.
WideStored(member, v) == v

\* uint8_t and uint16_t members keep the low bits of GetUint.
Stored(member, v) ==
    CASE member \in {"logLevel", "packetAmount"} -> v % 256
      [] member \in {"serverPort", "ownPort"} -> v % 65536
      [] OTHER -> v

\* IsUint, IsInt, IsBool, IsString, IsArray and IsString of every element.
HasType(value, type) ==
    \/ value.type = type
    \/ type = "int" /\ value.type \in {"uint", "negative"}

Sections(p) ==
    {"log", "general"} \cup
        IF p = "client" THEN {"server", "packet"} ELSE {"statistics", "player"}

\* The fields that the schema has or the program asks for, and the sections.
Keys(p) ==
    {<<s, "itself">> : s \in Sections(p)} \cup
    {<<"log", "path">>, <<"log", "level">>, <<"general", "port">>}
        \cup IF p = "client"
             THEN {<<"server", "ip">>, <<"server", "port">>, <<"packet", "encoded">>,
                   <<"packet", "amount">>, <<"packet", "level">>, <<"packet", "gap">>,
                   <<"general", "source">>}
             ELSE {<<"statistics", "path">>, <<"statistics", "counters">>,
                   <<"player", "bufferInterval">>, <<"player", "frameTimeout">>,
                   <<"general", "rxBufferSize">>}

\* The fields of a section that is no object, or not there, are of no interest.
ASSUME FilesAssumption ==
    /\ Values \subseteq Value
    /\ \A p \in Programs : Correct[p] \in [Keys(p) -> Value]

VARIABLES
    program,  \* which of the two
    file,     \* external: client.json or server.json
    phase,    \* "open", "read", "running", "exited", "crashed"
    at,       \* the step of Steps(program) it is at
    conf,     \* the members of Config
    level,    \* Logger::_level
    silent,   \* was the error that ended the process below the log level?
    unopened  \* external: a file was not there, or no JSON object

vars == <<program, file, phase, at, conf, level, silent, unopened>>

Init ==
    /\ program \in Programs
    /\ \E k1, k2 \in Keys(program), v1, v2 \in Values :
           file = [Correct[program] EXCEPT ![k1] = v1, ![k2] = v2]
    /\ phase = "open"
    /\ at = 1
    /\ conf = Defaults(program)
    /\ level = 0
    /\ silent = FALSE
    /\ unopened = FALSE

-------------------------------------------------------------------------------
Step == Steps(program)[at]
IsField == at <= Len(Steps(program)) /\ Step.key # "itself"
ValueOf(f) == file[<<f.section, f.key>>]

Has(key) == file[key].type # "absent"
IsObject(section) == file[<<section, "itself">>].type = "object"
IsEmpty(section) == \A k \in Keys(program) : k[1] = section /\ k[2] # "itself" => ~Has(k)

\* A field that the file gives.
Given(f) == IsObject(f.section) /\ Has(<<f.section, f.key>>)

\* Logger::Error and exit(1).  LogLevel::Error is 3.
Exit ==
    /\ phase' = "exited"
    /\ silent' = (3 < level)
    /\ UNCHANGED <<program, file, at, conf, level>>

\* Read fails (no file, an empty one, no JSON), or the root is no object.
ReadFails ==
    /\ phase = "open"
    /\ Exit
    /\ unopened' = TRUE

\* The root has to have the mandatory sections.
ReadRoot ==
    /\ phase = "open"
    /\ IF \A s \in Mandatory(program) : Has(<<s, "itself">>)
       THEN phase' = "read" /\ UNCHANGED <<program, file, at, conf, level, silent>>
       ELSE Exit
    /\ UNCHANGED unopened

GoTo(step) == at' = step /\ UNCHANGED <<program, file, phase, silent>>

\* The step behind the fields of the section at hand.
PastSection ==
    CHOOSE i \in at + 1..Len(Steps(program)) + 1 :
        /\ i <= Len(Steps(program)) => Steps(program)[i].key = "itself"
        /\ \A j \in at + 1..i - 1 : Steps(program)[j].key # "itself"

AtSection == phase = "read" /\ at <= Len(Steps(program)) /\ Step.key = "itself"

\* A mandatory section that is no object, empty, or lacks a mandatory field.
RefuseSection ==
    /\ AtSection
    /\ Step.section \in Mandatory(program)
    /\ \/ ~IsObject(Step.section)
       \/ IsEmpty(Step.section)
       \/ \E k \in MandatoryFields(program) : k[1] = Step.section /\ ~Has(k)
    /\ Exit
    /\ UNCHANGED unopened

EnterSection ==
    /\ AtSection
    /\ IsObject(Step.section)
    /\ Step.section \in Mandatory(program) =>
           \A k \in MandatoryFields(program) : k[1] = Step.section => Has(k)
    /\ GoTo(at + 1)
    /\ UNCHANGED <<conf, level, unopened>>

\* An optional section that is not there is passed over.  One that is no object is
\* asked for its members all the same: an assertion fails in a build with assertions,
\* and what is read in their place is undefined without them.
SkipSection ==
    /\ AtSection
    /\ Step.section \notin Mandatory(program)
    /\ \/ ~IsObject(Step.section) /\ GoTo(PastSection)
       \/ /\ ~IsObject(Step.section) /\ Has(<<Step.section, "itself">>)
          /\ phase' = "crashed"
          /\ UNCHANGED <<program, file, at, silent>>
    /\ UNCHANGED <<conf, level, unopened>>

AtField == phase = "read" /\ IsField

SkipField ==
    /\ AtField
    /\ ValueOf(Step).type = "absent"
    /\ GoTo(at + 1)
    /\ UNCHANGED <<conf, level, unopened>>

RefuseField ==
    /\ AtField
    /\ ValueOf(Step).type # "absent"
    /\ ~HasType(ValueOf(Step), Step.type)
    /\ Exit
    /\ UNCHANGED unopened

\* Mistake: 8 is refused too.
AboveEight(amount) == amount > 255 \/ amount <= 8

\* Mistake: only the upper bound is tested.
AboveRange(amount) == amount > 255

\* The range of the amount.  (No uint8_t is above 255.)
OutOfRange(amount) == amount > 255 \/ amount < 8

\* The member that held `old` when value v has been read into it.  The names of the
\* file's list are added to the ones _counters holds already (emplace_back).
Updated(member, old, v) ==
    IF member = "counters" THEN Append(old, v) ELSE Stored(member, v)

StoredValue == Updated(Step.member, conf[Step.member], ValueOf(Step).v)

\* The level goes to Logger at once; the amount is tested after it was stored.
ReadField ==
    /\ AtField
    /\ HasType(ValueOf(Step), Step.type)
    /\ conf' = [conf EXCEPT ![Step.member] = StoredValue]
    /\ level' = IF Step.member = "logLevel" THEN StoredValue ELSE level
    /\ IF Step.member = "packetAmount" /\ OutOfRange(StoredValue)
       THEN phase' = "exited" /\ silent' = (3 < level) /\ UNCHANGED <<program, file, at>>
       ELSE GoTo(at + 1)
    /\ UNCHANGED unopened

\* The paths go to SetFilePath of Logger and Statistics, which open the file and exit
\* if they cannot: the one writes to cerr, the other warns (LogLevel::Warning is 2).
PathFails ==
    /\ AtField
    /\ Step.member \in {"logPath", "statPath"}
    /\ HasType(ValueOf(Step), Step.type)
    /\ phase' = "exited"
    /\ unopened' = TRUE
    /\ silent' = (Step.member = "statPath" /\ 2 < level)
    /\ conf' = [conf EXCEPT ![Step.member] = StoredValue]
    /\ UNCHANGED <<program, file, at, level>>

Finish ==
    /\ phase = "read"
    /\ at > Len(Steps(program))
    /\ phase' = "running"
    /\ UNCHANGED <<program, file, at, conf, level, silent, unopened>>

Next ==
    \/ ReadFails \/ ReadRoot \/ RefuseSection \/ EnterSection \/ SkipSection
    \/ SkipField \/ RefuseField \/ ReadField \/ PathFails \/ Finish

Spec == Init /\ [][Next]_vars

-------------------------------------------------------------------------------
(* Properties. *)

\* What json-schema/client.json and server.json say of a field's value (of numbers
\* without a maximum: those that fit 32 bits).
SchemaAllows(p, k, value) ==
    \/ /\ value.type = "absent"
       /\ k \notin MandatoryFields(p) \cup {<<s, "itself">> : s \in Mandatory(p)}
    \/ value.type = "object" /\ k[2] = "itself"
    \/ value.type = "string" /\ k[2] \in {"path", "ip", "source"}
    \/ value.type = "bool" /\ k[2] = "encoded"
    \/ value.type = "list" /\ k[2] = "counters"
    \/ /\ value.type = "uint"
       /\ \/ k[2] = "port" /\ value.v <= 65535
          \/ k = <<"log", "level">> /\ value.v <= 255
          \/ k[2] = "amount" /\ 8 <= value.v /\ value.v <= 255
          \/ k[2] \in {"gap", "bufferInterval", "frameTimeout", "rxBufferSize"}

\* (The schemas allow no members beside theirs: no packet.level, in particular.)
Valid(p, f) ==
    \A k \in Keys(p) :
        f[<<k[1], "itself">>].type # "absent" \/ k[2] = "itself" => SchemaAllows(p, k, f[k])

MemberType(m) == IF m = "counters" THEN Seq(Nat) ELSE Nat

TypeOK ==
    /\ program \in Programs
    /\ file \in [Keys(program) -> Value]
    /\ phase \in {"open", "read", "running", "exited", "crashed"}
    /\ at \in 1..Len(Steps(program)) + 1
    /\ DOMAIN conf = DOMAIN Defaults(program)
    /\ \A m \in DOMAIN conf : conf[m] \in MemberType(m)
    /\ level \in Nat /\ level < 256 /\ conf.logLevel < 256
    /\ conf.ownPort < 65536
    /\ program = "client" => conf.serverPort < 65536 /\ conf.packetAmount < 256
    /\ program = "client" /\ phase = "running" => 8 <= conf.packetAmount
    /\ silent \in BOOLEAN
    /\ unopened \in BOOLEAN

\* What the member of a field is to hold where the file gives value v.  (Of the list of
\* counters the schema says the same as of every field: the file's in place of the
\* default.  The server registers the default names and then the file's.)
Expected(f, v) == IF f.member = "counters" THEN <<0, v>> ELSE v

\* A program that runs has of every field what its schema allows and the file says, or
\* the default where the file says nothing: nothing is narrowed, mixed up or forgotten
\* on the way.  Two fields are excepted.  The gap has no key that the schema allows; and
\* the file's counters do not replace the default ones but follow them.
RunsAsConfigured ==
    phase = "running" =>
        \A f \in FieldsOf(program) :
            /\ Given(f) /\ SchemaAllows(program, <<f.section, f.key>>, ValueOf(f)) =>
                   conf[f.member] = Expected(f, ValueOf(f).v)
            /\ ~Given(f) => conf[f.member] = Defaults(program)[f.member]

\* A file the schema allows is never refused, and a file with a mandatory part missing
\* or a field of the wrong type never accepted, wherever in the file it stands
\* (Config::Config against the json-schema the README names for the files' format).
AcceptsWhatSchemaAllows ==
    /\ phase \in {"exited", "crashed"} => unopened \/ ~Valid(program, file)
    /\ phase = "running" =>
           /\ \A s \in Mandatory(program) : IsObject(s)
           /\ \A k \in MandatoryFields(program) : Has(k)
           /\ \A f \in FieldsOf(program) : Given(f) => HasType(ValueOf(f), f.type)

\* Why the program does not start is written to the log, unless the log level of the
\* same file, read first and cut to eight bits, forbids it (SetLevel before the rest).
FaultsAreTold ==
    silent => IsObject("log") /\ file[<<"log", "level">>].v % 256 > 2
===============================================================================
