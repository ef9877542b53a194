----------------------------- MODULE ConfigProofs -----------------------------
(***************************************************************************)
(* Proofs about Config, for every file: a program runs with what its file  *)
(* says, refuses no file its schema allows, accepts none with a mandatory  *)
(* part missing or of the wrong type, and says why.                        *)
(***************************************************************************)
EXTENDS Config, TLAPS, SequenceTheorems

-------------------------------------------------------------------------------
(* The two tables, column by column. *)

LEMMA ClientLength == Len(ClientSteps) = 13
BY DEF ClientSteps

LEMMA ClientSections ==
    ClientSteps[1].section = "log" /\ ClientSteps[2].section = "log" /\
    ClientSteps[3].section = "log" /\ ClientSteps[4].section = "server" /\
    ClientSteps[5].section = "server" /\ ClientSteps[6].section = "server" /\
    ClientSteps[7].section = "packet" /\ ClientSteps[8].section = "packet" /\
    ClientSteps[9].section = "packet" /\ ClientSteps[10].section = "packet" /\
    ClientSteps[11].section = "general" /\ ClientSteps[12].section = "general" /\
    ClientSteps[13].section = "general"
BY DEF ClientSteps, Enter, Field

LEMMA ClientKeys ==
    ClientSteps[1].key = "itself" /\ ClientSteps[2].key = "path" /\
    ClientSteps[3].key = "level" /\ ClientSteps[4].key = "itself" /\
    ClientSteps[5].key = "ip" /\ ClientSteps[6].key = "port" /\
    ClientSteps[7].key = "itself" /\
    ClientSteps[8].key = "encoded" /\ ClientSteps[9].key = "amount" /\
    ClientSteps[10].key = "level" /\ ClientSteps[11].key = "itself" /\
    ClientSteps[12].key = "port" /\ ClientSteps[13].key = "source"
BY DEF ClientSteps, Enter, Field

LEMMA ClientTypes ==
    ClientSteps[2].type = "string" /\ ClientSteps[3].type = "uint" /\
    ClientSteps[5].type = "string" /\ ClientSteps[6].type = "uint" /\
    ClientSteps[8].type = "bool" /\ ClientSteps[9].type = "uint" /\
    ClientSteps[10].type = "uint" /\ ClientSteps[12].type = "uint" /\
    ClientSteps[13].type = "string"
BY DEF ClientSteps, Enter, Field

LEMMA ClientMembers ==
    ClientSteps[2].member = "logPath" /\ ClientSteps[3].member = "logLevel" /\
    ClientSteps[5].member = "serverIp" /\ ClientSteps[6].member = "serverPort" /\
    ClientSteps[8].member = "encodingMode" /\ ClientSteps[9].member = "packetAmount" /\
    ClientSteps[10].member = "interPacketGap" /\ ClientSteps[12].member = "ownPort" /\
    ClientSteps[13].member = "streamSource"
BY DEF ClientSteps, Enter, Field

LEMMA ServerLength == Len(ServerSteps) = 12
BY DEF ServerSteps

LEMMA ServerSections ==
    ServerSteps[1].section = "log" /\ ServerSteps[2].section = "log" /\
    ServerSteps[3].section = "log" /\ ServerSteps[4].section = "statistics" /\
    ServerSteps[5].section = "statistics" /\ ServerSteps[6].section = "statistics" /\
    ServerSteps[7].section = "player" /\ ServerSteps[8].section = "player" /\
    ServerSteps[9].section = "player" /\ ServerSteps[10].section = "general" /\
    ServerSteps[11].section = "general" /\ ServerSteps[12].section = "general"
BY DEF ServerSteps, Enter, Field

LEMMA ServerKeys ==
    ServerSteps[1].key = "itself" /\ ServerSteps[2].key = "path" /\
    ServerSteps[3].key = "level" /\ ServerSteps[4].key = "itself" /\
    ServerSteps[5].key = "path" /\ ServerSteps[6].key = "counters" /\
    ServerSteps[7].key = "itself" /\ ServerSteps[8].key = "bufferInterval" /\
    ServerSteps[9].key = "frameTimeout" /\ ServerSteps[10].key = "itself" /\
    ServerSteps[11].key = "port" /\ ServerSteps[12].key = "rxBufferSize"
BY DEF ServerSteps, Enter, Field

LEMMA ServerTypes ==
    ServerSteps[2].type = "string" /\ ServerSteps[3].type = "uint" /\
    ServerSteps[5].type = "string" /\ ServerSteps[6].type = "list" /\
    ServerSteps[8].type = "uint" /\ ServerSteps[9].type = "uint" /\
    ServerSteps[11].type = "uint" /\ ServerSteps[12].type = "int"
BY DEF ServerSteps, Enter, Field

LEMMA ServerMembers ==
    ServerSteps[2].member = "logPath" /\ ServerSteps[3].member = "logLevel" /\
    ServerSteps[5].member = "statPath" /\ ServerSteps[6].member = "counters" /\
    ServerSteps[8].member = "bufferInterval" /\ ServerSteps[9].member = "frameTimeout" /\
    ServerSteps[11].member = "ownPort" /\ ServerSteps[12].member = "rxBufferSize"
BY DEF ServerSteps, Enter, Field

\* Where the fields and where the sections stand.
ClientFields == {2, 3, 5, 6, 8, 9, 10, 12, 13}
ServerFields == {2, 3, 5, 6, 8, 9, 11, 12}
FieldSteps(p) == IF p = "client" THEN ClientFields ELSE ServerFields
SectionSteps(p) == IF p = "client" THEN {1, 4, 7, 11} ELSE {1, 4, 7, 10}
Last(p) == IF p = "client" THEN 13 ELSE 12

LEMMA StepKinds ==
    ASSUME NEW p \in Programs
    PROVE  /\ Len(Steps(p)) = Last(p)
           /\ Last(p) \in Nat
           /\ \A i \in 1..Last(p) : i \in SectionSteps(p) \cup FieldSteps(p)
           /\ FieldSteps(p) \cup SectionSteps(p) \subseteq 1..Last(p)
           /\ \A i \in SectionSteps(p) : i \notin FieldSteps(p)
<1>1. \A i \in 1..13 : i \in {1, 4, 7, 11} \cup ClientFields
  BY DEF ClientFields
<1>2. \A i \in 1..12 : i \in {1, 4, 7, 10} \cup ServerFields
  BY DEF ServerFields
<1>3. /\ ClientFields \cup {1, 4, 7, 11} \subseteq 1..13
      /\ ServerFields \cup {1, 4, 7, 10} \subseteq 1..12
      /\ \A i \in {1, 4, 7, 11} : i \notin ClientFields
      /\ \A i \in {1, 4, 7, 10} : i \notin ServerFields
  BY DEF ClientFields, ServerFields
<1>4. CASE p = "client"
  BY <1>1, <1>3, <1>4, ClientLength DEF Steps, Last, SectionSteps, FieldSteps
<1>5. CASE p = "server"
  BY <1>2, <1>3, <1>5, ServerLength DEF Steps, Last, SectionSteps, FieldSteps
<1>6. QED  BY <1>4, <1>5 DEF Programs

LEMMA StepKeys ==
    ASSUME NEW p \in Programs
    PROVE  /\ \A i \in FieldSteps(p) : Steps(p)[i].key # "itself"
           /\ \A i \in SectionSteps(p) : Steps(p)[i].key = "itself"
<1>1. CASE p = "client"
  BY <1>1, ClientKeys DEF Steps, SectionSteps, FieldSteps, ClientFields
<1>2. CASE p = "server"
  BY <1>2, ServerKeys DEF Steps, SectionSteps, FieldSteps, ServerFields
<1>3. QED  BY <1>1, <1>2 DEF Programs

\* Every step of the tables is about something a file may have.
LEMMA FieldKeys ==
    ASSUME NEW p \in Programs, NEW i \in FieldSteps(p)
    PROVE  <<Steps(p)[i].section, Steps(p)[i].key>> \in Keys(p)
<1>1. CASE p = "client"
  <2>1. <<ClientSteps[i].section, ClientSteps[i].key>> \in
            {<<"log", "path">>, <<"log", "level">>, <<"server", "ip">>,
             <<"server", "port">>, <<"packet", "encoded">>, <<"packet", "amount">>,
             <<"packet", "level">>, <<"general", "port">>, <<"general", "source">>}
    BY <1>1, ClientSections, ClientKeys DEF FieldSteps, ClientFields
  <2>2. QED  BY <1>1, <2>1 DEF Keys, Steps
<1>2. CASE p = "server"
  <2>1. <<ServerSteps[i].section, ServerSteps[i].key>> \in
            {<<"log", "path">>, <<"log", "level">>, <<"statistics", "path">>,
             <<"statistics", "counters">>, <<"player", "bufferInterval">>,
             <<"player", "frameTimeout">>, <<"general", "port">>,
             <<"general", "rxBufferSize">>}
    BY <1>2, ServerSections, ServerKeys DEF FieldSteps, ServerFields
  <2>2. QED  BY <1>2, <2>1 DEF Keys, Steps
<1>3. QED  BY <1>1, <1>2 DEF Programs

LEMMA SectionKeys ==
    ASSUME NEW p \in Programs, NEW i \in SectionSteps(p) \cup FieldSteps(p)
    PROVE  /\ Steps(p)[i].section \in Sections(p)
           /\ <<Steps(p)[i].section, "itself">> \in Keys(p)
<1>1. CASE p = "client"
  <2>1. ClientSteps[i].section \in {"log", "server", "packet", "general"}
    BY <1>1, ClientSections DEF FieldSteps, SectionSteps, ClientFields
  <2>2. QED  BY <1>1, <2>1 DEF Keys, Sections, Steps
<1>2. CASE p = "server"
  <2>1. ServerSteps[i].section \in {"log", "statistics", "player", "general"}
    BY <1>2, ServerSections DEF FieldSteps, SectionSteps, ServerFields
  <2>2. QED  BY <1>2, <2>1 DEF Keys, Sections, Steps
<1>3. QED  BY <1>1, <1>2 DEF Programs

\* No two fields go to one member.
ClientAt ==
    [logPath |-> 2, logLevel |-> 3, serverIp |-> 5, serverPort |-> 6, encodingMode |-> 8,
     packetAmount |-> 9, interPacketGap |-> 10, ownPort |-> 12, streamSource |-> 13]

ServerAt ==
    [logPath |-> 2, logLevel |-> 3, statPath |-> 5, counters |-> 6, bufferInterval |-> 8,
     frameTimeout |-> 9, ownPort |-> 11, rxBufferSize |-> 12]

LEMMA FieldMembers ==
    ASSUME NEW p \in Programs, NEW i \in FieldSteps(p)
    PROVE  /\ Steps(p)[i].member \in DOMAIN Defaults(p)
           /\ \A j \in FieldSteps(p) : Steps(p)[j].member = Steps(p)[i].member => i = j
<1>1. CASE p = "client"
  <2>1. ClientAt["logPath"] = 2 /\ ClientAt["logLevel"] = 3 /\ ClientAt["serverIp"] = 5 /\
        ClientAt["serverPort"] = 6 /\ ClientAt["encodingMode"] = 8 /\
        ClientAt["packetAmount"] = 9 /\ ClientAt["interPacketGap"] = 10 /\
        ClientAt["ownPort"] = 12 /\ ClientAt["streamSource"] = 13
    BY DEF ClientAt
  <2>2. \A j \in ClientFields : ClientAt[ClientSteps[j].member] = j
    BY <2>1, ClientMembers DEF ClientFields
  <2>3. ClientSteps[i].member \in
            {"logPath", "logLevel", "serverIp", "serverPort", "encodingMode",
             "packetAmount", "interPacketGap", "ownPort", "streamSource"}
    BY <1>1, ClientMembers DEF FieldSteps, ClientFields
  <2>4. Steps(p)[i].member \in DOMAIN Defaults(p)
    BY <1>1, <2>3 DEF Defaults, Steps
  <2>5. QED  BY <1>1, <2>2, <2>4 DEF FieldSteps, Steps
<1>2. CASE p = "server"
  <2>1. ServerAt["logPath"] = 2 /\ ServerAt["logLevel"] = 3 /\ ServerAt["statPath"] = 5 /\
        ServerAt["counters"] = 6 /\ ServerAt["bufferInterval"] = 8 /\
        ServerAt["frameTimeout"] = 9 /\ ServerAt["ownPort"] = 11 /\
        ServerAt["rxBufferSize"] = 12
    BY DEF ServerAt
  <2>2. \A j \in ServerFields : ServerAt[ServerSteps[j].member] = j
    BY <2>1, ServerMembers DEF ServerFields
  <2>3. ServerSteps[i].member \in
            {"logPath", "logLevel", "statPath", "counters", "bufferInterval",
             "frameTimeout", "ownPort", "rxBufferSize"}
    BY <1>2, ServerMembers DEF FieldSteps, ServerFields
  <2>4. Steps(p)[i].member \in DOMAIN Defaults(p)
    BY <1>2, <2>3 DEF Defaults, Steps
  <2>5. QED  BY <1>2, <2>2, <2>4 DEF FieldSteps, Steps
<1>3. QED  BY <1>1, <1>2 DEF Programs

\* A field comes after its section or after another field of it.
LEMMA FieldFollows ==
    ASSUME NEW p \in Programs, NEW i \in FieldSteps(p)
    PROVE  Steps(p)[i].section = Steps(p)[i - 1].section
<1>1. CASE p = "client"
  BY <1>1, ClientSections DEF FieldSteps, ClientFields, Steps
<1>2. CASE p = "server"
  BY <1>2, ServerSections DEF FieldSteps, ServerFields, Steps
<1>3. QED  BY <1>1, <1>2 DEF Programs

\* The fields of a section come in a row after it.
LEMMA FieldsOfSection ==
    ASSUME NEW p \in Programs, NEW i \in SectionSteps(p), NEW j \in FieldSteps(p),
           i < j, \A k \in SectionSteps(p) : k <= i \/ j < k
    PROVE  Steps(p)[j].section = Steps(p)[i].section
<1>1. CASE p = "client"
  <2>1. /\ i = 1 => j \in {2, 3}
        /\ i = 4 => j \in {5, 6}
        /\ i = 7 => j \in {8, 9, 10}
        /\ i = 11 => j \in {12, 13}
    BY <1>1 DEF FieldSteps, SectionSteps, ClientFields
  <2>2. i \in {1, 4, 7, 11}
    BY <1>1 DEF SectionSteps
  <2>3. QED  BY <1>1, <2>1, <2>2, ClientSections DEF Steps
<1>2. CASE p = "server"
  <2>1. /\ i = 1 => j \in {2, 3}
        /\ i = 4 => j \in {5, 6}
        /\ i = 7 => j \in {8, 9}
        /\ i = 10 => j \in {11, 12}
    BY <1>2 DEF FieldSteps, SectionSteps, ServerFields
  <2>2. i \in {1, 4, 7, 10}
    BY <1>2 DEF SectionSteps
  <2>3. QED  BY <1>2, <2>1, <2>2, ServerSections DEF Steps
<1>3. QED  BY <1>1, <1>2 DEF Programs

LEMMA NextSection ==
    ASSUME NEW p \in Programs, NEW i \in SectionSteps(p)
    PROVE  \E n \in (i + 1)..(Last(p) + 1) :
               /\ n <= Last(p) => n \in SectionSteps(p)
               /\ \A j \in (i + 1)..(n - 1) : j \in FieldSteps(p)
<1>1. CASE p = "client"
  <2> DEFINE n == IF i = 1 THEN 4 ELSE IF i = 4 THEN 7 ELSE IF i = 7 THEN 11 ELSE 14
  <2>1. i \in {1, 4, 7, 11}
    BY <1>1 DEF SectionSteps
  <2>2. n \in (i + 1)..14 /\ (n <= 13 => n \in {1, 4, 7, 11})
    BY <2>1
  <2>3. \A j \in (i + 1)..(n - 1) : j \in ClientFields
    BY <2>1 DEF ClientFields
  <2>4. QED  BY <1>1, <2>2, <2>3 DEF SectionSteps, FieldSteps, Last
<1>2. CASE p = "server"
  <2> DEFINE n == IF i = 1 THEN 4 ELSE IF i = 4 THEN 7 ELSE IF i = 7 THEN 10 ELSE 13
  <2>1. i \in {1, 4, 7, 10}
    BY <1>2 DEF SectionSteps
  <2>2. n \in (i + 1)..13 /\ (n <= 12 => n \in {1, 4, 7, 10})
    BY <2>1
  <2>3. \A j \in (i + 1)..(n - 1) : j \in ServerFields
    BY <2>1 DEF ServerFields
  <2>4. QED  BY <1>2, <2>2, <2>3 DEF SectionSteps, FieldSteps, Last
<1>3. QED  BY <1>1, <1>2 DEF Programs

\* SkipSection passes over the section's own fields and nothing else.
LEMMA PastSectionPasses ==
    ASSUME program \in Programs, at \in SectionSteps(program)
    PROVE  /\ PastSection \in (at + 1)..(Last(program) + 1)
           /\ PastSection \notin FieldSteps(program)
           /\ \A j \in SectionSteps(program) : j < PastSection => j <= at
           /\ \A j \in FieldSteps(program) : at < j /\ j < PastSection =>
                  Steps(program)[j].section = Step.section
<1> DEFINE Len1 == Len(Steps(program)) + 1
           IsPast(i) == /\ i <= Len(Steps(program)) => Steps(program)[i].key = "itself"
                        /\ \A j \in at + 1..i - 1 : Steps(program)[j].key # "itself"
<1>1. at \in Nat /\ Last(program) \in Nat /\ Len(Steps(program)) = Last(program)
  BY StepKinds
<1>2. \A j \in FieldSteps(program) \cup SectionSteps(program) : j \in Nat /\ j <= Last(program)
  BY <1>1, StepKinds
<1>3. \E n \in at + 1..Len1 : IsPast(n)
  <2>1. PICK n \in (at + 1)..(Last(program) + 1) :
            /\ n <= Last(program) => n \in SectionSteps(program)
            /\ \A j \in (at + 1)..(n - 1) : j \in FieldSteps(program)
    BY NextSection
  <2>2. n \in at + 1..Len1
    BY <1>1
  <2>3. n <= Len(Steps(program)) => Steps(program)[n].key = "itself"
    BY <1>1, <2>1, StepKeys
  <2>4. \A j \in at + 1..n - 1 : Steps(program)[j].key # "itself"
    BY <2>1, StepKeys
  <2>5. QED  BY <2>2, <2>3, <2>4
<1>4. PastSection \in at + 1..Len1 /\ IsPast(PastSection)
  <2>1. PastSection = CHOOSE n \in at + 1..Len1 : IsPast(n)
    BY DEF PastSection
  <2> HIDE DEF IsPast, Len1
  <2>2. QED  BY <1>3, <2>1
<1>5. PastSection \in (at + 1)..(Last(program) + 1)
  BY <1>4, <1>1
<1>6. PastSection \notin FieldSteps(program)
  <2>1. SUFFICES ASSUME PastSection \in FieldSteps(program)
                 PROVE  FALSE
    OBVIOUS
  <2>2. PastSection <= Len(Steps(program))
    BY <1>1, <1>2, <2>1
  <2>3. Steps(program)[PastSection].key # "itself"
    BY <2>1, StepKeys
  <2>4. QED  BY <1>4, <2>2, <2>3
<1>7. \A j \in SectionSteps(program) : j < PastSection => j <= at
  <2>1. SUFFICES ASSUME NEW j \in SectionSteps(program), j < PastSection, at < j
                 PROVE  FALSE
    BY <1>1, StepKinds
  <2>2. j \in at + 1..PastSection - 1
    <3> HIDE DEF IsPast, Len1
    <3>1. j \in Nat
      BY <1>2
    <3>2. QED  BY <1>1, <1>5, <2>1, <3>1
  <2>3. Steps(program)[j].key = "itself"
    BY StepKeys
  <2>4. QED  BY <1>4, <2>2, <2>3
<1>8. ASSUME NEW j \in FieldSteps(program), at < j, j < PastSection
      PROVE  Steps(program)[j].section = Step.section
  <2>1. \A k \in SectionSteps(program) : k <= at \/ j < k
    BY <1>1, <1>5, <1>7, <1>8, StepKinds
  <2>2. QED  BY <1>8, <2>1, FieldsOfSection DEF Step
<1>9. QED  BY <1>5, <1>6, <1>7, <1>8

\* What is mandatory is in the tables.
LEMMA MandatorySections ==
    ASSUME NEW p \in Programs
    PROVE  /\ \A s \in Mandatory(p) : \E i \in SectionSteps(p) : Steps(p)[i].section = s
           /\ \A k \in MandatoryFields(p) :
                  k[1] \in Mandatory(p) /\ k \in Keys(p) /\ k[2] # "itself"
           /\ \A s \in Mandatory(p) : \E k \in MandatoryFields(p) : k[1] = s
<1>1. CASE p = "client"
  <2>1. /\ 4 \in SectionSteps(p) /\ Steps(p)[4].section = "server"
        /\ 11 \in SectionSteps(p) /\ Steps(p)[11].section = "general"
    BY <1>1, ClientSections DEF SectionSteps, Steps
  <2>2. \A k \in MandatoryFields(p) : k[1] \in Mandatory(p) /\ k \in Keys(p) /\ k[2] # "itself"
    <3>1. SUFFICES ASSUME NEW k \in MandatoryFields(p)
                   PROVE  k[1] \in Mandatory(p) /\ k \in Keys(p) /\ k[2] # "itself"
      OBVIOUS
    <3>2. CASE k = <<"server", "ip">>
      BY <1>1, <3>2 DEF Mandatory, Keys
    <3>3. CASE k = <<"server", "port">>
      BY <1>1, <3>3 DEF Mandatory, Keys
    <3>4. CASE k = <<"general", "source">>
      BY <1>1, <3>4 DEF Mandatory, Keys
    <3>5. QED  BY <1>1, <3>2, <3>3, <3>4 DEF MandatoryFields
  <2>3. \A s \in Mandatory(p) : \E k \in MandatoryFields(p) : k[1] = s
    BY <1>1 DEF MandatoryFields, Mandatory
  <2>4. QED  BY <1>1, <2>1, <2>2, <2>3 DEF Mandatory
<1>2. CASE p = "server"
  <2>1. 10 \in SectionSteps(p) /\ Steps(p)[10].section = "general"
    BY <1>2, ServerSections DEF SectionSteps, Steps
  <2>2. \A k \in MandatoryFields(p) : k[1] \in Mandatory(p) /\ k \in Keys(p) /\ k[2] # "itself"
    <3>1. MandatoryFields(p) = {<<"general", "port">>}
      BY <1>2 DEF MandatoryFields
    <3>2. <<"general", "port">> \in Keys(p)
      BY DEF Keys
    <3>3. <<"general", "port">>[1] \in Mandatory(p) /\ <<"general", "port">>[2] # "itself"
      BY <1>2 DEF Mandatory
    <3>4. QED  BY <3>1, <3>2, <3>3
  <2>3. QED  BY <1>2, <2>1, <2>2 DEF Mandatory, MandatoryFields
<1>3. QED  BY <1>1, <1>2 DEF Programs

-------------------------------------------------------------------------------
(* Values and their schema. *)

LEMMA StoredIs ==
    ASSUME NEW m, NEW v \in Nat
    PROVE  /\ m \in {"logLevel", "packetAmount"} => Stored(m, v) = v % 256
           /\ m \in {"serverPort", "ownPort"} => Stored(m, v) = v % 65536
           /\ m \notin {"logLevel", "packetAmount", "serverPort", "ownPort"} =>
                  Stored(m, v) = v
<1>1. ASSUME m \in {"logLevel", "packetAmount"}
      PROVE  Stored(m, v) = v % 256
  BY <1>1 DEF Stored
<1>2. ASSUME m \in {"serverPort", "ownPort"}
      PROVE  Stored(m, v) = v % 65536
  BY <1>2 DEF Stored
<1>3. ASSUME m \notin {"logLevel", "packetAmount", "serverPort", "ownPort"}
      PROVE  Stored(m, v) = v
  BY <1>3 DEF Stored
<1>4. QED  BY <1>1, <1>2, <1>3

LEMMA StoredIn ==
    ASSUME NEW m, NEW v \in Nat
    PROVE  /\ Stored(m, v) \in Nat
           /\ m \in {"logLevel", "packetAmount"} => Stored(m, v) < 256
           /\ m \in {"serverPort", "ownPort"} => Stored(m, v) < 65536
<1>1. v % 256 \in Nat /\ v % 256 < 256 /\ v % 65536 \in Nat /\ v % 65536 < 65536
  OBVIOUS
<1>2. CASE m \in {"logLevel", "packetAmount"}
  BY <1>1, <1>2, StoredIs
<1>3. CASE m \in {"serverPort", "ownPort"}
  BY <1>1, <1>3, StoredIs
<1>4. CASE m \notin {"logLevel", "packetAmount", "serverPort", "ownPort"}
  BY <1>4, StoredIs
<1>5. QED  BY <1>2, <1>3, <1>4

LEMMA SmallStored ==
    ASSUME NEW m, NEW v \in Nat,
           m \in {"logLevel", "packetAmount"} => v <= 255,
           m \in {"serverPort", "ownPort"} => v <= 65535
    PROVE  Stored(m, v) = v
<1>1. CASE m \in {"logLevel", "packetAmount"}
  BY <1>1 DEF Stored
<1>2. CASE m \in {"serverPort", "ownPort"}
  BY <1>2 DEF Stored
<1>3. CASE m \notin {"logLevel", "packetAmount", "serverPort", "ownPort"}
  BY <1>3 DEF Stored
<1>4. QED  BY <1>1, <1>2, <1>3

\* What the schema says of a field that is there.
LEMMA SchemaOfField ==
    ASSUME NEW p \in Programs, NEW s, NEW key, key # "itself", NEW value,
           value.type # "absent", value.v \in Nat, SchemaAllows(p, <<s, key>>, value)
    PROVE  \/ value.type = "string" /\ key \in {"path", "ip", "source"}
           \/ value.type = "bool" /\ key = "encoded"
           \/ value.type = "list" /\ key = "counters"
           \/ value.type = "uint" /\ key = "port" /\ value.v <= 65535
           \/ value.type = "uint" /\ s = "log" /\ key = "level" /\ value.v <= 255
           \/ value.type = "uint" /\ key = "amount" /\ 8 <= value.v /\ value.v <= 255
           \/ /\ value.type = "uint"
              /\ key \in {"gap", "bufferInterval", "frameTimeout", "rxBufferSize"}
<1> DEFINE k == <<s, key>>
<1>1. k[2] = key
  OBVIOUS
<1>2. k = <<"log", "level">> => s = "log" /\ key = "level"
  OBVIOUS
<1>3. SchemaAllows(p, k, value)
  OBVIOUS
<1> HIDE DEF k
<1>4. QED  BY <1>1, <1>2, <1>3 DEF SchemaAllows

\* The types and members that go with a key.
LEMMA KeyTypes ==
    ASSUME NEW p \in Programs, NEW i \in FieldSteps(p)
    PROVE  LET f == Steps(p)[i]
           IN  /\ f.key \in {"path", "ip", "source"} => f.type = "string"
               /\ f.key = "encoded" => f.type = "bool"
               /\ f.key = "counters" => f.type = "list"
               /\ f.key \in {"port", "level", "amount", "bufferInterval", "frameTimeout"} =>
                      f.type = "uint"
               /\ f.key = "rxBufferSize" => f.type = "int"
               /\ f.key # "gap"
<1>1. CASE p = "client"
  BY <1>1, ClientKeys, ClientTypes DEF Steps, FieldSteps, ClientFields
<1>2. CASE p = "server"
  BY <1>2, ServerKeys, ServerTypes DEF Steps, FieldSteps, ServerFields
<1>3. QED  BY <1>1, <1>2 DEF Programs

LEMMA NarrowKeys ==
    ASSUME NEW p \in Programs, NEW i \in FieldSteps(p)
    PROVE  LET f == Steps(p)[i]
           IN  /\ f.member \in {"serverPort", "ownPort"} => f.key = "port"
               /\ f.member = "packetAmount" => f.key = "amount"
               /\ f.member = "logLevel" => f.key = "level"
<1>1. CASE p = "client"
  BY <1>1, ClientKeys, ClientMembers DEF Steps, FieldSteps, ClientFields
<1>2. CASE p = "server"
  BY <1>2, ServerKeys, ServerMembers DEF Steps, FieldSteps, ServerFields
<1>3. QED  BY <1>1, <1>2 DEF Programs

\* The schema's types are those Config asks for, its numbers fit the members.
LEMMA SchemaFits ==
    ASSUME NEW p \in Programs, NEW i \in FieldSteps(p), NEW value \in Value,
           value.type # "absent",
           SchemaAllows(p, <<Steps(p)[i].section, Steps(p)[i].key>>, value)
    PROVE  /\ HasType(value, Steps(p)[i].type)
           /\ Stored(Steps(p)[i].member, value.v) = value.v
           /\ Steps(p)[i].member = "packetAmount" =>
                  8 <= value.v /\ value.v <= 255
<1> DEFINE f == Steps(p)[i]
<1>1. value.v \in Nat
  BY DEF Value
<1>2. f.key # "itself"
  BY StepKeys
<1>3. SchemaAllows(p, <<f.section, f.key>>, value)
  OBVIOUS
<1>4. /\ f.key \in {"path", "ip", "source"} => f.type = "string"
      /\ f.key = "encoded" => f.type = "bool"
      /\ f.key = "counters" => f.type = "list"
      /\ f.key \in {"port", "level", "amount", "bufferInterval", "frameTimeout"} =>
             f.type = "uint"
      /\ f.key = "rxBufferSize" => f.type = "int"
      /\ f.key # "gap"
  BY KeyTypes
<1>5. /\ f.member \in {"serverPort", "ownPort"} => f.key = "port"
      /\ f.member = "packetAmount" => f.key = "amount"
      /\ f.member = "logLevel" => f.key = "level"
  BY NarrowKeys
<1> HIDE DEF f
<1>6. \/ value.type = "string" /\ f.key \in {"path", "ip", "source"}
      \/ value.type = "bool" /\ f.key = "encoded"
      \/ value.type = "list" /\ f.key = "counters"
      \/ value.type = "uint" /\ f.key = "port" /\ value.v <= 65535
      \/ value.type = "uint" /\ f.section = "log" /\ f.key = "level" /\ value.v <= 255
      \/ value.type = "uint" /\ f.key = "amount" /\ 8 <= value.v /\ value.v <= 255
      \/ /\ value.type = "uint"
         /\ f.key \in {"gap", "bufferInterval", "frameTimeout", "rxBufferSize"}
  BY <1>1, <1>2, <1>3, SchemaOfField
<1>7. HasType(value, f.type)
  BY <1>4, <1>6 DEF HasType
<1>8. /\ f.member = "packetAmount" => 8 <= value.v /\ value.v <= 255
      /\ f.member = "logLevel" => value.v <= 255
      /\ f.member \in {"serverPort", "ownPort"} => value.v <= 65535
  BY <1>5, <1>6
<1>9. Stored(f.member, value.v) = value.v
  BY <1>1, <1>8, SmallStored
<1>10. QED  BY <1>7, <1>8, <1>9 DEF f

\* What is not there has no type that Config asks for.
LEMMA AbsentHasNoType ==
    ASSUME NEW p \in Programs, NEW i \in FieldSteps(p), NEW value,
           HasType(value, Steps(p)[i].type)
    PROVE  value.type # "absent"
<1>1. Steps(p)[i].type \in {"string", "uint", "bool", "list", "int"}
  <2>1. CASE p = "client"
    BY <2>1, ClientTypes DEF Steps, FieldSteps, ClientFields
  <2>2. CASE p = "server"
    BY <2>2, ServerTypes DEF Steps, FieldSteps, ServerFields
  <2>3. QED  BY <2>1, <2>2 DEF Programs
<1>2. QED  BY <1>1 DEF HasType

-------------------------------------------------------------------------------
(* The inductive invariant: how far the pass has come, and what it left.  *)

Alive == phase \in {"open", "read", "running"}

Default(m) == conf[m] = Defaults(program)[m]

\* A field behind the pass holds what the file gives, one before it its default.
FieldDone(f) ==
    /\ Given(f) =>
           /\ HasType(ValueOf(f), f.type)
           /\ conf[f.member] =
                  Updated(f.member, Defaults(program)[f.member], ValueOf(f).v)
    /\ ~Given(f) => Default(f.member)

SectionDone(s) ==
    s \in Mandatory(program) =>
        IsObject(s) /\ \A k \in MandatoryFields(program) : k[1] = s => Has(k)

Passed ==
    Alive =>
        /\ \A i \in FieldSteps(program) :
               IF i < at THEN FieldDone(Steps(program)[i])
                         ELSE Default(Steps(program)[i].member)
        /\ \A i \in SectionSteps(program) : i < at => SectionDone(Steps(program)[i].section)

\* The pass is at a field only inside a section that is an object.
Inside ==
    /\ Alive /\ at \in FieldSteps(program) => IsObject(Step.section)
    /\ phase = "open" => at = 1
    /\ phase = "running" => Last(program) < at

AmountInRange == Alive /\ program = "client" => 8 <= conf.packetAmount

\* The level is the one of the file from the moment it is read, in any phase.
LevelOfFile ==
    level # 0 => IsObject("log") /\ level = file[<<"log", "level">>].v % 256

Refused == phase \in {"exited", "crashed"} => unopened \/ ~Valid(program, file)

ConfigInv ==
    TypeOK /\ Passed /\ Inside /\ AmountInRange /\ LevelOfFile /\ Refused /\ FaultsAreTold

LEMMA DefaultsAreTyped ==
    ASSUME NEW p \in Programs
    PROVE  /\ \A m \in DOMAIN Defaults(p) : Defaults(p)[m] \in MemberType(m)
           /\ {"logLevel", "ownPort"} \subseteq DOMAIN Defaults(p)
           /\ Defaults(p).logLevel = 0 /\ Defaults(p).ownPort = 8000
           /\ p = "client" =>
                  /\ {"serverPort", "packetAmount"} \subseteq DOMAIN Defaults(p)
                  /\ Defaults(p).serverPort = 0 /\ Defaults(p).packetAmount = 255
<1>1. CASE p = "client"
  BY <1>1 DEF Defaults, Unset, MemberType
<1>2. CASE p = "server"
  <2>1. /\ \A m \in DOMAIN Defaults(p) : m # "counters" => Defaults(p)[m] \in Nat
        /\ Defaults(p)["counters"] = <<0>>
        /\ {"logLevel", "ownPort"} \subseteq DOMAIN Defaults(p)
        /\ Defaults(p).logLevel = 0 /\ Defaults(p).ownPort = 8000
    BY <1>2 DEF Defaults
  <2>2. <<0>> \in Seq(Nat)
    OBVIOUS
  <2>3. \A m \in DOMAIN Defaults(p) : Defaults(p)[m] \in MemberType(m)
    BY <2>1, <2>2 DEF MemberType
  <2>4. QED  BY <1>2, <2>1, <2>3
<1>3. QED  BY <1>1, <1>2 DEF Programs

\* Two changed values leave a file a file.
LEMMA FilesAreTyped ==
    ASSUME NEW p \in Programs, NEW k1 \in Keys(p), NEW k2 \in Keys(p),
           NEW v1 \in Values, NEW v2 \in Values
    PROVE  [Correct[p] EXCEPT ![k1] = v1, ![k2] = v2] \in [Keys(p) -> Value]
<1>1. Correct[p] \in [Keys(p) -> Value] /\ v1 \in Value /\ v2 \in Value
  BY FilesAssumption
<1>2. QED  BY <1>1

LEMMA StartsInside == Init => ConfigInv
<1>1. SUFFICES ASSUME Init
               PROVE  ConfigInv
  OBVIOUS
<1>2. program \in Programs /\ at = 1 /\ conf = Defaults(program) /\ phase = "open" /\
      level = 0 /\ silent = FALSE /\ unopened = FALSE
  BY <1>1 DEF Init
<1>3. file \in [Keys(program) -> Value]
  <2>1. PICK k1 \in Keys(program), k2 \in Keys(program), v1 \in Values, v2 \in Values :
            file = [Correct[program] EXCEPT ![k1] = v1, ![k2] = v2]
    BY <1>1 DEF Init
  <2>2. QED  BY <1>2, <2>1, FilesAreTyped
<1>4. TypeOK
  <2>1. at \in 1..Len(Steps(program)) + 1
    BY <1>2, StepKinds
  <2>2. /\ \A m \in DOMAIN conf : conf[m] \in MemberType(m)
        /\ conf.logLevel < 256 /\ conf.ownPort < 65536
        /\ program = "client" => conf.serverPort < 65536 /\ conf.packetAmount < 256
    <3>1. /\ conf.logLevel = 0 /\ conf.ownPort = 8000
          /\ program = "client" => conf.serverPort = 0 /\ conf.packetAmount = 255
      BY <1>2, DefaultsAreTyped
    <3>2. QED  BY <1>2, <3>1, DefaultsAreTyped
  <2>3. level \in Nat /\ level < 256
    BY <1>2
  <2>4. /\ program \in Programs /\ silent \in BOOLEAN /\ unopened \in BOOLEAN
        /\ phase \in {"open", "read", "running", "exited", "crashed"} /\ phase # "running"
        /\ DOMAIN conf = DOMAIN Defaults(program)
    BY <1>2
  <2>5. QED  BY <1>3, <2>1, <2>2, <2>3, <2>4 DEF TypeOK
<1>5. Passed
  <2>1. \A i \in FieldSteps(program) \cup SectionSteps(program) : ~(i < at)
    BY <1>2, StepKinds
  <2>2. \A m \in DOMAIN Defaults(program) : Default(m)
    BY <1>2 DEF Default
  <2>3. QED  BY <1>2, <2>1, <2>2, FieldMembers DEF Passed
<1>6. Inside
  <2>1. 1 \notin FieldSteps(program)
    BY <1>2 DEF FieldSteps, ClientFields, ServerFields
  <2>2. QED  BY <1>2, <2>1 DEF Inside, Alive
<1>7. AmountInRange
  BY <1>2, DefaultsAreTyped DEF AmountInRange
<1>8. QED
  BY <1>2, <1>4, <1>5, <1>6, <1>7 DEF ConfigInv, LevelOfFile, Refused, FaultsAreTold

-------------------------------------------------------------------------------
(* The kinds of steps. *)

\* The process ends for a reason that is not the schema's.
LEMMA ExitStep ==
    ASSUME ConfigInv, Alive, Exit, unopened' \in BOOLEAN, unopened' \/ ~Valid(program, file)
    PROVE  ConfigInv'
<1>1. /\ program' = program /\ file' = file /\ at' = at /\ conf' = conf /\ level' = level
      /\ phase' = "exited" /\ silent' = (3 < level)
  BY DEF Exit
<1>2. TypeOK'
  BY <1>1 DEF ConfigInv, TypeOK
<1>3. LevelOfFile'
  BY <1>1 DEF ConfigInv, LevelOfFile, IsObject
<1>4. FaultsAreTold'
  <2>1. level \in Nat
    BY DEF ConfigInv, TypeOK
  <2>2. ASSUME 3 < level
        PROVE  IsObject("log") /\ file[<<"log", "level">>].v % 256 > 2
    <3>1. level # 0 /\ level > 2
      BY <2>1, <2>2
    <3>2. QED  BY <3>1 DEF ConfigInv, LevelOfFile
  <2>3. QED  BY <1>1, <2>2 DEF FaultsAreTold, IsObject
<1>5. ~Alive'
  BY <1>1 DEF Alive
<1>6. Refused'
  BY <1>1 DEF Refused
<1>7. QED
  BY <1>1, <1>2, <1>3, <1>4, <1>5, <1>6 DEF ConfigInv, Passed, Inside, AmountInRange

\* The pass goes on, past fields and sections that are as they should be.
LEMMA MoveStep ==
    ASSUME ConfigInv, phase = "read", NEW n, n \in (at + 1)..(Last(program) + 1), GoTo(n),
           UNCHANGED <<conf, level, unopened>>,
           \A i \in FieldSteps(program) :
               at <= i /\ i < n => ~Given(Steps(program)[i]),
           \A i \in SectionSteps(program) :
               at <= i /\ i < n => SectionDone(Steps(program)[i].section),
           n \in FieldSteps(program) => IsObject(Steps(program)[n].section)
    PROVE  ConfigInv'
<1>1. /\ program' = program /\ file' = file /\ at' = n /\ conf' = conf /\ level' = level
      /\ phase' = phase /\ silent' = silent /\ unopened' = unopened
  BY DEF GoTo
<1>2. /\ program \in Programs /\ at \in Nat /\ Last(program) \in Nat
      /\ Len(Steps(program)) = Last(program)
      /\ \A i \in FieldSteps(program) \cup SectionSteps(program) : i \in Nat
  <2>1. program \in Programs /\ at \in 1..Len(Steps(program)) + 1
    BY DEF ConfigInv, TypeOK
  <2>2. QED  BY <2>1, StepKinds
<1>3. TypeOK'
  <2>1. n \in 1..Len(Steps(program)) + 1
    BY <1>2
  <2>2. QED  BY <1>1, <2>1 DEF ConfigInv, TypeOK
<1>4. Passed'
  <2>1. Passed /\ Alive
    BY DEF ConfigInv, Alive
  <2>2. ASSUME NEW i \in FieldSteps(program)
        PROVE  IF i < n THEN FieldDone(Steps(program)[i])
                        ELSE Default(Steps(program)[i].member)
    <3>1. CASE i < at
      BY <1>2, <2>1, <3>1 DEF Passed
    <3>2. CASE at <= i /\ i < n
      <4>1. Default(Steps(program)[i].member) /\ ~Given(Steps(program)[i])
        BY <1>2, <2>1, <3>2 DEF Passed
      <4>2. QED  BY <3>2, <4>1 DEF FieldDone
    <3>3. CASE n <= i
      BY <1>2, <2>1, <3>3 DEF Passed
    <3>4. QED  BY <1>2, <3>1, <3>2, <3>3
  <2>3. ASSUME NEW i \in SectionSteps(program), i < n
        PROVE  SectionDone(Steps(program)[i].section)
    <3>1. CASE i < at
      BY <2>1, <3>1 DEF Passed
    <3>2. CASE at <= i
      BY <2>3, <3>2
    <3>3. QED  BY <1>2, <3>1, <3>2
  <2>4. QED
    BY <1>1, <2>2, <2>3
       DEF Passed, FieldDone, Default, SectionDone, Given, ValueOf, Has, IsObject
<1>5. Inside'
  BY <1>1 DEF Inside, Step, IsObject
<1>6. AmountInRange'
  BY <1>1 DEF ConfigInv, AmountInRange, Alive
<1>7. LevelOfFile' /\ FaultsAreTold'
  BY <1>1 DEF ConfigInv, LevelOfFile, FaultsAreTold, IsObject
<1>8. Refused'
  BY <1>1 DEF Refused
<1>9. QED  BY <1>3, <1>4, <1>5, <1>6, <1>7, <1>8 DEF ConfigInv

-------------------------------------------------------------------------------
(* What a fault says of the file. *)

LEMMA FileTyped ==
    ASSUME ConfigInv
    PROVE  /\ program \in Programs
           /\ \A k \in Keys(program) : file[k] \in Value
           /\ at \in Nat /\ 1 <= at /\ at <= Last(program) + 1
           /\ Len(Steps(program)) = Last(program) /\ Last(program) \in Nat
<1>1. /\ program \in Programs /\ file \in [Keys(program) -> Value]
      /\ at \in 1..Len(Steps(program)) + 1
  BY DEF ConfigInv, TypeOK
<1>2. Len(Steps(program)) = Last(program) /\ Last(program) \in Nat
  BY <1>1, StepKinds
<1>3. QED  BY <1>1, <1>2

\* Which of the two it is at.
LEMMA WhereItIs ==
    ASSUME ConfigInv
    PROVE  /\ AtSection => phase = "read" /\ at \in SectionSteps(program)
           /\ AtField => phase = "read" /\ at \in FieldSteps(program)
<1>1. at <= Len(Steps(program)) => at \in SectionSteps(program) \cup FieldSteps(program)
  BY FileTyped, StepKinds
<1>2. /\ at \in FieldSteps(program) => Step.key # "itself"
      /\ at \in SectionSteps(program) => Step.key = "itself"
  BY FileTyped, StepKeys DEF Step
<1>3. QED  BY <1>1, <1>2 DEF AtSection, AtField, IsField

\* The schema has no place for a section that is something else.
LEMMA SectionsAreObjects ==
    ASSUME NEW p \in Programs, NEW f, NEW s \in Sections(p), Valid(p, f)
    PROVE  /\ f[<<s, "itself">>].type = "object" \/ f[<<s, "itself">>].type = "absent"
           /\ s \in Mandatory(p) => f[<<s, "itself">>].type = "object"
<1> DEFINE k == <<s, "itself">>
<1>1. k \in Keys(p) /\ k[2] = "itself"
  BY DEF Keys
<1>2. SchemaAllows(p, k, f[k])
  BY <1>1 DEF Valid
<1>3. s \in Mandatory(p) => k \in {<<x, "itself">> : x \in Mandatory(p)}
  OBVIOUS
<1>4. k # <<"log", "level">>
  OBVIOUS
<1> HIDE DEF k
<1>5. /\ f[k].type = "object" \/ f[k].type = "absent"
      /\ s \in Mandatory(p) => f[k].type = "object"
  BY <1>1, <1>2, <1>3, <1>4 DEF SchemaAllows
<1>6. QED  BY <1>5 DEF k

\* Nor for one that lacks a mandatory field.
LEMMA MandatoryFieldsAreThere ==
    ASSUME NEW p \in Programs, NEW f, NEW k \in MandatoryFields(p), Valid(p, f)
    PROVE  f[k].type # "absent"
<1>1. k[1] \in Mandatory(p) /\ k \in Keys(p) /\ k[2] # "itself"
  BY MandatorySections
<1>2. k[1] \in Sections(p)
  BY <1>1 DEF Mandatory, Sections
<1>3. f[<<k[1], "itself">>].type # "absent"
  BY <1>1, <1>2, SectionsAreObjects
<1>4. SchemaAllows(p, k, f[k])
  BY <1>1, <1>3 DEF Valid
<1>5. QED  BY <1>1, <1>4 DEF SchemaAllows

\* A field the schema allows has the type Config asks for, and an amount is in range.
LEMMA FieldsAreAllowed ==
    ASSUME NEW p \in Programs, NEW i \in FieldSteps(p), NEW f,
           \A k \in Keys(p) : f[k] \in Value, Valid(p, f),
           f[<<Steps(p)[i].section, "itself">>].type = "object",
           f[<<Steps(p)[i].section, Steps(p)[i].key>>].type # "absent"
    PROVE  LET value == f[<<Steps(p)[i].section, Steps(p)[i].key>>]
           IN  /\ HasType(value, Steps(p)[i].type)
               /\ Steps(p)[i].member = "packetAmount" =>
                      /\ 8 <= Stored("packetAmount", value.v)
                      /\ Stored("packetAmount", value.v) <= 255
<1> DEFINE k == <<Steps(p)[i].section, Steps(p)[i].key>>
<1>1. k \in Keys(p) /\ k[1] = Steps(p)[i].section
  BY FieldKeys
<1>2. SchemaAllows(p, k, f[k]) /\ f[k] \in Value
  BY <1>1 DEF Valid
<1>3. QED  BY <1>2, SchemaFits

-------------------------------------------------------------------------------
(* One lemma per action. *)

LEMMA ReadFailsStep == ConfigInv /\ ReadFails => ConfigInv'
<1>1. SUFFICES ASSUME ConfigInv, ReadFails
               PROVE  ConfigInv'
  OBVIOUS
<1>2. Alive /\ Exit /\ unopened' = TRUE
  BY <1>1 DEF ReadFails, Alive
<1>3. QED  BY <1>1, <1>2, ExitStep

LEMMA ReadRootStep == ConfigInv /\ ReadRoot => ConfigInv'
<1>1. SUFFICES ASSUME ConfigInv, ReadRoot
               PROVE  ConfigInv'
  OBVIOUS
<1>2. Alive /\ phase = "open" /\ unopened' = unopened
  BY <1>1 DEF ReadRoot, Alive
<1>3. CASE \A s \in Mandatory(program) : Has(<<s, "itself">>)
  <2>1. /\ program' = program /\ file' = file /\ at' = at /\ conf' = conf /\ level' = level
        /\ phase' = "read" /\ silent' = silent /\ Alive'
    BY <1>1, <1>3 DEF ReadRoot, Alive
  <2>2. TypeOK'
    BY <1>1, <1>2, <2>1 DEF ConfigInv, TypeOK
  <2>3. Passed'
    BY <1>1, <1>2, <2>1
       DEF ConfigInv, Passed, FieldDone, Default, SectionDone, Given, ValueOf, Has, IsObject
  <2>4. Inside'
    BY <1>1, <1>2, <2>1 DEF ConfigInv, Inside, Step, IsObject
  <2>5. AmountInRange'
    BY <1>1, <1>2, <2>1 DEF ConfigInv, AmountInRange
  <2>6. LevelOfFile' /\ FaultsAreTold' /\ Refused'
    BY <1>1, <1>2, <2>1 DEF ConfigInv, LevelOfFile, FaultsAreTold, IsObject, Refused
  <2>7. QED  BY <2>2, <2>3, <2>4, <2>5, <2>6 DEF ConfigInv
<1>4. CASE ~\A s \in Mandatory(program) : Has(<<s, "itself">>)
  <2>1. Exit
    BY <1>1, <1>4 DEF ReadRoot
  <2>2. PICK s \in Mandatory(program) : file[<<s, "itself">>].type = "absent"
    BY <1>4 DEF Has
  <2>3. s \in Sections(program)
    BY DEF Mandatory, Sections
  <2>4. ~Valid(program, file)
    BY <1>1, <2>2, <2>3, FileTyped, SectionsAreObjects
  <2>5. unopened' \in BOOLEAN
    BY <1>1, <1>2 DEF ConfigInv, TypeOK
  <2>6. QED  BY <1>1, <1>2, <2>1, <2>4, <2>5, ExitStep
<1>5. QED  BY <1>3, <1>4

LEMMA RefuseSectionStep == ConfigInv /\ RefuseSection => ConfigInv'
<1>1. SUFFICES ASSUME ConfigInv, RefuseSection
               PROVE  ConfigInv'
  OBVIOUS
<1>2. /\ Alive /\ Exit /\ unopened' = unopened /\ unopened' \in BOOLEAN
      /\ program \in Programs /\ Step.section \in Mandatory(program)
  BY <1>1 DEF RefuseSection, AtSection, Alive, ConfigInv, TypeOK
<1>3. Step.section \in Sections(program)
  BY <1>2 DEF Mandatory, Sections
<1>4. ~Valid(program, file)
  <2>1. CASE ~IsObject(Step.section)
    BY <1>2, <1>3, <2>1, SectionsAreObjects DEF IsObject
  <2>2. CASE IsEmpty(Step.section)
    <3>1. PICK k \in MandatoryFields(program) : k[1] = Step.section
      BY <1>2, MandatorySections
    <3>2. k \in Keys(program) /\ k[2] # "itself"
      BY <1>2, MandatorySections
    <3>3. file[k].type = "absent"
      BY <2>2, <3>1, <3>2 DEF IsEmpty, Has
    <3>4. QED  BY <1>2, <3>3, MandatoryFieldsAreThere
  <2>3. CASE \E k \in MandatoryFields(program) : k[1] = Step.section /\ ~Has(k)
    BY <1>2, <2>3, MandatoryFieldsAreThere DEF Has
  <2>4. QED  BY <1>1, <2>1, <2>2, <2>3 DEF RefuseSection
<1>5. QED  BY <1>1, <1>2, <1>4, ExitStep

LEMMA EnterSectionStep == ConfigInv /\ EnterSection => ConfigInv'
<1>1. SUFFICES ASSUME ConfigInv, EnterSection
               PROVE  ConfigInv'
  OBVIOUS
<1>2. /\ AtSection /\ IsObject(Step.section) /\ GoTo(at + 1)
      /\ UNCHANGED <<conf, level, unopened>>
  BY <1>1 DEF EnterSection
<1>3. /\ phase = "read" /\ at \in SectionSteps(program) /\ program \in Programs
      /\ at \in Nat /\ at <= Last(program) /\ Last(program) \in Nat
  BY <1>1, <1>2, WhereItIs, FileTyped, StepKinds
<1>4. /\ at \notin FieldSteps(program)
      /\ \A i \in FieldSteps(program) \cup SectionSteps(program) : i \in Nat
  BY <1>3, StepKinds
<1>5. SectionDone(Step.section)
  BY <1>1, <1>2 DEF EnterSection, SectionDone
<1>6. at + 1 \in FieldSteps(program) => IsObject(Steps(program)[at + 1].section)
  <2>1. SUFFICES ASSUME at + 1 \in FieldSteps(program)
                 PROVE  IsObject(Steps(program)[at + 1].section)
    OBVIOUS
  <2>2. Steps(program)[at + 1].section = Steps(program)[(at + 1) - 1].section
    BY <1>3, <2>1, FieldFollows
  <2>3. (at + 1) - 1 = at
    BY <1>3
  <2>4. QED  BY <1>2, <2>2, <2>3 DEF Step
<1>7. \A i \in FieldSteps(program) : at <= i /\ i < at + 1 => ~Given(Steps(program)[i])
  BY <1>3, <1>4
<1>8. \A i \in SectionSteps(program) :
          at <= i /\ i < at + 1 => SectionDone(Steps(program)[i].section)
  <2>1. \A i \in SectionSteps(program) : at <= i /\ i < at + 1 => i = at
    BY <1>3, <1>4
  <2>2. QED  BY <1>5, <2>1 DEF Step
<1>9. at + 1 \in (at + 1)..(Last(program) + 1)
  BY <1>3
<1>10. QED  BY <1>1, <1>2, <1>3, <1>6, <1>7, <1>8, <1>9, MoveStep

LEMMA SkipSectionStep == ConfigInv /\ SkipSection => ConfigInv'
<1>1. SUFFICES ASSUME ConfigInv, SkipSection
               PROVE  ConfigInv'
  OBVIOUS
<1>2. /\ AtSection /\ Step.section \notin Mandatory(program) /\ ~IsObject(Step.section)
      /\ UNCHANGED <<conf, level, unopened>>
  BY <1>1 DEF SkipSection
<1>3. /\ phase = "read" /\ at \in SectionSteps(program) /\ program \in Programs
      /\ at \in Nat /\ at <= Last(program) /\ Last(program) \in Nat
  BY <1>1, <1>2, WhereItIs, FileTyped, StepKinds
<1>4. CASE GoTo(PastSection)
  <2>1. /\ PastSection \in (at + 1)..(Last(program) + 1)
        /\ PastSection \notin FieldSteps(program)
        /\ \A j \in SectionSteps(program) : j < PastSection => j <= at
        /\ \A j \in FieldSteps(program) : at < j /\ j < PastSection =>
               Steps(program)[j].section = Step.section
    BY <1>3, PastSectionPasses
  <2>2. /\ at \notin FieldSteps(program)
        /\ \A i \in FieldSteps(program) \cup SectionSteps(program) : i \in Nat
    BY <1>3, StepKinds
  <2>3. ASSUME NEW i \in FieldSteps(program), at <= i, i < PastSection
        PROVE  ~Given(Steps(program)[i])
    <3>1. at < i
      BY <1>3, <2>2, <2>3
    <3>2. Steps(program)[i].section = Step.section
      BY <2>1, <2>3, <3>1
    <3>3. QED  BY <1>2, <3>2 DEF Given
  <2>4. ASSUME NEW i \in SectionSteps(program), at <= i, i < PastSection
        PROVE  SectionDone(Steps(program)[i].section)
    <3>1. i <= at
      BY <2>1, <2>4
    <3>2. i = at
      BY <1>3, <2>2, <2>4, <3>1
    <3>3. QED  BY <1>2, <3>2 DEF SectionDone, Step
  <2>5. QED  BY <1>1, <1>2, <1>3, <1>4, <2>1, <2>3, <2>4, MoveStep
<1>5. CASE Has(<<Step.section, "itself">>) /\ phase' = "crashed" /\
           UNCHANGED <<program, file, at, silent>>
  <2>1. /\ program' = program /\ file' = file /\ at' = at /\ conf' = conf /\ level' = level
        /\ silent' = silent /\ unopened' = unopened /\ phase' = "crashed"
    BY <1>2, <1>5
  <2>2. Step.section \in Sections(program)
    BY <1>3, SectionKeys DEF Step
  <2>3. ~Valid(program, file)
    BY <1>2, <1>3, <1>5, <2>2, SectionsAreObjects DEF IsObject, Has
  <2>4. TypeOK'
    BY <1>1, <2>1 DEF ConfigInv, TypeOK
  <2>5. LevelOfFile' /\ FaultsAreTold' /\ Refused' /\ ~Alive'
    BY <1>1, <2>1, <2>3
       DEF ConfigInv, LevelOfFile, FaultsAreTold, IsObject, Refused, Alive
  <2>6. QED  BY <2>1, <2>4, <2>5 DEF ConfigInv, Passed, Inside, AmountInRange
<1>6. QED  BY <1>1, <1>4, <1>5 DEF SkipSection

\* What the two lemmas about fields start from.
LEMMA AtAField ==
    ASSUME ConfigInv, AtField
    PROVE  /\ phase = "read" /\ Alive /\ program \in Programs
           /\ at \in FieldSteps(program) /\ at \notin SectionSteps(program)
           /\ at \in Nat /\ at <= Last(program) /\ Last(program) \in Nat
           /\ Len(Steps(program)) = Last(program)
           /\ \A i \in FieldSteps(program) \cup SectionSteps(program) : i \in Nat
           /\ IsObject(Step.section)
           /\ <<Step.section, Step.key>> \in Keys(program) /\ ValueOf(Step) \in Value
           /\ HasType(ValueOf(Step), Step.type) => ValueOf(Step).type # "absent"
<1>1. phase = "read" /\ Alive /\ at \in FieldSteps(program)
  BY WhereItIs DEF Alive
<1>2. /\ program \in Programs /\ at \in Nat /\ at <= Last(program) /\ Last(program) \in Nat
      /\ Len(Steps(program)) = Last(program)
  BY <1>1, FileTyped, StepKinds
<1>3. /\ at \notin SectionSteps(program)
      /\ \A i \in FieldSteps(program) \cup SectionSteps(program) : i \in Nat
  BY <1>1, <1>2, StepKinds
<1>4. IsObject(Step.section)
  BY <1>1 DEF ConfigInv, Inside
<1>5. <<Step.section, Step.key>> \in Keys(program) /\ ValueOf(Step) \in Value
  BY <1>1, <1>2, FieldKeys, FileTyped DEF Step, ValueOf
<1>6. HasType(ValueOf(Step), Step.type) => ValueOf(Step).type # "absent"
  BY <1>1, <1>2, AbsentHasNoType DEF Step
<1>7. QED  BY <1>1, <1>2, <1>3, <1>4, <1>5, <1>6

LEMMA NextFieldInside ==
    ASSUME ConfigInv, AtField, at + 1 \in FieldSteps(program)
    PROVE  IsObject(Steps(program)[at + 1].section)
<1>1. Steps(program)[at + 1].section = Steps(program)[(at + 1) - 1].section
  BY AtAField, FieldFollows
<1>2. (at + 1) - 1 = at
  BY AtAField
<1>3. QED  BY <1>1, <1>2, AtAField DEF Step

LEMMA SkipFieldStep == ConfigInv /\ SkipField => ConfigInv'
<1>1. SUFFICES ASSUME ConfigInv, SkipField
               PROVE  ConfigInv'
  OBVIOUS
<1>2. /\ AtField /\ ValueOf(Step).type = "absent" /\ GoTo(at + 1)
      /\ UNCHANGED <<conf, level, unopened>>
  BY <1>1 DEF SkipField
<1>3. /\ phase = "read" /\ at \in Nat /\ at <= Last(program) /\ Last(program) \in Nat
      /\ at \notin SectionSteps(program)
      /\ \A i \in FieldSteps(program) \cup SectionSteps(program) : i \in Nat
  BY <1>1, <1>2, AtAField
<1>4. \A i \in FieldSteps(program) \cup SectionSteps(program) : at <= i /\ i < at + 1 => i = at
  BY <1>3
<1>5. ~Given(Step)
  BY <1>2 DEF Given, ValueOf, Has
<1>6. \A i \in FieldSteps(program) : at <= i /\ i < at + 1 => ~Given(Steps(program)[i])
  BY <1>4, <1>5 DEF Step
<1>7. \A i \in SectionSteps(program) :
          at <= i /\ i < at + 1 => SectionDone(Steps(program)[i].section)
  BY <1>3, <1>4
<1>8. at + 1 \in FieldSteps(program) => IsObject(Steps(program)[at + 1].section)
  BY <1>1, <1>2, NextFieldInside
<1>9. at + 1 \in (at + 1)..(Last(program) + 1)
  BY <1>3
<1>10. QED  BY <1>1, <1>2, <1>3, <1>6, <1>7, <1>8, <1>9, MoveStep

LEMMA RefuseFieldStep == ConfigInv /\ RefuseField => ConfigInv'
<1>1. SUFFICES ASSUME ConfigInv, RefuseField
               PROVE  ConfigInv'
  OBVIOUS
<1>2. /\ AtField /\ ValueOf(Step).type # "absent" /\ ~HasType(ValueOf(Step), Step.type)
      /\ Exit /\ unopened' = unopened
  BY <1>1 DEF RefuseField
<1>3. /\ Alive /\ program \in Programs /\ at \in FieldSteps(program)
      /\ IsObject(Step.section)
  BY <1>1, <1>2, AtAField
<1>4. ~Valid(program, file)
  BY <1>1, <1>2, <1>3, FileTyped, FieldsAreAllowed DEF IsObject, ValueOf, Step
<1>5. unopened' \in BOOLEAN
  BY <1>1, <1>2 DEF ConfigInv, TypeOK
<1>6. QED  BY <1>1, <1>2, <1>3, <1>4, <1>5, ExitStep

\* A field's value in its member: the rest of Config stays.
LEMMA StoreStep ==
    ASSUME ConfigInv, AtField, HasType(ValueOf(Step), Step.type),
           conf' = [conf EXCEPT ![Step.member] = StoredValue]
    PROVE  /\ StoredValue \in MemberType(Step.member)
           /\ DOMAIN conf' = DOMAIN Defaults(program)
           /\ \A m \in DOMAIN conf' : conf'[m] \in MemberType(m)
           /\ conf'[Step.member] = StoredValue
           /\ \A m \in DOMAIN conf : m # Step.member => conf'[m] = conf[m]
           /\ Step.member = "logLevel" => StoredValue < 256
           /\ conf'.logLevel < 256 /\ conf'.ownPort < 65536
           /\ program = "client" => conf'.serverPort < 65536 /\ conf'.packetAmount < 256
<1>1. /\ program \in Programs /\ at \in FieldSteps(program) /\ ValueOf(Step) \in Value
  BY AtAField
<1>2. Step.member \in DOMAIN conf /\ DOMAIN conf = DOMAIN Defaults(program)
  <2>1. Step.member \in DOMAIN Defaults(program)
    BY <1>1, FieldMembers DEF Step
  <2>2. DOMAIN conf = DOMAIN Defaults(program)
    BY DEF ConfigInv, TypeOK
  <2>3. QED  BY <2>1, <2>2
<1>3. /\ StoredValue \in MemberType(Step.member)
      /\ Step.member \in {"logLevel", "packetAmount"} => StoredValue < 256
      /\ Step.member \in {"serverPort", "ownPort"} => StoredValue < 65536
  <2>1. ValueOf(Step).v \in Nat
    BY <1>1 DEF Value
  <2>2. CASE Step.member = "counters"
    <3>1. conf[Step.member] \in Seq(Nat)
      BY <1>2, <2>2 DEF ConfigInv, TypeOK, MemberType
    <3>2. QED  BY <2>1, <2>2, <3>1 DEF StoredValue, Updated, MemberType
  <2>3. CASE Step.member # "counters"
    BY <2>1, <2>3, StoredIn DEF StoredValue, Updated, MemberType
  <2>4. QED  BY <2>2, <2>3
<1>4. /\ \A m \in DOMAIN conf : conf[m] \in MemberType(m)
      /\ conf.logLevel < 256 /\ conf.ownPort < 65536
      /\ program = "client" => conf.serverPort < 65536 /\ conf.packetAmount < 256
  BY DEF ConfigInv, TypeOK
<1>5. /\ {"logLevel", "ownPort"} \subseteq DOMAIN conf
      /\ program = "client" => {"serverPort", "packetAmount"} \subseteq DOMAIN conf
  BY <1>1, <1>2, DefaultsAreTyped
<1>6. /\ DOMAIN conf' = DOMAIN conf
      /\ \A m \in DOMAIN conf : conf'[m] = IF m = Step.member THEN StoredValue ELSE conf[m]
  <2> HIDE DEF StoredValue
  <2>1. QED  OBVIOUS
<1> HIDE DEF StoredValue
<1>7. \A m \in DOMAIN conf' : conf'[m] \in MemberType(m)
  BY <1>3, <1>4, <1>6
<1>8. conf'.logLevel < 256 /\ conf'.ownPort < 65536
  BY <1>3, <1>4, <1>5, <1>6
<1>9. program = "client" => conf'.serverPort < 65536 /\ conf'.packetAmount < 256
  BY <1>3, <1>4, <1>5, <1>6
<1>10. QED  BY <1>2, <1>3, <1>6, <1>7, <1>8, <1>9

\* Where the log level and the amount come from.
LEMMA LevelAndAmount ==
    ASSUME NEW p \in Programs, NEW i \in FieldSteps(p)
    PROVE  /\ Steps(p)[i].member = "logLevel" =>
                  Steps(p)[i].section = "log" /\ Steps(p)[i].key = "level"
           /\ p # "client" => Steps(p)[i].member # "packetAmount"
<1>1. CASE p = "client"
  BY <1>1, ClientSections, ClientKeys, ClientMembers DEF Steps, FieldSteps, ClientFields
<1>2. CASE p = "server"
  BY <1>2, ServerSections, ServerKeys, ServerMembers DEF Steps, FieldSteps, ServerFields
<1>3. QED  BY <1>1, <1>2 DEF Programs

LEMMA ReadFieldStep == ConfigInv /\ ReadField => ConfigInv'
<1>1. SUFFICES ASSUME ConfigInv, ReadField
               PROVE  ConfigInv'
  OBVIOUS
<1>2. /\ AtField /\ HasType(ValueOf(Step), Step.type)
      /\ conf' = [conf EXCEPT ![Step.member] = StoredValue]
      /\ level' = IF Step.member = "logLevel" THEN StoredValue ELSE level
      /\ unopened' = unopened /\ program' = program /\ file' = file
  BY <1>1 DEF ReadField, GoTo
<1>3. /\ phase = "read" /\ Alive /\ program \in Programs
      /\ at \in FieldSteps(program) /\ at \notin SectionSteps(program)
      /\ at \in Nat /\ at <= Last(program) /\ Last(program) \in Nat
      /\ Len(Steps(program)) = Last(program)
      /\ \A i \in FieldSteps(program) \cup SectionSteps(program) : i \in Nat
      /\ IsObject(Step.section) /\ ValueOf(Step).type # "absent"
  BY <1>1, <1>2, AtAField
<1>4. /\ StoredValue \in MemberType(Step.member)
      /\ DOMAIN conf' = DOMAIN Defaults(program)
      /\ \A m \in DOMAIN conf' : conf'[m] \in MemberType(m)
      /\ conf'[Step.member] = StoredValue
      /\ \A m \in DOMAIN conf : m # Step.member => conf'[m] = conf[m]
      /\ Step.member = "logLevel" => StoredValue < 256
      /\ conf'.logLevel < 256 /\ conf'.ownPort < 65536
      /\ program = "client" => conf'.serverPort < 65536 /\ conf'.packetAmount < 256
  BY <1>1, <1>2, StoreStep
<1>5. /\ program' \in Programs /\ file' \in [Keys(program') -> Value]
      /\ unopened' \in BOOLEAN /\ silent \in BOOLEAN /\ at \in 1..Len(Steps(program)) + 1
      /\ level \in Nat /\ level < 256
  BY <1>1, <1>2 DEF ConfigInv, TypeOK
<1>6. level' \in Nat /\ level' < 256
  BY <1>2, <1>4, <1>5 DEF MemberType
<1>7. LevelOfFile'
  <2>1. CASE Step.member = "logLevel"
    <3>1. Step.section = "log" /\ Step.key = "level"
      BY <1>3, <2>1, LevelAndAmount DEF Step
    <3>2. ValueOf(Step).v \in Nat
      BY <1>1, <1>2, AtAField DEF Value
    <3>3. StoredValue = file[<<"log", "level">>].v % 256
      BY <2>1, <3>1, <3>2, StoredIs DEF StoredValue, Updated, ValueOf
    <3>4. QED  BY <1>2, <1>3, <2>1, <3>1, <3>3 DEF LevelOfFile, IsObject
  <2>2. CASE Step.member # "logLevel"
    BY <1>1, <1>2, <2>2 DEF ConfigInv, LevelOfFile, IsObject
  <2>3. QED  BY <2>1, <2>2
<1>8. CASE Step.member = "packetAmount" /\ OutOfRange(StoredValue)
  <2>1. phase' = "exited" /\ silent' = (3 < level) /\ at' = at
    BY <1>1, <1>8 DEF ReadField
  <2>2. ~Alive' /\ phase' # "running"
    BY <2>1 DEF Alive
  <2>3. TypeOK'
    <3>1. /\ phase' \in {"open", "read", "running", "exited", "crashed"}
          /\ at' \in 1..Len(Steps(program')) + 1 /\ silent' \in BOOLEAN
      BY <1>2, <1>5, <2>1
    <3>2. QED  BY <1>2, <1>4, <1>5, <1>6, <2>2, <3>1 DEF TypeOK
  <2>4. ~Valid(program, file)
    <3>1. ~(8 <= StoredValue /\ StoredValue <= 255)
      BY <1>4, <1>8 DEF OutOfRange, MemberType
    <3>2. StoredValue = Stored("packetAmount", ValueOf(Step).v)
      BY <1>8 DEF StoredValue, Updated
    <3>3. QED
      BY <1>1, <1>3, <1>8, <3>1, <3>2, FileTyped, FieldsAreAllowed
         DEF IsObject, ValueOf, Step
  <2>5. FaultsAreTold'
    <3>1. ASSUME 3 < level
          PROVE  IsObject("log") /\ file[<<"log", "level">>].v % 256 > 2
      <4>1. level # 0 /\ level > 2
        BY <1>5, <3>1
      <4>2. QED  BY <1>1, <4>1 DEF ConfigInv, LevelOfFile
    <3>2. QED  BY <1>2, <2>1, <3>1 DEF FaultsAreTold, IsObject
  <2>6. Refused'
    BY <1>2, <2>4 DEF Refused
  <2>7. QED
    BY <1>7, <2>1, <2>2, <2>3, <2>5, <2>6 DEF ConfigInv, Passed, Inside, AmountInRange
<1>9. CASE ~(Step.member = "packetAmount" /\ OutOfRange(StoredValue))
  <2>1. phase' = "read" /\ silent' = silent /\ at' = at + 1
    BY <1>1, <1>3, <1>9 DEF ReadField, GoTo
  <2>2. TypeOK'
    <3>1. /\ phase' \in {"open", "read", "running", "exited", "crashed"}
          /\ phase' # "running" /\ at' \in 1..Len(Steps(program')) + 1 /\ silent' \in BOOLEAN
      BY <1>2, <1>3, <1>5, <2>1
    <3>2. QED  BY <1>2, <1>4, <1>5, <1>6, <3>1 DEF TypeOK
  <2>3. ASSUME NEW i \in FieldSteps(program)
        PROVE  IF i < at + 1 THEN FieldDone(Steps(program)[i])'
                             ELSE Default(Steps(program)[i].member)'
    <3>1. CASE i = at
      <4>1. Steps(program)[i] = Step
        BY <3>1 DEF Step
      <4>2. conf'[Steps(program)[i].member] =
                Updated(Steps(program)[i].member, Defaults(program)[Steps(program)[i].member],
                        ValueOf(Steps(program)[i]).v)
        <5>1. conf[Step.member] = Defaults(program)[Step.member]
          BY <1>1, <1>3 DEF ConfigInv, Passed, Default, Step
        <5>2. QED  BY <1>4, <4>1, <5>1 DEF StoredValue
      <4>3. /\ HasType(ValueOf(Steps(program)[i]), Steps(program)[i].type)
            /\ Given(Steps(program)[i])
        BY <1>2, <1>3, <4>1 DEF Given, ValueOf, Has
      <4>4. FieldDone(Steps(program)[i])'
        BY <1>2, <4>2, <4>3 DEF FieldDone, ValueOf, Given, IsObject, Has
      <4>5. i < at + 1
        BY <1>3, <3>1
      <4>6. QED  BY <4>4, <4>5
    <3>2. CASE i # at
      <4>1. Steps(program)[i].member # Step.member /\ Steps(program)[i].member \in DOMAIN conf
        BY <1>1, <1>3, <3>2, FieldMembers DEF Step, ConfigInv, TypeOK
      <4>2. conf'[Steps(program)[i].member] = conf[Steps(program)[i].member]
        BY <1>4, <4>1
      <4>3. i < at + 1 <=> i < at
        BY <1>3, <3>2
      <4>4. IF i < at THEN FieldDone(Steps(program)[i]) ELSE Default(Steps(program)[i].member)
        BY <1>1, <1>3 DEF ConfigInv, Passed
      <4>5. QED
        BY <1>2, <4>2, <4>3, <4>4 DEF FieldDone, Default, Given, ValueOf, Has, IsObject
    <3>3. QED  BY <3>1, <3>2
  <2>4. ASSUME NEW i \in SectionSteps(program), i < at + 1
        PROVE  SectionDone(Steps(program)[i].section)'
    <3>1. i < at
      <4>1. i \in Nat /\ i # at
        BY <1>3
      <4>2. QED  BY <1>3, <2>4, <4>1
    <3>2. SectionDone(Steps(program)[i].section)
      BY <1>1, <1>3, <3>1 DEF ConfigInv, Passed
    <3>3. QED  BY <1>2, <3>2 DEF SectionDone, IsObject, Has
  <2>5. Passed'
    BY <1>2, <2>1, <2>3, <2>4 DEF Passed
  <2>6. Inside'
    <3>1. at + 1 \in FieldSteps(program) => IsObject(Steps(program)[at + 1].section)
      BY <1>1, <1>2, NextFieldInside
    <3>2. QED  BY <1>2, <2>1, <3>1 DEF Inside, Step, IsObject
  <2>7. AmountInRange'
    <3>1. CASE Step.member = "packetAmount"
      BY <1>4, <1>9, <3>1 DEF OutOfRange, AmountInRange, MemberType
    <3>2. CASE Step.member # "packetAmount"
      <4>1. program = "client" => conf'.packetAmount = conf.packetAmount
        <5>1. program = "client" => "packetAmount" \in DOMAIN conf
          BY <1>1, DefaultsAreTyped DEF ConfigInv, TypeOK
        <5>2. QED  BY <1>4, <3>2, <5>1
      <4>2. QED  BY <1>1, <1>2, <1>3, <4>1 DEF ConfigInv, AmountInRange
    <3>3. QED  BY <3>1, <3>2
  <2>8. FaultsAreTold' /\ Refused'
    BY <1>1, <1>2, <2>1 DEF ConfigInv, FaultsAreTold, Refused, IsObject
  <2>9. QED  BY <1>7, <2>2, <2>5, <2>6, <2>7, <2>8 DEF ConfigInv
<1>10. QED  BY <1>8, <1>9

LEMMA PathFailsStep == ConfigInv /\ PathFails => ConfigInv'
<1>1. SUFFICES ASSUME ConfigInv, PathFails
               PROVE  ConfigInv'
  OBVIOUS
<1>2. /\ AtField /\ HasType(ValueOf(Step), Step.type)
      /\ conf' = [conf EXCEPT ![Step.member] = StoredValue]
      /\ program' = program /\ file' = file /\ at' = at /\ level' = level
      /\ phase' = "exited" /\ unopened' = TRUE
      /\ silent' = (Step.member = "statPath" /\ 2 < level)
  BY <1>1 DEF PathFails
<1>3. /\ DOMAIN conf' = DOMAIN Defaults(program)
      /\ \A m \in DOMAIN conf' : conf'[m] \in MemberType(m)
      /\ conf'.logLevel < 256 /\ conf'.ownPort < 65536
      /\ program = "client" => conf'.serverPort < 65536 /\ conf'.packetAmount < 256
  BY <1>1, <1>2, StoreStep
<1>4. TypeOK'
  <2>1. /\ phase' \in {"open", "read", "running", "exited", "crashed"} /\ phase' # "running"
        /\ silent' \in BOOLEAN /\ unopened' \in BOOLEAN
    BY <1>2
  <2>2. /\ program' \in Programs /\ file' \in [Keys(program') -> Value]
        /\ at' \in 1..Len(Steps(program')) + 1 /\ level' \in Nat /\ level' < 256
    BY <1>1, <1>2 DEF ConfigInv, TypeOK
  <2>3. QED  BY <1>2, <1>3, <2>1, <2>2 DEF TypeOK
<1>5. LevelOfFile' /\ Refused' /\ ~Alive'
  BY <1>1, <1>2 DEF ConfigInv, LevelOfFile, IsObject, Refused, Alive
<1>6. FaultsAreTold'
  <2>1. level \in Nat
    BY <1>1 DEF ConfigInv, TypeOK
  <2>2. ASSUME 2 < level
        PROVE  IsObject("log") /\ file[<<"log", "level">>].v % 256 > 2
    <3>1. level # 0 /\ level > 2
      BY <2>1, <2>2
    <3>2. QED  BY <1>1, <3>1 DEF ConfigInv, LevelOfFile
  <2>3. QED  BY <1>2, <2>2 DEF FaultsAreTold, IsObject
<1>7. QED  BY <1>2, <1>4, <1>5, <1>6 DEF ConfigInv, Passed, Inside, AmountInRange

LEMMA FinishStep == ConfigInv /\ Finish => ConfigInv'
<1>1. SUFFICES ASSUME ConfigInv, Finish
               PROVE  ConfigInv'
  OBVIOUS
<1>2. /\ program' = program /\ file' = file /\ at' = at /\ conf' = conf /\ level' = level
      /\ phase' = "running" /\ silent' = silent /\ unopened' = unopened /\ Alive
      /\ at > Len(Steps(program))
  BY <1>1 DEF Finish, Alive
<1>3. AmountInRange /\ Passed
  BY <1>1 DEF ConfigInv
<1>4. TypeOK'
  BY <1>1, <1>2, <1>3 DEF ConfigInv, TypeOK, AmountInRange
<1>5. Passed'
  BY <1>2, <1>3 DEF Passed, FieldDone, Default, SectionDone, Given, ValueOf, Has, IsObject
<1>6. Inside'
  <2>1. Last(program) < at
    BY <1>1, <1>2, FileTyped
  <2>2. at \notin FieldSteps(program)
    BY <1>1, <2>1, FileTyped, StepKinds
  <2>3. QED  BY <1>2, <2>1, <2>2 DEF Inside
<1>7. AmountInRange'
  BY <1>2, <1>3 DEF AmountInRange
<1>8. LevelOfFile' /\ FaultsAreTold' /\ Refused'
  BY <1>1, <1>2 DEF ConfigInv, LevelOfFile, FaultsAreTold, IsObject, Refused
<1>9. QED  BY <1>4, <1>5, <1>6, <1>7, <1>8 DEF ConfigInv

LEMMA StutterStep == ConfigInv /\ UNCHANGED vars => ConfigInv'
BY DEF vars, ConfigInv, TypeOK, Passed, Inside, AmountInRange, LevelOfFile, FaultsAreTold,
       Refused, Alive, FieldDone, Default, SectionDone, Given, ValueOf, Has, IsObject, Step

LEMMA Inductive == Spec => []ConfigInv
<1>1. ConfigInv /\ [Next]_vars => ConfigInv'
  BY ReadFailsStep, ReadRootStep, RefuseSectionStep, EnterSectionStep, SkipSectionStep,
     SkipFieldStep, RefuseFieldStep, ReadFieldStep, PathFailsStep, FinishStep, StutterStep
     DEF Next
<1>2. QED  BY StartsInside, <1>1, PTL DEF Spec

-------------------------------------------------------------------------------
(* The theorems. *)

\* What the constructors of Config store fits the members' widths, and a client that
\* runs has an amount that the range test passed.
THEOREM TypeCorrect == Spec => []TypeOK
<1>1. ConfigInv => TypeOK
  BY DEF ConfigInv
<1>2. QED  BY Inductive, <1>1, PTL

\* Whatever ends Config, Logger writes the reason, unless the level that SetLevel took
\* from the same file forbids it.
THEOREM ToldUnlessSilenced == Spec => []FaultsAreTold
<1>1. ConfigInv => FaultsAreTold
  BY DEF ConfigInv
<1>2. QED  BY Inductive, <1>1, PTL

\* Every field is a step, and at the end all were passed.
LEMMA AllDone ==
    ASSUME ConfigInv, phase = "running"
    PROVE  /\ \A i \in FieldSteps(program) : FieldDone(Steps(program)[i])
           /\ \A s \in Mandatory(program) : SectionDone(s)
           /\ \A f \in FieldsOf(program) : \E i \in FieldSteps(program) : f = Steps(program)[i]
<1>1. /\ program \in Programs /\ at \in Nat /\ Last(program) \in Nat /\ Last(program) < at
      /\ Len(Steps(program)) = Last(program) /\ Passed /\ Alive
  BY FileTyped DEF ConfigInv, Inside, Alive
<1>2. \A i \in FieldSteps(program) \cup SectionSteps(program) : i < at
  BY <1>1, StepKinds
<1>3. \A i \in FieldSteps(program) : FieldDone(Steps(program)[i])
  BY <1>1, <1>2 DEF Passed
<1>4. \A s \in Mandatory(program) : SectionDone(s)
  BY <1>1, <1>2, MandatorySections DEF Passed
<1>5. ASSUME NEW f \in FieldsOf(program)
      PROVE  \E i \in FieldSteps(program) : f = Steps(program)[i]
  <2>1. PICK i \in 1..Len(Steps(program)) :
            Steps(program)[i].key # "itself" /\ f = Steps(program)[i]
    BY DEF FieldsOf
  <2>2. i \in FieldSteps(program)
    BY <1>1, <2>1, StepKinds, StepKeys
  <2>3. QED  BY <2>1, <2>2
<1>6. QED  BY <1>3, <1>4, <1>5

LEMMA TwoLists ==
    ASSUME NEW v \in Nat PROVE Append(<<0>>, v) = <<0, v>>
<1>1. <<0>> \in Seq(Nat) /\ <<0, v>> \in Seq(Nat) /\ Len(<<0>>) = 1 /\ Len(<<0, v>>) = 2
  OBVIOUS
<1>2. /\ Append(<<0>>, v) \in Seq(Nat) /\ Len(Append(<<0>>, v)) = 2
      /\ Append(<<0>>, v)[1] = 0 /\ Append(<<0>>, v)[2] = v
  BY <1>1, AppendProperties
<1>3. \A i \in 1..2 : Append(<<0>>, v)[i] = <<0, v>>[i]
  BY <1>2
<1>4. QED  BY <1>1, <1>2, <1>3, SeqEqual

\* A program that runs has in each member of Config what its file says, where the
\* schema allows that, and the member's initial value where the file says nothing; but
\* _counters has the file's names behind its initial ones (emplace_back).
THEOREM RunsWithItsFile == Spec => []RunsAsConfigured
<1>1. ASSUME ConfigInv, phase = "running", NEW f \in FieldsOf(program)
      PROVE  /\ Given(f) /\ SchemaAllows(program, <<f.section, f.key>>, ValueOf(f)) =>
                    conf[f.member] = Expected(f, ValueOf(f).v)
             /\ ~Given(f) => conf[f.member] = Defaults(program)[f.member]
  <2>1. PICK i \in FieldSteps(program) : f = Steps(program)[i]
    BY <1>1, AllDone
  <2>2. FieldDone(f)
    BY <1>1, <2>1, AllDone
  <2>3. program \in Programs /\ ValueOf(f) \in Value
    BY <1>1, <2>1, FileTyped, FieldKeys DEF ValueOf
  <2>4. ASSUME Given(f), SchemaAllows(program, <<f.section, f.key>>, ValueOf(f))
        PROVE  conf[f.member] = Expected(f, ValueOf(f).v)
    <3>1. ValueOf(f).type # "absent"
      BY <2>4 DEF Given, ValueOf, Has
    <3>2. Stored(f.member, ValueOf(f).v) = ValueOf(f).v
      BY <2>1, <2>3, <2>4, <3>1, SchemaFits
    <3>3. conf[f.member] = Updated(f.member, Defaults(program)[f.member], ValueOf(f).v)
      BY <2>2, <2>4 DEF FieldDone
    <3>4. CASE f.member = "counters"
      <4>1. Defaults(program)[f.member] = <<0>>
        <5>1. f.member \in DOMAIN Defaults(program)
          BY <2>1, <2>3, FieldMembers
        <5>2. QED  BY <2>3, <3>4, <5>1 DEF Defaults, Programs
      <4>2. Append(<<0>>, ValueOf(f).v) = <<0, ValueOf(f).v>>
        <5>1. ValueOf(f).v \in Nat
          BY <2>3 DEF Value
        <5>2. QED  BY <5>1, TwoLists
      <4>3. QED  BY <3>3, <3>4, <4>1, <4>2 DEF Updated, Expected
    <3>5. CASE f.member # "counters"
      BY <3>2, <3>3, <3>5 DEF Updated, Expected
    <3>6. QED  BY <3>4, <3>5
  <2>5. ~Given(f) => conf[f.member] = Defaults(program)[f.member]
    BY <2>2 DEF FieldDone, Default
  <2>6. QED  BY <2>4, <2>5
<1>2. ConfigInv => RunsAsConfigured
  BY <1>1 DEF RunsAsConfigured
<1>3. QED  BY Inductive, <1>2, PTL

\* The constructors of Config refuse no file the schema allows, and accept none with a
\* mandatory part missing or a field of the wrong type.
THEOREM AcceptsTheSchema == Spec => []AcceptsWhatSchemaAllows
<1>1. ConfigInv => (phase \in {"exited", "crashed"} => unopened \/ ~Valid(program, file))
  BY DEF ConfigInv, Refused
<1>2. ASSUME ConfigInv, phase = "running"
      PROVE  /\ \A s \in Mandatory(program) : IsObject(s)
             /\ \A k \in MandatoryFields(program) : Has(k)
             /\ \A f \in FieldsOf(program) : Given(f) => HasType(ValueOf(f), f.type)
  <2>1. \A s \in Mandatory(program) : SectionDone(s)
    BY <1>2, AllDone
  <2>2. \A k \in MandatoryFields(program) : k[1] \in Mandatory(program)
    BY <1>2, FileTyped, MandatorySections
  <2>3. \A f \in FieldsOf(program) : FieldDone(f)
    BY <1>2, AllDone
  <2>4. QED  BY <2>1, <2>2, <2>3 DEF SectionDone, FieldDone
<1>3. ConfigInv => AcceptsWhatSchemaAllows
  BY <1>1, <1>2 DEF AcceptsWhatSchemaAllows
<1>4. QED  BY Inductive, <1>3, PTL
===============================================================================
