-------------------------- MODULE MCTurboTransfer --------------------------
(***************************************************************************)
(* Files for the instances of TurboTransfer that TLC checks.               *)
(***************************************************************************)
EXTENDS TurboTransfer

Plain(kind) == [kind |-> kind, packet |-> 0, last |-> FALSE]
Dump == Plain("UserDump")
Wave == Plain("DigiPro")
Name == Plain("SampleName")
Header == Plain("SdsHeader")
Packet(n, last) == [kind |-> "SdsPacket", packet |-> n % PacketModulus, last |-> last]

\* A kit, a sample of two packets and a kit again.
MixedFile == <<Dump, Header, Packet(0, FALSE), Packet(1, TRUE), Dump>>
\* Two samples in a row, the first with a name and of one packet only.
TwoSamples == <<Header, Name, Packet(0, TRUE), Header, Packet(0, TRUE)>>
\* A sample long enough for the packet number to wrap.
LongSample == <<Header>> \o [i \in 1 .. PacketModulus + 1 |-> Packet(i - 1, i = PacketModulus + 1)]
\* Monomachine: patterns and DigiPRO waves, received on different screens.
MonoFile == <<Dump, Wave, Wave, Dump>>

OnMachinedrum(files) == [model \in {"Machinedrum"} |-> files]

AllFiles == [model \in {"Machinedrum", "Monomachine"} |->
                 IF model = "Machinedrum" THEN {MixedFile, TwoSamples, LongSample}
                 ELSE {MonoFile}]
NamedFiles == OnMachinedrum({<<Header, Name, Packet(0, TRUE)>>})
FilesOfBoth == [model \in {"Machinedrum", "Monomachine"} |->
                    IF model = "Machinedrum" THEN {MixedFile} ELSE {MonoFile}]
=============================================================================
