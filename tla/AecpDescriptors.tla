-------------------------- MODULE AecpDescriptors --------------------------
(***************************************************************************)
(* READ_DESCRIPTOR: create_aem_read_descriptor_response of                 *)
(* avb_1722_1_aecp.c, with AEM_GENERATE_DESCRIPTORS_ON_FLY, and the        *)
(* descriptors of the examples' aem_descriptors.h.in.  Streams, stream     *)
(* ports, clusters and maps are made from one template per type, which     *)
(* every read overwrites; the other descriptors are searched in            *)
(* aem_descriptor_list, which the templates are entries of as well.        *)
(*                                                                         *)
(* The numbers of streams and channels are fixed when the device is built. *)
(* A device with sources and without sinks does not compile, for           *)
(* desc_stream_port_output_0 divides by AVB_NUM_SINKS; one without either  *)
(* has no streams to describe.                                             *)
(***************************************************************************)
EXTENDS Naturals, Sequences

CONSTANTS Devices,   \* the configurations: [sinks, sources, outputs, inputs]
          Ids        \* the descriptor numbers a controller may ask for

ASSUME DescriptorAssumption ==
  /\ Devices \subseteq [sinks : Nat \ {0}, sources : Nat, outputs : Nat, inputs : Nat]
  /\ Ids \subseteq Nat

VARIABLES
  device,   \* how this device was built
  index     \* descriptor_index in the template of each type

descriptorVars == <<device, index>>

Sinks   == device.sinks     \* AVB_NUM_SINKS
Sources == device.sources   \* AVB_NUM_SOURCES
Outputs == device.outputs   \* AVB_NUM_MEDIA_OUTPUTS
Inputs  == device.inputs    \* AVB_NUM_MEDIA_INPUTS

STREAM_INPUT == 5
STREAM_OUTPUT == 6
CLOCK_SOURCE == 10
STREAM_PORT_INPUT == 14
STREAM_PORT_OUTPUT == 15
AUDIO_CLUSTER == 20
AUDIO_MAP == 23
CONTROL == 26

InputTypes == {STREAM_INPUT, STREAM_PORT_INPUT}
OutputTypes == {STREAM_OUTPUT, STREAM_PORT_OUTPUT}
Templates == InputTypes \cup OutputTypes \cup {AUDIO_CLUSTER}

(* aem_descriptor_list: the types in their order, those of sources only in  *)
(* a device that has some.  A template that is in the list has the number   *)
(* it was last read with; of the others there is one, or two clock sources. *)
List == <<0, 1, 2, STREAM_INPUT, STREAM_OUTPUT, 7, 8, 9, CLOCK_SOURCE, 11, 12, 13,
          STREAM_PORT_INPUT, STREAM_PORT_OUTPUT, 16, 17, CONTROL, 36>>

Listed(type) == type \in OutputTypes => Sources > 0

IdsOf(type) == IF type \in Templates THEN {index[type]}
               ELSE IF type = CLOCK_SOURCE THEN {0, 1} ELSE {0}

Types == {List[i] : i \in DOMAIN List} \cup {AUDIO_CLUSTER, AUDIO_MAP}

FirstIds == [type \in Templates |-> 0]

DescriptorInit == device \in Devices /\ index = FirstIds

-----------------------------------------------------------------------------
(* The switch on read_type.  The cases of the sinks are compiled only when  *)
(* there are sources.                                                       *)
FromTemplate(type, id) ==
  \/ type = AUDIO_CLUSTER /\ id < Outputs + Inputs
  \/ type \in InputTypes /\ Sources > 0 /\ id < Sinks
  \/ type \in OutputTypes /\ Sources > 0 /\ id < Sources

GeneratedMap(type, id) == type = AUDIO_MAP /\ id < Sinks + Sources

(* while (aem_descriptor_list[i] <= read_type): the search ends at the      *)
(* first entry of a later type.                                             *)
Searched(type, id) ==
  /\ type # AUDIO_MAP /\ Listed(type) /\ id \in IdsOf(type)
  /\ \E i \in DOMAIN List :
       /\ List[i] = type
       /\ ~ \E j \in 1 .. i : List[j] > type /\ Listed(List[j])

Found(type, id) ==
  FromTemplate(type, id) \/ GeneratedMap(type, id) \/ Searched(type, id)

(* Only the low byte of the number is written into the template.            *)
ReadDescriptor(type, id) ==
  /\ index' = IF FromTemplate(type, id) THEN [index EXCEPT ![type] = id % 256] ELSE index
  /\ UNCHANGED device

-----------------------------------------------------------------------------
(* What the entity says about itself.  How many descriptors of a type there *)
(* are is in the entity, the configuration, the audio unit and the locale;  *)
(* the identify control is in none of them.                                 *)
Announced(type) ==
  IF type \in InputTypes THEN Sinks
  ELSE IF type \in OutputTypes THEN Sources
  ELSE IF type = CLOCK_SOURCE THEN 2 ELSE 1

AnnouncedTypes == Types \ {CONTROL, AUDIO_CLUSTER, AUDIO_MAP}

(* The fields a controller follows from a stream port to its clusters and   *)
(* its map, and from the map to the stream.                                 *)

(* Mutant: the clusters of the outputs are forgotten.                       *)
OutputPortFirst(id) == [number_of_clusters |-> Inputs \div Sources,
                        base_cluster |-> (id * Inputs) \div Sources,
                        base_map |-> Sources + id]

OutputPort(id) == [number_of_clusters |-> Inputs \div Sources,
                   base_cluster |-> Outputs + (id * Inputs) \div Sources,
                   base_map |-> Sources + id]

InputPort(id) == [number_of_clusters |-> Outputs \div Sinks,
                  base_cluster |-> (id * Outputs) \div Sinks,
                  base_map |-> id]

AudioMap(id) ==
  [number_of_mappings |-> IF id < Sinks THEN Outputs \div Sinks
                                        ELSE Inputs \div Sources,
   stream_index |-> id % Sinks]

Clusters(port) ==
  port.base_cluster .. (port.base_cluster + port.number_of_clusters - 1)

-----------------------------------------------------------------------------
(* A descriptor is found exactly when the entity announces it, whatever has *)
(* been read before and whatever number the template in the list has.  The  *)
(* exception: without sources only the template itself is found, so sinks   *)
(* other than the first are not (avb_1722_1_aecp.c:196).                    *)
FoundIffAnnounced ==
  \A type \in AnnouncedTypes, id \in Ids :
    (type \in InputTypes /\ Sources = 0 => Sinks = 1)
      => (Found(type, id) <=> id < Announced(type))

(* The port's map is found, maps its own stream and all of its clusters.    *)
MapFits(port, stream) ==
  LET map == AudioMap(port.base_map)
  IN /\ Found(AUDIO_MAP, port.base_map)
     /\ map.stream_index = stream
     /\ map.number_of_mappings = port.number_of_clusters

(* No two of these ports share a cluster, and each cluster is found.        *)
Apart(Port(_), n) ==
  /\ \A i \in 0 .. (n - 1) : \A c \in Clusters(Port(i)) : Found(AUDIO_CLUSTER, c)
  /\ \A i, j \in 0 .. (n - 1) : i # j => Clusters(Port(i)) \cap Clusters(Port(j)) = {}

(* The ports fit together with their clusters and maps.  Two exceptions: an *)
(* output port has its own map only in a device with as many sources as     *)
(* sinks, for the first output map is taken to be AVB_NUM_SOURCES (:260)    *)
(* and streams are counted modulo AVB_NUM_SINKS (:301); and channels that   *)
(* the ports cannot share evenly are left over.                             *)
PortsAgree ==
  LET ins  == 0 .. (Sinks - 1)
      outs == 0 .. (Sources - 1)
  IN /\ Apart(InputPort, Sinks) /\ Apart(OutputPort, Sources)
     /\ \A i \in ins, j \in outs : Clusters(InputPort(i)) \cap Clusters(OutputPort(j)) = {}
     /\ \A i \in ins : MapFits(InputPort(i), i)
     /\ Sources = Sinks => \A j \in outs : MapFits(OutputPort(j), j)
     /\ Outputs % Sinks = 0 =>
          UNION {Clusters(InputPort(i)) : i \in ins} = 0 .. (Outputs - 1)
     /\ Sources > 0 /\ Inputs % Sources = 0 =>
          UNION {Clusters(OutputPort(j)) : j \in outs} = Outputs .. (Outputs + Inputs - 1)

(* What a controller finds out by reading descriptor after descriptor is    *)
(* what the entity announces: create_aem_read_descriptor_response answers   *)
(* for what is announced, but for the sinks of a device without sources,    *)
(* and its answers fit together, but for the maps of output ports where     *)
(* there are not as many sources as sinks.                                  *)
DescriptorsAgree == FoundIffAnnounced /\ PortsAgree

=============================================================================
