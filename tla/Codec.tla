------------------------------- MODULE Codec --------------------------------
(***************************************************************************)
(* What the generated code owes whoever calls it, for each of its message  *)
(* types: a message is unpacked from what Java wrote, packed again, and    *)
(* freed.                                                                  *)
(***************************************************************************)
EXTENDS ProtobufC

CONSTANTS
    Codecs,      \* the types of message
    Samples(_)   \* what Java writes of messages of a type

ASSUME SamplesAssumption ==
    \A functions \in Codecs : \A wire \in Samples(functions) :
        IsEncoding(functions.descriptor, wire)

VARIABLES
    sample,    \* an encoding and the type of its message
    stage,     \* what has been done with it
    memory,    \* the guest's heap
    unpacked,  \* the struct unpack returned
    size,      \* what get_packed_size returned
    packed     \* what pack wrote

codec == <<sample, stage, memory, unpacked, size, packed>>

CodecInit ==
    /\ \E functions \in Codecs : \E wire \in Samples(functions) :
          sample = [functions |-> functions, wire |-> wire]
    /\ stage = "encoded"
    /\ memory = EmptyHeap
    /\ unpacked = Zero
    /\ size = 0
    /\ packed = <<>>

Decodes ==
    /\ stage = "encoded"
    /\ memory' = Unpack(sample.functions, memory, sample.wire)
    /\ unpacked' = Top(memory.next)
    /\ stage' = "unpacked"
    /\ UNCHANGED <<sample, size, packed>>

Sizes ==
    /\ stage = "unpacked"
    /\ IsA(sample.functions, memory, unpacked)
    /\ size' = GetPackedSize(sample.functions, memory, unpacked)
    /\ stage' = "measured"
    /\ UNCHANGED <<sample, memory, unpacked, packed>>

Encodes ==
    /\ stage = "measured"
    /\ IsA(sample.functions, memory, unpacked)
    /\ packed' = Pack(sample.functions, memory, unpacked)
    /\ stage' = "packed"
    /\ UNCHANGED <<sample, memory, unpacked, size>>

Frees ==
    /\ stage = "packed"
    /\ IsA(sample.functions, memory, unpacked)
    /\ memory' = FreeUnpacked(sample.functions, memory, unpacked)
    /\ stage' = "freed"
    /\ UNCHANGED <<sample, unpacked, size, packed>>

Done == stage = "freed" /\ UNCHANGED codec

CodecNext == Decodes \/ Sizes \/ Encodes \/ Frees \/ Done

CodecSpec == CodecInit /\ [][CodecNext]_codec

-----------------------------------------------------------------------------
(* What pack writes means what unpack read, for every type and every        *)
(* combination of fields, empty ones, unions and nested messages included,  *)
(* and has the size that get_packed_size said.                              *)
RoundTrip ==
    stage = "packed" => Meaning(packed) = Meaning(sample.wire) /\ Size(packed) = size

(* free_unpacked gives back all that unpack allocated, each object once, and *)
(* touches no default, no NULL and no member of a union that is not set.     *)
Released ==
    /\ ~memory.fault
    /\ stage = "freed" => DOMAIN memory.objects = {}
=============================================================================
