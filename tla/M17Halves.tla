------------------------------- MODULE M17Halves -------------------------------
(***************************************************************************)
(* An M17 frame is two of the others: the packet with an odd sequence      *)
(* number, the "second", is completed with what the codec2 thread kept of  *)
(* the one before it, the "first".  That is kept per module and not per    *)
(* stream: data_store when M17 is encoded, audio_store when it is decoded  *)
(* from Codec2 1600, of which only the first packet has data.              *)
(*                                                                         *)
(* Packets reach the thread by way of their decoder, and two streams that  *)
(* follow each other on a module may have different ones.  The reflector   *)
(* sends one stream at a time on a module, and tcd misses what is sent     *)
(* while it is not connected.                                              *)
(***************************************************************************)
EXTENDS Naturals, Sequences

CONSTANTS
  Modules,      \* the letters of TCMods
  Codecs,       \* the codec_in values that arrive
  MaxStreams,   \* bound: streams in one behaviour
  MaxSequence,  \* bound: packets of a stream, numbered from 0
  MaxLost,      \* bound: packets that are missed
  NoPacket

ASSUME M17HalvesAssumption ==
  /\ Codecs \subseteq {"dstar", "dmr", "p25", "usrp", "c2_1600", "c2_3200"}
  /\ MaxStreams \in Nat /\ MaxSequence \in Nat /\ MaxLost \in Nat
  /\ NoPacket \notin [m : Modules, stream : Nat, seq : Nat, codecIn : Codecs]

Packets ==
  [m : Modules, stream : 1..MaxStreams, seq : 0..MaxSequence, codecIn : Codecs]

IsM17(codec) == codec \in {"c2_1600", "c2_3200"}
Decoders == {c \in Codecs : ~ IsM17(c)}

IsSecond(p) == p.seq % 2 = 1

(* A packet stands for the 20 ms of speech it is for, too; the other 20 ms *)
(* of the M17 frame are those of its mate.  The stores begin with silence. *)
Mate(p) == [p EXCEPT !.seq = IF IsSecond(p) THEN @ - 1 ELSE @ + 1]
NoHalf == NoPacket

VARIABLES
  talking,      \* the next packet of the stream on every module, or NoPacket
  streams,      \* how many streams there have been
  decoding,     \* the packets in every decoder
  codec2Queue,  \* codec2_queue
  dataStore,    \* data_store: the first half of a frame for every module
  audioStore,   \* audio_store: the second half of one
  done,         \* the packet the codec2 thread was last done with, or NoPacket
  m17,          \* the M17 data it was given: two halves
  audio,        \* the audio it was given: a half, and how often it was levelled
  missed,       \* how many packets have been missed
  held          \* history: the first packets that reached the codec2 thread

airVars == <<talking, streams, missed>>
wayVars == <<decoding, codec2Queue>>
storeVars == <<dataStore, audioStore>>
doneVars == <<done, m17, audio, held>>
varsHalves == <<airVars, wayVars, storeVars, doneVars>>

InitHalves ==
  /\ talking = [m \in Modules |-> NoPacket]
  /\ streams = 0
  /\ decoding = [c \in Decoders |-> <<>>]
  /\ codec2Queue = <<>>
  /\ dataStore = [m \in Modules |-> NoHalf]
  /\ audioStore = [m \in Modules |-> <<NoHalf, 0>>]
  /\ done = NoPacket
  /\ m17 = <<NoHalf, NoHalf>>
  /\ audio = <<NoHalf, 0>>
  /\ missed = 0
  /\ held = {}

-----------------------------------------------------------------------------
(* The reflector (external).                                               *)

StreamStarts(m, codec) ==
  /\ talking[m] = NoPacket
  /\ streams < MaxStreams
  /\ streams' = streams + 1
  /\ talking' = [talking EXCEPT ![m] =
       [m |-> m, stream |-> streams', seq |-> 0, codecIn |-> codec]]
  /\ UNCHANGED <<missed, wayVars, storeVars, doneVars>>

(* A stream may end with a first packet. *)
StreamEnds(m) ==
  /\ talking[m] # NoPacket
  /\ talking' = [talking EXCEPT ![m] = NoPacket]
  /\ UNCHANGED <<streams, missed, wayVars, storeVars, doneVars>>

Spoken(m) ==
  /\ talking[m] # NoPacket
  /\ talking[m].seq < MaxSequence   \* the bound
  /\ talking' = [talking EXCEPT ![m].seq = @ + 1]

(* ReadReflectorThread, and then the decoders.                             *)
Receive(m) ==
  /\ Spoken(m)
  /\ LET p == talking[m] IN
       IF IsM17(p.codecIn)
         THEN codec2Queue' = Append(codec2Queue, p) /\ UNCHANGED decoding
         ELSE /\ decoding' = [decoding EXCEPT ![p.codecIn] = Append(@, p)]
              /\ UNCHANGED codec2Queue
  /\ UNCHANGED <<streams, missed, storeVars, doneVars>>

Miss(m) ==
  /\ Spoken(m)
  /\ missed < MaxLost
  /\ missed' = missed + 1
  /\ UNCHANGED <<streams, wayVars, storeVars, doneVars>>

(* RouteDstPacket, RouteDmrPacket, SWAMBE2toAudio, IMBEtoAudio or          *)
(* USRPtoAudio: the packet has its audio.                                  *)
Decoded(c) ==
  /\ decoding[c] # <<>>
  /\ decoding' = [decoding EXCEPT ![c] = Tail(@)]
  /\ codec2Queue' = Append(codec2Queue, Head(decoding[c]))
  /\ UNCHANGED <<airVars, storeVars, doneVars>>

-----------------------------------------------------------------------------
(* ProcessC2Thread.                                                        *)

NextPacket(p) ==
  /\ codec2Queue' = Tail(codec2Queue)
  /\ done' = p
  /\ held' = IF IsSecond(p) THEN held ELSE held \cup {p}
  /\ UNCHANGED <<airVars, decoding>>

(* AudiotoCodec2, for the audio of another codec.                          *)
MutantEncodeFirst(p) ==   \* what is stored is not replaced
  /\ NextPacket(p)
  /\ ~ IsM17(p.codecIn) /\ ~ IsSecond(p)
  /\ m17' = <<p, NoHalf>>
  /\ dataStore' = [dataStore EXCEPT ![p.m] = IF @ = NoHalf THEN p ELSE @]
  /\ audio' = <<p, 1>>
  /\ UNCHANGED audioStore
EncodeFirst(p) ==
  /\ NextPacket(p)
  /\ ~ IsM17(p.codecIn) /\ ~ IsSecond(p)
  /\ m17' = <<p, NoHalf>>
  /\ dataStore' = [dataStore EXCEPT ![p.m] = p]
  /\ audio' = <<p, 1>>
  /\ UNCHANGED audioStore

EncodeSecond(p) ==
  /\ NextPacket(p)
  /\ ~ IsM17(p.codecIn) /\ IsSecond(p)
  /\ m17' = <<dataStore[p.m], p>>
  /\ audio' = <<p, 1>>
  /\ UNCHANGED storeVars

(* Codec2toAudio.  Codec2 1600 has both halves in the data of the first    *)
(* packet; the second half is levelled before it is stored, and again.     *)
MutantDecodeFirst(p) ==   \* the halves the other way round
  /\ NextPacket(p)
  /\ IsM17(p.codecIn) /\ ~ IsSecond(p)
  /\ IF p.codecIn = "c2_1600"
       THEN /\ audio' = <<Mate(p), 1>>
            /\ audioStore' = [audioStore EXCEPT ![p.m] = <<p, 1>>]
       ELSE audio' = <<p, 1>> /\ UNCHANGED audioStore
  /\ m17' = <<p, Mate(p)>>
  /\ UNCHANGED dataStore
DecodeFirst(p) ==
  /\ NextPacket(p)
  /\ IsM17(p.codecIn) /\ ~ IsSecond(p)
  /\ audio' = <<p, 1>>
  /\ IF p.codecIn = "c2_1600"
       THEN audioStore' = [audioStore EXCEPT ![p.m] = <<Mate(p), 1>>]
       ELSE UNCHANGED audioStore
  /\ m17' = <<p, Mate(p)>>
  /\ UNCHANGED dataStore

DecodeSecond(p) ==
  /\ NextPacket(p)
  /\ IsM17(p.codecIn) /\ IsSecond(p)
  /\ audio' = IF p.codecIn = "c2_1600"
                THEN <<audioStore[p.m][1], audioStore[p.m][2] + 1>>
                ELSE <<p, 1>>
  /\ m17' = <<Mate(p), p>>
  /\ UNCHANGED storeVars

ProcessC2 ==
  /\ codec2Queue # <<>>
  /\ LET p == Head(codec2Queue) IN
       EncodeFirst(p) \/ EncodeSecond(p) \/ DecodeFirst(p) \/ DecodeSecond(p)

-----------------------------------------------------------------------------
NextHalves ==
  \/ \E m \in Modules :
       \/ \E c \in Codecs : StreamStarts(m, c)
       \/ StreamEnds(m) \/ Receive(m) \/ Miss(m)
  \/ \E c \in Decoders : Decoded(c)
  \/ ProcessC2

SpecHalves == InitHalves /\ [][NextHalves]_varsHalves

-----------------------------------------------------------------------------
(* Properties.                                                             *)

Joined == done # NoPacket /\ IsSecond(done)

(* An M17 frame is made of the two halves of one pair, unless the first    *)
(* was missed, or a first packet from another decoder came between the two *)
(* of a pair: the next stream on the module, or the end of the last.  A    *)
(* stream is never mixed up in itself, nor with one from the same decoder, *)
(* nor ever with one of another module.                                    *)
FrameOfOnePair ==
  Joined => \/ m17 = <<Mate(done), done>>
            \/ /\ m17[2] = done
               /\ m17[1] # NoHalf => m17[1].m = done.m
               /\ Mate(done) \notin held \/ m17[1].codecIn # done.codecIn

(* The audio of a packet is its own.  With Codec2 1600 a second packet     *)
(* whose first was missed is given what was left, of a stream before or of *)
(* its own, but never what a packet of another codec or module has left.   *)
AudioOfOwnPacket ==
  done # NoPacket =>
    \/ audio[1] = done
    \/ /\ IsSecond(done) /\ done.codecIn = "c2_1600"
       /\ Mate(done) \notin held
       /\ audio[1] # NoHalf =>
            /\ audio[1].m = done.m /\ audio[1].codecIn = "c2_1600"
            /\ \/ audio[1].stream < done.stream
               \/ audio[1].stream = done.stream /\ audio[1].seq < done.seq
=============================================================================
