--------------------------- MODULE ModelDownload ---------------------------
(***************************************************************************)
(* Downloading the local model: the part file that outlives a run, the     *)
(* range that asks for its rest, and the rename when all of it is there.   *)
(*                                                                         *)
(*   apps/desktop/electron/onboarding/download.ts   ModelDownload          *)
(*                                                                         *)
(* A file is the sequence of its blocks, a block the version of the file   *)
(* on the server it came from.  Progress and the words of errors are left  *)
(* out.                                                                    *)
(***************************************************************************)
EXTENDS Naturals, Sequences

CONSTANTS
  Size,        \* Blocks of the file.
  Declared,    \* The server says how long its answer is.
  MaxChanges,  \* Bound: new versions of the file, of the same size.
  MaxStops     \* Bound: cancels, dropped connections and quits.

VARIABLES
  version,  \* The file on the server.
  part,     \* <name>.part; empty when there is none.
  dest,     \* The installed file; empty when there is none.
  run,      \* The run: its step, the version it gets, what is still to come, total.
  phase,    \* The last thing shown.
  stops

vars == <<version, part, dest, run, phase, stops>>

NoRun == [step |-> "off", of |-> 0, rest |-> 0, total |-> 0]

Init ==
  /\ version = 1 /\ part = <<>> /\ dest = <<>> /\ run = NoRun
  /\ phase = "idle" /\ stops = 0

(* start: never two. *)
Start ==
  /\ run = NoRun /\ phase # "done"
  /\ run' = [NoRun EXCEPT !.step = "asked"]
  /\ phase' = "starting"
  /\ UNCHANGED <<version, part, dest, stops>>

(* The catalog's size when the answer does not say. *)
Total(received, rest) == IF Declared THEN received + rest ELSE Size

Streams(kept, rest) ==
  /\ part' = kept
  /\ run' = [step |-> "streams", of |-> version, rest |-> rest, total |-> Total(Len(kept), rest)]
  /\ phase' = "downloading"

(* A fault: the whole file goes behind what is there. *)
FaultyOpened(status) == part

(* "206 continues the part file; 200 means the server ignored the range"   *)
(* (download.ts:98)                                                        *)
Opened(status) == IF status = 206 THEN part ELSE <<>>

(* No range is asked for without a part; a server may ignore one, and has  *)
(* nothing to send behind the end of the file.                             *)
Answered ==
  /\ run.step = "asked"
  /\ \/ Streams(Opened(200), Size)
     \/ part # <<>> /\ Len(part) < Size /\ Streams(Opened(206), Size - Len(part))
  /\ UNCHANGED <<version, dest, stops>>

Ends(shown) == run' = NoRun /\ phase' = shown

(* 416, and any other answer that is not the file. *)
Refused ==
  /\ run.step = "asked" /\ Len(part) >= Size
  /\ Ends("failed")
  /\ UNCHANGED <<version, part, dest, stops>>

Chunk ==
  /\ run.step = "streams" /\ run.rest > 0
  /\ part' = Append(part, run.of)
  /\ run' = [run EXCEPT !.rest = @ - 1]
  /\ UNCHANGED <<version, dest, phase, stops>>

(* The answer ends, early perhaps: the count, then the rename. *)
Arrives ==
  /\ run.step = "streams"
  /\ IF run.rest = 0 THEN UNCHANGED stops ELSE stops < MaxStops /\ stops' = stops + 1
  /\ IF Len(part) = run.total
     THEN dest' = part /\ part' = <<>> /\ Ends("done")
     ELSE Ends("failed") /\ UNCHANGED <<part, dest>>
  /\ UNCHANGED version

(* cancel, a dropped connection, a quit: the part stays. *)
Stops ==
  /\ run # NoRun /\ stops < MaxStops /\ stops' = stops + 1
  /\ \E shown \in {"cancelled", "failed", "idle"} : Ends(shown)
  /\ UNCHANGED <<version, part, dest>>

Changes ==
  /\ version <= MaxChanges /\ version' = version + 1
  /\ UNCHANGED <<part, dest, run, phase, stops>>

Next == Start \/ Answered \/ Refused \/ Chunk \/ Arrives \/ Stops \/ Changes

(* Somebody who wants the model starts it again. *)
Fetching == Start \/ Answered \/ Refused \/ Chunk \/ Arrives
Spec == Init /\ [][Next]_vars /\ WF_vars(Fetching)

-----------------------------------------------------------------------------
(* Properties. *)

(* What is installed is the whole file of one version, over any number of  *)
(* runs that stopped anywhere, while the file on the server stays the same *)
(* ("renamed only when the whole thing is there", download.ts:4).          *)
Whole == version = 1 /\ dest # <<>> => dest = [i \in 1..Size |-> 1]

(* Whole, whatever happens on the server. *)
OneVersion == dest # <<>> => \A i \in 1..Size : dest[i] = dest[1]

(* "Start it again to pick up where it left off" (download.ts:124) *)
PicksUp == <>(phase = "done")
=============================================================================
