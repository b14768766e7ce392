------------------------------- MODULE Beacon -------------------------------
(***************************************************************************)
(* getrandombeacon of rpc/mining.cpp on an active chain that grows and     *)
(* reorganises.  A block is its mix_hash.  The call holds cs_main from the *)
(* comparison with the tip to the end, so it is one step.                  *)
(*                                                                         *)
(* Heights are of type int, whose largest value is IntMax.  A sum beyond   *)
(* it is undefined: the build may wrap it, and then compare, loop and look *)
(* up blocks with the wrapped value or with the sum it should have been.   *)
(***************************************************************************)
EXTENDS Integers, Sequences

CONSTANTS
  MixHash,    \* what a mix_hash may be
  IntMax,     \* largest int, 2^31 - 1 in the code
  MaxWindow,  \* largest window_size, 10000 in the code
  MaxHeight,  \* bound: height of the chain
  MaxStart    \* bound: largest start_height asked for

\* What is assumed of them.
BeaconConstants == /\ {IntMax, MaxWindow, MaxHeight, MaxStart} \subseteq Nat
                   /\ MaxHeight <= IntMax /\ MaxStart <= IntMax

VARIABLES
  chain,   \* mix_hash of the blocks of the active chain, from the genesis block
  reply    \* history: the last reply, and the chain it was given on

vars == <<chain, reply>>

NoReply == [kind |-> "none"]

Init ==
  /\ chain \in [1 .. 1 -> MixHash]
  /\ reply = NoReply

Height == Len(chain) - 1

-----------------------------------------------------------------------------
ConnectTip(mix_hash) ==
  /\ Height < MaxHeight
  /\ chain' = Append(chain, mix_hash)
  /\ UNCHANGED reply

DisconnectTip ==
  /\ Height > 0
  /\ chain' = SubSeq(chain, 1, Height)
  /\ UNCHANGED reply

\* The parameters the RPC accepts.
Valid(start_height, window_size) ==
  start_height >= 0 /\ window_size >= 1 /\ window_size <= MaxWindow

\* The values the int end_height may have: the sum, or anything it wraps to.
EndHeight(start_height, window_size) ==
  LET sum == start_height + window_size - 1
  IN  IF sum <= IntMax THEN {sum} ELSE {sum, sum - 2 * (IntMax + 1)}

\* Mutant: the last block is left out.
MixHashesBelow(start_height, end_height) == SubSeq(chain, start_height + 1, end_height)

\* What the loop writes to the hasher.
MixHashes(start_height, end_height) == SubSeq(chain, start_height + 1, end_height + 1)

\* HashWriter::GetHash.
Sha256(data) == <<"SHA-256", data>>
GetHash(data) == Sha256(Sha256(data))

\* Mutant: the tip is counted once more.
BlocksNeededBelow(end_height) == end_height - Height - 1

BlocksNeeded(end_height) == end_height - Height

GetRandomBeacon(start_height, window_size) ==
  /\ Valid(start_height, window_size)
  /\ \E end_height \in EndHeight(start_height, window_size) :
       reply' = IF end_height > Height
                THEN [kind |-> "needs", start_height |-> start_height,
                      window_size |-> window_size, on |-> chain,
                      more |-> BlocksNeeded(end_height)]
                ELSE [kind |-> "beacon", start_height |-> start_height,
                      window_size |-> window_size, on |-> chain,
                      beacon |-> GetHash(MixHashes(start_height, end_height))]
  /\ UNCHANGED chain

\* JSONRPCError for parameters out of range.
Refuse(start_height, window_size) ==
  /\ ~Valid(start_height, window_size)
  /\ reply' = NoReply
  /\ UNCHANGED chain

Next ==
  \/ \E mix_hash \in MixHash : ConnectTip(mix_hash)
  \/ DisconnectTip
  \/ \E start_height \in -1 .. MaxStart, window_size \in 0 .. MaxWindow + 1 :
       GetRandomBeacon(start_height, window_size) \/ Refuse(start_height, window_size)

Spec == Init /\ [][Next]_vars

-----------------------------------------------------------------------------
\* Two replies to calls with the same parameters.
SameWindow(r, s) ==
  /\ r.kind # "none" /\ s.kind # "none"
  /\ r.start_height = s.start_height /\ r.window_size = s.window_size

LastHeight(r) == r.start_height + r.window_size - 1

\* The blocks of the window on the chain of the reply, written down without a loop.
Window(r) == [i \in 1 .. r.window_size |-> r.on[r.start_height + i]]

\* The variables keep their types.
TypeOK ==
  /\ chain \in Seq(MixHash) /\ Len(chain) \in 1 .. MaxHeight + 1
  /\ reply.kind \in {"none", "needs", "beacon"}
  /\ reply.kind # "none" => /\ reply.start_height \in 0 .. IntMax
                            /\ reply.window_size \in 1 .. MaxWindow

\* What two replies in a row about one window, whose last height is an int, have to
\* do with each other: values agree with blocks, and refusals with heights.
SameBlocks ==
  /\ SameWindow(reply, reply') /\ LastHeight(reply) <= IntMax
  /\ reply.kind = "beacon" /\ reply'.kind = "beacon"
  => (reply'.beacon = reply.beacon <=> Window(reply') = Window(reply))

ExactlyMore ==
  /\ SameWindow(reply, reply') /\ LastHeight(reply) <= IntMax
  /\ reply.kind = "needs"
  => (reply'.kind = "beacon" <=> Len(reply'.on) >= Len(reply.on) + reply.more)

\* getrandombeacon asked twice about one window, whatever the chain went through
\* between the calls, gives the same value exactly when the window has the same
\* blocks: a reorganisation of any of them shows, blocks above it do not.
SameBlocksSameBeacon == [][SameBlocks]_vars

\* When getrandombeacon has asked for so many more blocks, a later call about that
\* window succeeds exactly on a chain at least that much higher than the one of
\* the refusal, also when the chain was reorganised or shortened in between.
NeedsExactlyMore == [][ExactlyMore]_vars

\* A value is returned only for a window that lies on the active chain ("only
\* returns a value once every block in [start_height, start_height + window_size -
\* 1] is on the active chain", docs/BEACON-SPEC.md:19).
WindowConfirmed == reply.kind = "beacon" => LastHeight(reply) < Len(reply.on)

\* The value is one SHA-256 of the concatenated mix_hash values
\* (docs/BEACON-SPEC.md:23).
SingleSha256 ==
  reply.kind = "beacon" => reply.beacon = Sha256(Window(reply))
=============================================================================
