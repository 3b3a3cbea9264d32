----------------------------- MODULE LiveRing -----------------------------
(***************************************************************************)
(* feat_s2mfc2feat_live (src/feat/feat.c) as a function on the live buffer *)
(* of a feat_t.  A live buffer is a record                                 *)
(*   cepbuf  [0 .. L-1 -> cepstrum]     the circular buffer                *)
(*   bufpos  where the next cepstrum goes                                  *)
(*   curpos  the frame the next feature is computed around                 *)
(* A cepstrum is the number (from 1) of its frame in the utterance, Stale  *)
(* for one of an earlier utterance.  A feature is the sequence of the      *)
(* 2*Win+1 cepstra it was computed from (the windows compute_feat reads).  *)
(* Normalisation (CMN, AGC) and the linear transforms are left out.        *)
(***************************************************************************)
EXTENDS Integers, Sequences

CONSTANTS L,    \* LIVEBUFBLOCKSIZE
          Win   \* feat_window_size(fcb)

ASSUME LiveAssumption == Win \in Nat /\ L \in Nat /\ L > 4 * Win

Stale == 0
Slots == 0 .. L - 1

EmptyLive == [cepbuf |-> [i \in Slots |-> Stale], bufpos |-> 0, curpos |-> 0]

\* Cepstra of another utterance in the buffer are no cepstra of this one.
Forgotten(live) == [live EXCEPT !.cepbuf = [i \in Slots |-> Stale]]

\* Mutant of Pending: the circular buffer has not wrapped.
PendingUnwrapped(live) == live.bufpos - live.curpos

\* Cepstra in the buffer that no feature was computed around yet.
Pending(live) == (live.bufpos - live.curpos) % L
Held(live, begin) == IF begin THEN 0 ELSE Pending(live)

\* Copy s into the circular buffer from position pos.
Copied(buf, pos, s) ==
  [i \in Slots |-> LET d == (i - pos) % L
                   IN IF d < Len(s) THEN s[d + 1] ELSE buf[i]]

Repeated(x, n) == [i \in 1 .. n |-> x]

Clamp(x, lo, hi) == IF x < lo THEN lo ELSE IF x > hi THEN hi ELSE x

\* feat_s2mfc2feat_block_utt: a whole utterance, its ends padded ...
BlockUtt(s) ==
  [t \in 1 .. Len(s) |-> [j \in 1 .. 2 * Win + 1 |-> s[Clamp(t + j - Win - 1, 1, Len(s))]]]

\* ... in rows of the live buffer, which is otherwise left alone.
BlockPadded(live, s) ==
  [live EXCEPT !.cepbuf = Copied(Copied(@, 0, Repeated(s[1], Win)), Win,
                                 Repeated(s[Len(s)], Win))]

\* Mutants of Consumed: the trailing window may be overwritten; a block that
\* does not fit is refused.
ConsumedToCapacity(live, n, begin, end) ==
  LET nbuf == Held(live, begin) + (IF begin /\ n > 0 THEN Win ELSE 0)
                                + (IF end THEN Win ELSE 0)
  IN IF nbuf + n > L THEN L - nbuf ELSE n
ConsumedOrRefused(live, n, begin, end) ==
  LET nbuf == Held(live, begin) + (IF begin /\ n > 0 THEN Win ELSE 0)
                                + (IF end THEN Win ELSE 0)
  IN IF nbuf + n > L THEN 0 ELSE n

\* Cepstra taken of the n offered: "only consume as much input as will fit".
Consumed(live, n, begin, end) ==
  LET nbuf == Held(live, begin) + (IF begin /\ n > 0 THEN Win ELSE 0)
                                + (IF end THEN Win ELSE 0)
  IN IF nbuf + n > L THEN L - nbuf - Win ELSE n

\* The end of the utterance is processed in this call.
Ends(live, n, begin, end) == end /\ Consumed(live, n, begin, end) = n

\* Features computed: "we have to leave the trailing window of frames".
Ready(live, n, begin, end) ==
  LET nfeat == Held(live, begin) + n + (IF end THEN Win ELSE 0) - Win
  IN IF nfeat > 0 THEN nfeat ELSE 0

\* The features computed around curpos onwards.
Windows(buf, pos, n) ==
  [t \in 1 .. n |-> [j \in 1 .. 2 * Win + 1 |-> buf[(pos + t - 1 + j - Win - 1) % L]]]

\* The n cepstra taken of s in the buffer, the utterance's ends padded; out
\* features are computed.
LiveBlock(live, s, n, out, begin, done) ==
  LET first == IF begin /\ n > 0 THEN Win ELSE 0
      from  == IF begin THEN live.curpos ELSE live.bufpos
      cur   == (live.curpos + first) % L
      stop  == (from + first + n) % L
      lead  == Copied(live.cepbuf, from, IF first > 0 THEN Repeated(s[1], Win) ELSE <<>>)
      body  == Copied(lead, (from + first) % L, SubSeq(s, 1, n))
      full  == IF done THEN Copied(body, stop, Repeated(body[(stop - 1) % L], Win))
                       ELSE body
  IN [live |-> [cepbuf |-> full,
                bufpos |-> IF done THEN (stop + Win) % L ELSE stop,
                curpos |-> (cur + out) % L],
      used |-> n, feats |-> Windows(full, cur, out)]

\* The call on the cepstra s: the buffer it leaves, the cepstra it took and
\* the features it computed.
Live(live, s, begin, end) ==
  LET n    == Consumed(live, Len(s), begin, end)
      done == Ends(live, Len(s), begin, end)
  IN IF begin /\ end /\ Len(s) > 0
     THEN [live |-> BlockPadded(live, s), used |-> Len(s), feats |-> BlockUtt(s)]
     ELSE LiveBlock(live, s, n, Ready(live, n, begin, end), begin, done)

---------------------------------------------------------------------------

\* The features of n cepstra that do not take what comes after them.
Settled(n) == IF n > Win THEN n - Win ELSE 0

\* The features of an utterance of n cepstra that is processed in one piece.
Ideal(n) == BlockUtt([i \in 1 .. n |-> i])
============================================================================
