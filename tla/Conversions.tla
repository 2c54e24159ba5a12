----------------------------- MODULE Conversions -----------------------------
(***************************************************************************)
(* How the package turns channel ids, delays, amounts and times into the   *)
(* forms that lnd, cln and bitcoind take.  Widths are parameters: a field  *)
(* of w bits is a number below its width 2^w, shifts are divisions and     *)
(* products by a width, and a Go conversion to a narrower type takes the   *)
(* remainder.                                                              *)
(***************************************************************************)
EXTENDS Integers, Sequences

CONSTANTS
  HeightWidth,  \* 2^24: block heights in a channel id
  TxWidth,      \* 2^24: transaction indexes in a channel id
  OutWidth,     \* 2^16: output indexes
  FieldWidth,   \* 2^32: what the uint32 fields of ShortChannelID hold
  DelayWidth,   \* 2^16: what Hop.Delay holds
  Places        \* 8: decimal places of a bitcoin amount

ASSUME WidthAssumption ==
  /\ {HeightWidth, TxWidth, OutWidth, DelayWidth, Places} \subseteq Nat \ {0}
  /\ FieldWidth \in Nat /\ FieldWidth >= HeightWidth /\ FieldWidth >= TxWidth

-----------------------------------------------------------------------------
(* Short channel ids.                                                      *)

\* What a channel's place in the chain can be.
Scids == [height : 0 .. HeightWidth - 1, tx : 0 .. TxWidth - 1, out : 0 .. OutWidth - 1]

\* Fault: the transaction index is not masked.
FromIntUnmasked(id) ==
  [height |-> (id \div OutWidth) \div TxWidth,
   tx     |-> id \div OutWidth,
   out    |-> id % OutWidth]

\* NewShortChanIDFromInt: a shift by 40 is one by 16 and one by 24.
NewShortChanIDFromInt(id) ==
  [height |-> (id \div OutWidth) \div TxWidth,
   tx     |-> (id \div OutWidth) % TxWidth,
   out    |-> id % OutWidth]

\* ToUint64, for fields within the widths of a channel id: the bits the code
\* ors together do not overlap.
ToUint64(scid) == (scid.height * TxWidth + scid.tx) * OutWidth + scid.out

\* strconv.ParseUint with its error dropped: out of range is the largest value.
ParseUint(n, width) == IF n < width THEN n ELSE width - 1

\* NewShortChanIDFromString; the string is its three numbers.
NewShortChanIDFromString(numbers) ==
  [height |-> ParseUint(numbers[1], FieldWidth),
   tx     |-> ParseUint(numbers[2], FieldWidth),
   out    |-> ParseUint(numbers[3], OutWidth)]

String(scid) == <<scid.height, scid.tx, scid.out>>

\* uint16(hop.Expiry), uint16(hop.Delay).
Delay(n) == n % DelayWidth

-----------------------------------------------------------------------------
(* Amounts.                                                                *)

Pow10[k \in 0 .. Places] == IF k = 0 THEN 1 ELSE 10 * Pow10[k - 1]

OneBitcoin == Pow10[Places]

Digits(n) ==
  CHOOSE w \in 1 .. Places : n < Pow10[w] /\ \A v \in 1 .. w - 1 : n >= Pow10[v]

\* strconv.FormatUint(n, 10) for n below one bitcoin.
FormatUint(n) == [k \in 1 .. Digits(n) |-> (n \div Pow10[Digits(n) - k]) % 10]

\* fmt.Sprintf("%08s", s).
Pad(s) == [k \in 1 .. Places - Len(s) |-> 0] \o s

\* Fault: the remainder is not padded.
FormatAmountBare(sat) ==
  [whole |-> sat \div OneBitcoin, frac |-> FormatUint(sat % OneBitcoin)]

\* The string that Miner.SendToAddress passes to bitcoind.
FormatAmount(sat) ==
  [whole |-> sat \div OneBitcoin, frac |-> Pad(FormatUint(sat % OneBitcoin))]

\* How bitcoind reads a decimal amount.
ParseAmount(amount) ==
  LET value[k \in 0 .. Len(amount.frac)] ==
        IF k = 0 THEN amount.whole ELSE 10 * value[k - 1] + amount.frac[k]
  IN value[Len(amount.frac)] * Pow10[Places - Len(amount.frac)]

-----------------------------------------------------------------------------
(* Times, in half seconds.                                                 *)

\* Fault: the seconds are rounded up.
TimeoutSecondsUp(left) == (left + 1) \div 2

\* getTimeoutSeconds: the time left, cut to whole seconds.
TimeoutSeconds(left) == left \div 2
=============================================================================
