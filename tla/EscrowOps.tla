----------------------------- MODULE EscrowOps -----------------------------
(***************************************************************************)
(* What the escrow and wallet services of the backend agree on: the states *)
(* of an EscrowHold row and the platform's cut of a payout.  Amounts are   *)
(* whole kobo.                                                             *)
(***************************************************************************)
EXTENDS Integers

\* The statuses of an EscrowHold row.
HoldStatus == {"HELD", "RELEASED", "REFUNDED", "DISPUTED"}

\* Rows whose money is still with the platform, owed to one side or the other.
LiveStatus == {"HELD", "DISPUTED"}

\* PLATFORM_COMMISSION_RATES, in percent.
Rate == [SHOPPER |-> 20, RIDER |-> 15, VENDOR |-> 10]

\* Math.round(amountKobo * rate): halves round up.
Commission(role, amount) == (amount * Rate[role] + 50) \div 100

\* What creditPayeeWithCommission puts into the payee's wallet.
Payout(role, amount) == amount - Commission(role, amount)

\* creditWallet throws on anything that is not a positive amount.
Creditable(amount) == amount > 0
=============================================================================
