--------------------------- MODULE OutsideServices ---------------------------
(***************************************************************************)
(* What the wallet asks of services it does not depend on, while a payment *)
(* is prepared: the fee rate of a miner (features/mapi.rs), the price of a *)
(* coin (features/exchange_rate.rs), the address behind a paymail handle   *)
(* (features/paymail.rs).  A call makes its requests one after the other;  *)
(* any of them may fail or bring an answer nobody can use.                 *)
(***************************************************************************)
EXTENDS Integers, Sequences, FiniteSetsExt

CONSTANTS
  Providers,    \* of exchange rates, in the order they are asked
  Tickers,      \* those that give one price, in dollars
  Currencies, Dollar,
  FeeUnits,     \* [satoshis, bytes]: what a miner may ask for
  TxSizes, Word,
  Handles       \* of paymail: [ats, local, domain, padded]

VARIABLES
  call,     \* the call under way, <<>> before: <<"rates">>, <<"rate", currency>>,
            \* <<"provider", id>>, <<"fee rate">>, <<"quote">> or <<"paymail", handle>>
  asked,    \* the answers to its requests so far
  result    \* <<>>, <<"error", what>>, or <<what was asked for, it>>

vars == <<call, asked, result>>

Failures == {<<"Http">>, <<"InvalidResponse">>}
DEFAULT_FEE_RATE == 1
NoFees == [satoshis |-> 0, bytes |-> 0]    \* a quote without a miningFee

Init == call = <<>> /\ asked = <<>> /\ result = <<>>

Begin(c) == call = <<>> /\ call' = c /\ UNCHANGED <<asked, result>>
Return(r, answer) ==
  /\ call # <<>> /\ result = <<>>
  /\ result' = r /\ asked' = Append(asked, answer)
  /\ UNCHANGED call
GoOn(answer) == asked' = Append(asked, answer) /\ UNCHANGED <<call, result>>

-----------------------------------------------------------------------------
(* Exchange rates *)

\* What an answer with prices in some currencies is to a provider's get_rates:
\* with nothing that it looks for, it is an InvalidResponse.
RatesIn(p, prices) == IF p \in Tickers THEN prices \cap {Dollar} ELSE prices
Usable(p, prices) == RatesIn(p, prices) # {}

\* get_rates takes the first answer there is, get_rate looks for its currency
\* in that one only.
Quoted(rates) ==
  IF call[1] # "rate" \/ call[2] \in rates THEN <<"rates", rates>> ELSE <<"error", "UnknownCurrency">>

AskProvider(p, last) ==
  \/ \E prices \in SUBSET Currencies :
       /\ Usable(p, prices)
       /\ Return(Quoted(RatesIn(p, prices)), <<"prices", p, prices>>)
  \/ \E failure \in Failures \cup {<<"prices", p, prices>> : prices \in SUBSET Currencies} :
       /\ failure[1] = "prices" => ~Usable(p, failure[3])
       /\ IF last THEN Return(<<"error", "NoAnswer">>, failure) ELSE GoOn(failure)

get_rates ==
  /\ call # <<>> /\ call[1] \in {"rates", "rate"} /\ result = <<>>
  /\ AskProvider(Providers[Len(asked) + 1], Len(asked) + 1 = Len(Providers))

get_rates_from ==
  /\ call # <<>> /\ call[1] = "provider" /\ result = <<>>
  /\ IF \E i \in DOMAIN Providers : Providers[i] = call[2]
     THEN AskProvider(call[2], TRUE)
     ELSE Return(<<"error", "UnknownCurrency">>, <<"nobody">>)

-----------------------------------------------------------------------------
(* Fees *)

\* FeeQuote::calculate_fee: what the miner wants for a transaction.
calculate_fee(unit, size) ==
  Max({Min({unit.satoshis * size, Word - 1}) \div Max({unit.bytes, 1}), unit.satoshis})

\* The wallet's rate per byte is the satoshis of the quote, whatever number of
\* bytes they are for: never too little, and often far too much.
RatePerByte_Divided(unit) == Max({unit.satoshis \div Max({unit.bytes, 1}), 1})
RatePerByte(unit) == Max({unit.satoshis, 1})

\* fetch_default_fee_rate does not fail; get_mapi_fee_quote does.
get_fee_quote ==
  /\ call \in {<<"fee rate">>, <<"quote">>}
  /\ \/ \E unit \in FeeUnits :
          Return(IF call = <<"quote">> THEN <<"quote", unit.satoshis>> ELSE <<"fee rate", RatePerByte(unit)>>,
                 <<"fees", unit>>)
     \/ Return(IF call = <<"quote">> THEN <<"quote", 0>> ELSE <<"fee rate", DEFAULT_FEE_RATE>>,
               <<"fees", NoFees>>)
     \/ \E failure \in Failures \cup {<<"ApiError">>} :
          Return(IF call = <<"quote">> THEN <<"error", failure[1]>> ELSE <<"fee rate", DEFAULT_FEE_RATE>>,
                 failure)

-----------------------------------------------------------------------------
(* Paymail *)

\* Blanks around a handle are accepted here, and nowhere removed.
is_valid_handle(h) == h.ats = 1 /\ h.local = "good" /\ h.domain = "good"

Resolving == call # <<>> /\ call[1] = "paymail" /\ result = <<>>
RefuseHandle ==
  /\ Resolving /\ asked = <<>> /\ ~is_valid_handle(call[2])
  /\ Return(<<"error", "InvalidHandle">>, <<"nobody">>)

\* There is no host of a domain with a blank at its end.
well_known_lookup ==
  /\ Resolving /\ asked = <<>> /\ is_valid_handle(call[2])
  /\ \/ call[2].padded # "after" /\ GoOn(<<"found">>)
     \/ Return(<<"error", "DiscoveryFailed">>, <<"Http">>)

request_address(address) ==
  IF address = "blank" THEN <<"error", "InvalidAddress">> ELSE <<"address", address>>
RequestAddress ==
  /\ Resolving /\ asked = <<<<"found">>>>
  /\ \/ \E address \in {"blank", "text"} : Return(request_address(address), <<"address", address>>)
     \/ \E failure \in Failures : Return(<<"error", "AddressResolutionFailed">>, failure)

Next ==
  \/ \E c \in {<<"rates">>, <<"fee rate">>, <<"quote">>} \cup {<<"rate", x>> : x \in Currencies}
             \cup {<<"provider", p>> : p \in {Providers[i] : i \in DOMAIN Providers} \cup {"other"}}
             \cup {<<"paymail", h>> : h \in Handles} : Begin(c)
  \/ get_rates \/ get_rates_from \/ get_fee_quote
  \/ RefuseHandle \/ well_known_lookup \/ RequestAddress
Spec == Init /\ [][Next]_vars

-----------------------------------------------------------------------------
Answers ==
  Failures \cup {<<"ApiError">>, <<"nobody">>, <<"found">>}
  \cup {<<"prices", Providers[i], x>> : i \in DOMAIN Providers, x \in SUBSET Currencies}
  \cup {<<"fees", unit>> : unit \in FeeUnits \cup {NoFees}}
  \cup {<<"address", x>> : x \in {"blank", "text"}}

TypeOK ==
  /\ asked \in Seq(Answers)
  /\ call # <<>> /\ call[1] \in {"rates", "rate"} => Len(asked) <= Len(Providers)
  /\ result = <<>> \/ result[1] \in {"error", "rates", "fee rate", "quote", "address"}

\* get_rates: "returning the first successful result" (exchange_rate.rs:448).
\* RatesIn come from the first provider in order whose answer holds any, and the
\* call fails only when nobody's does.
Good(answer) == answer[1] = "prices" /\ RatesIn(answer[2], answer[3]) # {}
FirstGoodAnswer ==
  LET good == {i \in DOMAIN asked : Good(asked[i])}
  IN  /\ result # <<>> /\ result[1] = "rates" => result[2] # {} /\ good = {Len(asked)}
      /\ result = <<"error", "NoAnswer">> =>
           good = {} /\ (call[1] # "provider" => Len(asked) = Len(Providers))

\* fetch_default_fee_rate: whatever happens to the request there is a rate, and a
\* transaction of any size that pays it pays the miner's own fee for that size.
FeeCoversQuote ==
  call = <<"fee rate">> /\ result # <<>> =>
    /\ result[1] = "fee rate" /\ result[2] >= DEFAULT_FEE_RATE
    /\ asked[1][1] = "fees" =>
         \A size \in TxSizes : result[2] * size >= calculate_fee(asked[1][2], size)

-----------------------------------------------------------------------------
(* What it rests on: a call that has not returned has met no good answer. *)
AskingInv ==
  /\ call = <<>> => asked = <<>> /\ result = <<>>
  /\ result = <<>> =>
       /\ \A i \in DOMAIN asked : ~Good(asked[i])
       /\ call # <<>> /\ call[1] \in {"rates", "rate"} => Len(asked) < Len(Providers)
       /\ call \in {<<"fee rate">>, <<"quote">>} => asked = <<>>
IInv == TypeOK /\ AskingInv /\ FirstGoodAnswer /\ FeeCoversQuote
=============================================================================
