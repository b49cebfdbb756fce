---------------------------- MODULE MC_Reversal ----------------------------
(***************************************************************************)
(* Instances of Reversal for TLC, over those of MC_WritePath.              *)
(***************************************************************************)
EXTENDS Reversal, MC_WritePath

MCDerivedKey(x) == <<"reversal", x>>
NewKeys == {<<"key", 1>>, <<"key", 2>>}

OriginalRequests == {[Deposit EXCEPT !.key = <<"key", 1>>]}
AllRequests ==
    OriginalRequests \cup
    {ReversalRequest(in, r, now) : in \in ReverseInput, r \in OriginalRequests, now \in Instant}

\* No spendable account, so that no second reversal fails for lack of funds.
NotSpendable == [x \in Tenant \X Account |-> "liability"]

\* Any call may be the original, the clock gives the time.
DefaultInputs ==
    [tenant : Tenant, target : Call, key : {None}, occurred : {None}, memo : {"mischarge"},
     auto : {TRUE}]
\* The caller names keys, one of them the key of an ordinary posting; one call is
\* never the target, any other may be, whatever it turns out to be.  Two policies.
KeyedInputs ==
    {in \in [tenant : Tenant, target : Call \ {CHOOSE c \in Call : TRUE}, key : {None} \cup NewKeys,
             occurred : {1}, memo : {"mischarge"}, auto : BOOLEAN] : in.auto = (in.key = None)}
============================================================================
