---------------------------- MODULE DataStation ----------------------------
(***************************************************************************)
(* vtu-gaming-service/internal/infrastructure: what the DataStation client *)
(* makes of one call to the provider's server. The provider either hands   *)
(* over the goods or does not, and what the client reads of its answer is  *)
(* - "none": nothing (unreachable, thirty seconds over, a broken body),    *)
(* - "text": not JSON (a proxy's page, HTML with a status of 201),         *)
(* - "report" of a sale, or "refusal": JSON, true to what the provider did.*)
(* The HTTP status is never looked at, nor any field of the JSON.          *)
(***************************************************************************)

Categories == {"AIRTIME", "DATA", "EDUCATION", "ELECTRICITY", "TV", "INTERNET"}

Answers ==
  {[goods |-> 1, body |-> "report"], [goods |-> 0, body |-> "refusal"]}
    \cup [goods : {0, 1}, body : {"none", "text"}]

(* What the caller learns, and what has really happened.                   *)
Outcomes == [goods : {0, 1}, ok : BOOLEAN]

Outcome(a, ok) == [goods |-> a.goods, ok |-> ok]

(* A body that is no JSON is passed on as {"status": "success"}.           *)
GenerateAirtimePin == {Outcome(a, a.body # "none") : a \in Answers}
GenerateEduPin == {Outcome(a, a.body # "none") : a \in Answers}

(* A body that is no JSON is an error.                                     *)
BuyData == {Outcome(a, a.body \in {"report", "refusal"}) : a \in Answers}

(* The provider sells nothing else: an error without a call.               *)
Unsupported == {[goods |-> 0, ok |-> FALSE]}

Execute(category) ==
  CASE category = "AIRTIME"   -> GenerateAirtimePin
    [] category = "DATA"      -> BuyData
    [] category = "EDUCATION" -> GenerateEduPin
    [] OTHER                  -> Unsupported
=============================================================================
