------------------------------- MODULE DataUsers --------------------------------
(***************************************************************************)
(* A data user and the three programs that judge it: the publisher's       *)
(* evaluate() (TrustScore), the contract DataUserVerifier.sol, and the     *)
(* circuit UserTrustScoreLevel.circom, whose proof shows a level without   *)
(* its attributes.  The user may be issued a credential with other         *)
(* attributes at any time; the next evaluation is of those.                *)
(***************************************************************************)
EXTENDS TrustScore

VARIABLE dataUser     \* the attributes in the data user's DataUserVC

-----------------------------------------------------------------------------
\* The contract.  Its score is a uint256 under Solidity 0.8: below zero it reverts.
Reverts == "reverts"

verifyUserAccess(a) ==
  LET before == (CASE a.entityType \in {"GOVERNMENTORGANIZATION", "POLICE"} -> 35
                   [] a.entityType = "ENTERPRISE" -> 20
                   [] a.entityType = "RESEARCH ORGANIZATION" -> 15
                   [] OTHER -> 5)
                + (CASE a.purpose = "CRIME SEARCH" -> 25
                     [] a.purpose = "TRAFFIC MANAGEMENT" -> 20
                     [] a.purpose = "RESEARCH" -> 15
                     [] OTHER -> 5)
                + (IF a.legalCompliance THEN 15 ELSE 0)
                + (IF a.dataHandlingPolicy = "ISO27001" THEN 15 ELSE 0)
      score  == IF a.misuseRecord THEN before - 10 ELSE before + 10
  IN  CASE score < 0 -> Reverts
        [] score >= 80 /\ a.entityType \in {"GOVERNMENTORGANIZATION", "POLICE"} -> "full"
        [] score >= 60 /\ ~(score >= 80 /\ a.entityType \in {"GOVERNMENTORGANIZATION", "POLICE"}) -> "access"
        [] score \in 0..59 -> "denied"

-----------------------------------------------------------------------------
(***************************************************************************)
(* The circuit.  A number is the function of its seven bits, the highest   *)
(* at 6; comparison with a constant goes from the highest bit down.        *)
(***************************************************************************)
Bits7(n) == [i \in 0..6 |-> (n \div 2 ^ i) % 2]

\* Mutant of LessThanConst7: at most instead of less than.
AtMostConst7(x, k) ==
  x = k \/ \E i \in 0..6 : x[i] = 0 /\ k[i] = 1 /\ \A j \in i + 1 .. 6 : x[j] = k[j]

LessThanConst7(x, k) ==
  \E i \in 0..6 : x[i] = 0 /\ k[i] = 1 /\ \A j \in i + 1 .. 6 : x[j] = k[j]

\* 0:Other, 1:Gov, 2:Police, 3:Enterprise, 4:ResearchOrg; and 0:Other, 1:Crime, 2:Traffic, 3:Research
EntityCode(e) == CASE e = "GOVERNMENTORGANIZATION" -> 1 [] e = "POLICE" -> 2 [] e = "ENTERPRISE" -> 3
                   [] e = "RESEARCH ORGANIZATION" -> 4 [] OTHER -> 0
PurposeCode(p) == CASE p = "CRIME SEARCH" -> 1 [] p = "TRAFFIC MANAGEMENT" -> 2 [] p = "RESEARCH" -> 3
                    [] OTHER -> 0
IsEqual(a, b) == IF a = b THEN 1 ELSE 0
Bit(b) == IF b THEN 1 ELSE 0

\* The public output: 0, 1 or 2.  A score that seven bits do not hold has no witness.
UserTrustScoreLevel(a) ==
  LET entityType == EntityCode(a.entityType)
      purpose    == PurposeCode(a.purpose)
      isGovOrPolice == IsEqual(entityType, 1) + IsEqual(entityType, 2)
      isOther    == 1 - (isGovOrPolice + IsEqual(entityType, 3) + IsEqual(entityType, 4))
      isOtherPurpose == 1 - (IsEqual(purpose, 1) + IsEqual(purpose, 2) + IsEqual(purpose, 3))
      scoreCalc == 35 * isGovOrPolice + 20 * IsEqual(entityType, 3) + 15 * IsEqual(entityType, 4) + 5 * isOther
                   + 25 * IsEqual(purpose, 1) + 20 * IsEqual(purpose, 2) + 15 * IsEqual(purpose, 3)
                   + 5 * isOtherPurpose
                   + 15 * Bit(a.legalCompliance) + 15 * Bit(a.dataHandlingPolicy = "ISO27001")
                   + 10 - 20 * Bit(a.misuseRecord)
      ge60   == 1 - Bit(LessThanConst7(Bits7(scoreCalc), Bits7(60)))
      ge80   == 1 - Bit(LessThanConst7(Bits7(scoreCalc), Bits7(80)))
      level2 == ge80 * isGovOrPolice
      level1 == ge60 * (1 - level2)
  IN  level1 + 2 * level2

LevelName == [l \in 0..2 |-> CASE l = 0 -> "denied" [] l = 1 -> "access" [] l = 2 -> "full"]

-----------------------------------------------------------------------------
DataUserInit == dataUser \in Attributes

\* A DataUserVC with the attributes asked for is issued and presented from now on.
IssueDataUserVC(a) == dataUser' = a

DataUserNext == \E a \in Attributes : IssueDataUserVC(a)

DataUserSpec == DataUserInit /\ [][DataUserNext]_dataUser

-----------------------------------------------------------------------------
\* Without the VLM profile the publisher's level is the one the contract emits and the one the
\* circuit proves, and the contract answers for every data user: the penalty for a misuse
\* record never takes its unsigned score below zero (three programs, kept in step by hand).
PortsAgree ==
  /\ AccessLevel(dataUser, FALSE) = verifyUserAccess(dataUser)
  /\ AccessLevel(dataUser, FALSE) = LevelName[UserTrustScoreLevel(dataUser)]

\* Attributes at least as good in every field.
NoWorse(a, b) ==
  /\ EntityScore(a.entityType) <= EntityScore(b.entityType)
  /\ PurposeScore(a.purpose) <= PurposeScore(b.purpose)
  /\ a.legalCompliance => b.legalCompliance
  /\ a.dataHandlingPolicy = "ISO27001" => b.dataHandlingPolicy = "ISO27001"
  /\ b.misuseRecord => a.misuseRecord

\* A data user whose attributes become no worse keeps every view it had, in either profile: no
\* threshold or table row of evaluate() lets anybody gain by a worse attribute.
BetterUsersSeeMore ==
  [][NoWorse(dataUser, dataUser') =>
       \A v \in BOOLEAN : Views(AccessLevel(dataUser, v), v) \subseteq Views(AccessLevel(dataUser', v), v)]_dataUser
=================================================================================
