------------------------------- MODULE TrustScore -------------------------------
(***************************************************************************)
(* The trust evaluation of a data user: five attributes of a DataUserVC    *)
(* give a score, the score an access level, the level the views a viewer   *)
(* token may open.  This is the publisher's evaluation; DataUsers has the  *)
(* contract and the circuit it is a port of.                               *)
(*                                                                         *)
(* Attribute strings are compared in upper case; a string that none of the *)
(* tables knows is "OTHER".                                                *)
(***************************************************************************)
EXTENDS Integers

HIGH_TRUST_ENTITIES == {"GOVERNMENTORGANIZATION", "POLICE"}
EntityTypes == HIGH_TRUST_ENTITIES \cup {"ENTERPRISE", "RESEARCH ORGANIZATION", "OTHER"}
Purposes == {"CRIME SEARCH", "TRAFFIC MANAGEMENT", "RESEARCH", "OTHER"}
Policies == {"ISO27001", "OTHER"}

Attributes == [entityType: EntityTypes, purpose: Purposes, legalCompliance: BOOLEAN,
               dataHandlingPolicy: Policies, misuseRecord: BOOLEAN]

Levels == {"denied", "summary", "access", "full"}
AllViews == {"event", "image", "video", "image_redacted",
             "description_full", "description_summary"}

SUMMARY_TIER_FLOOR == 50

EntityScore(e) == CASE e \in HIGH_TRUST_ENTITIES -> 35
                    [] e = "ENTERPRISE" -> 20
                    [] e = "RESEARCH ORGANIZATION" -> 15
                    [] OTHER -> 5

PurposeScore(p) == CASE p = "CRIME SEARCH" -> 25
                     [] p = "TRAFFIC MANAGEMENT" -> 20
                     [] p = "RESEARCH" -> 15
                     [] OTHER -> 5

Score(a) == EntityScore(a.entityType) + PurposeScore(a.purpose)
            + (IF a.legalCompliance THEN 15 ELSE 0)
            + (IF a.dataHandlingPolicy = "ISO27001" THEN 15 ELSE 0)
            + (IF a.misuseRecord THEN -10 ELSE 10)

AccessLevel(a, vlm) ==
  CASE Score(a) >= 80 /\ a.entityType \in HIGH_TRUST_ENTITIES -> "full"
    [] Score(a) >= 60 /\ ~(Score(a) >= 80 /\ a.entityType \in HIGH_TRUST_ENTITIES) -> "access"
    [] Score(a) < 60 /\ vlm /\ Score(a) >= SUMMARY_TIER_FLOOR -> "summary"
    [] OTHER -> "denied"

LegacyViews(level) == CASE level = "full" -> {"event", "image", "video"}
                        [] level = "access" -> {"event", "image"}
                        [] OTHER -> {}

\* Mutant of VlmViews: the summary tier has a view that the next tier lacks.
VlmViewsRaw(level) ==
  CASE level = "full" -> AllViews
    [] level = "access" -> {"event", "image_redacted", "description_full", "description_summary"}
    [] level = "summary" -> {"event", "image", "description_summary"}
    [] OTHER -> {}

VlmViews(level) ==
  CASE level = "full" -> AllViews
    [] level = "access" -> {"event", "image_redacted", "description_full", "description_summary"}
    [] level = "summary" -> {"event", "description_summary"}
    [] OTHER -> {}

Views(level, vlm) == IF vlm THEN VlmViews(level) ELSE LegacyViews(level)
=================================================================================
