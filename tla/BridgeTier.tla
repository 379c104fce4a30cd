------------------------------ MODULE BridgeTier -----------------------------
(* How much of Django the handler of an event gets: the middleware and a    *)
(* request, a user only, or nothing.                                        *)
EXTENDS Naturals

Tiers == {"none", "auth_only", "full"}
NoOverride == "no override"

(* The custom resolver's answer, the rx_bridge of the handler's class, the  *)
(* site's mode, and whether the event is an upload, its class Django-aware. *)
Choice == [custom : Tiers \cup {NoOverride}, class : Tiers \cup {NoOverride},
           mode : {"full", "none", "smart", "unknown"}, upload : BOOLEAN, aware : BOOLEAN]

SmartTier(c) == IF c.upload THEN "auth_only" ELSE IF c.aware THEN "full" ELSE "none"

ModeTier(c) ==
  IF c.mode = "none" THEN "none" ELSE IF c.mode = "smart" THEN SmartTier(c) ELSE "full"

RaiseMinimumTier(tier) == IF tier = "none" THEN "auth_only" ELSE tier

ClassTier(c) == IF c.class # NoOverride THEN c.class ELSE ModeTier(c)
CustomTier(c) == IF c.custom # NoOverride THEN c.custom ELSE ClassTier(c)

ResolveBridgeTier(c) == IF c.upload THEN RaiseMinimumTier(CustomTier(c)) ELSE CustomTier(c)
=============================================================================
