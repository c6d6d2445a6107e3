----------------------------- MODULE MCDashboard -----------------------------
(***************************************************************************)
(* Small instances of Dashboard, in the terms of module Providers.         *)
(***************************************************************************)
EXTENDS Dashboard

MCConfigured == {"weather", "currency"}
=============================================================================
