----------------------------- MODULE MCDelivery -----------------------------
(***************************************************************************)
(* Two callers, so that cooldowns overlap; a pause of three units and      *)
(* calls that may last one, so that a second answer can come while the     *)
(* pause of the first is running; the robot as primary, fallback and only  *)
(* channel.                                                                *)
(***************************************************************************)
EXTENDS Delivery

MCRoutes ==
    {[primary |-> "dingtalk", fallback |-> "smtp", health |-> "dingtalk"],
     [primary |-> "smtp", fallback |-> "dingtalk", health |-> "smtp"],
     [primary |-> "dingtalk", fallback |-> "none", health |-> "smtp"]}

=============================================================================
