---------------------------- MODULE MCProductCalls ----------------------------
(* An instance of ProductCalls: the Dutch page has a video, and both pages have *)
(* the same image under the same title, so their rows share its attachment.    *)
EXTENDS ProductCalls, TLC

CONSTANTS nl, fr, hero, clip

PlanOrder == <<nl, fr>>
FilesOfPages == nl :> <<hero, clip>> @@ fr :> <<hero>>

===============================================================================
