----------------------------- MODULE MCFrontDoor ----------------------------
(***************************************************************************)
(* The way a connection comes in: socket activation of a service by the    *)
(* manager, and in the gateway the token store, the rate limiter, and the  *)
(* middleware chain with its handlers.  A behaviour exercises one of them, *)
(* so that their state spaces add up instead of multiplying.               *)
(***************************************************************************)
EXTENDS SocketActivation, TokenStore, RateLimiter, Gateway

VARIABLE part   \* the component this behaviour is about

vars == <<part, socketVars, tokenVars, rateVars, gatewayVars>>

Init ==
    /\ part \in {"socket", "tokens", "rate", "gateway"}
    /\ SocketInit /\ TokenInit /\ RateInit /\ GatewayInit

Next ==
    /\ UNCHANGED part
    /\ \/ /\ part = "socket" /\ SocketNext
          /\ UNCHANGED <<tokenVars, rateVars, gatewayVars>>
       \/ /\ part = "tokens" /\ TokenNext
          /\ UNCHANGED <<socketVars, rateVars, gatewayVars>>
       \/ /\ part = "rate" /\ RateNext
          /\ UNCHANGED <<socketVars, tokenVars, gatewayVars>>
       \/ /\ part = "gateway" /\ GatewayNext
          /\ UNCHANGED <<socketVars, tokenVars, rateVars>>

\* The fairness of each component's own specification.  A component that this
\* behaviour is not about stays in its initial state, in which none of its fair
\* steps is enabled but the clock of the idle monitor.
Spec ==
    /\ Init /\ [][Next]_vars
    /\ WF_socketVars(part = "socket" /\ Tick) /\ SocketProgress
    /\ TokenFairness /\ GatewayFairness
=============================================================================
