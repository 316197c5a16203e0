------------------------------ MODULE MCDesktop ------------------------------
(***************************************************************************)
(* An instance of DesktopShell for TLC.                                    *)
(***************************************************************************)
EXTENDS DesktopShell

CONSTANTS h1, h2, h3
=============================================================================
