------------------------------ MODULE FactFamilies ------------------------------
(* The fact families: the names rules, the kernel and providers share.     *)
CONSTANT Family
================================================================================
