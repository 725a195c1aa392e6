---------------------------- MODULE MCGatherFiles ----------------------------
\* GatherFiles with one kext that shares its archive with another, and two parts
\* in every folder.
EXTENDS GatherFiles

CONSTANTS BrcmPatchRAM

MCKexts == <<BrcmPatchRAM, BrcmPatchRAM>>
=============================================================================
