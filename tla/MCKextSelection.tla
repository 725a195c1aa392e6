-------------------------- MODULE MCKextSelection --------------------------
(* Kexts of Scripts/datasets/kext_data.py with the shapes that occur there: *)
(* a required kext at index 0, two kexts that require each other, of which  *)
(* one has a rival, two plugins of one kext, and kexts that only the newer  *)
(* macOS versions have lost.                                                *)
EXTENDS KextSelection

CONSTANTS Lilu, ECEnabler, RealtekCardReader, RealtekCardReaderFriend, SinetekRtsx,
          VoodooI2C, VoodooI2CHID, AlpsHID, RestrictEvents, Ventura, Sonoma, Sequoia, RealtekGroup

MCRequires ==
    [k \in Kexts |->
        CASE k \in {ECEnabler, RestrictEvents}  -> <<Lilu>>
          [] k = RealtekCardReader              -> <<RealtekCardReaderFriend>>
          [] k = RealtekCardReaderFriend        -> <<Lilu, RealtekCardReader>>
          [] k \in {VoodooI2CHID, AlpsHID}       -> <<VoodooI2C>>
          [] OTHER                              -> <<>>]

MCGroup ==
    [k \in Kexts |-> IF k \in {RealtekCardReader, SinetekRtsx} THEN RealtekGroup ELSE NoGroup]

MCSupports ==
    [t \in Targets |-> CASE t = Ventura -> Kexts
                         [] t = Sonoma  -> Kexts \ {RealtekCardReaderFriend}
                         [] OTHER -> Kexts \ {RealtekCardReader, RealtekCardReaderFriend}]
=============================================================================
