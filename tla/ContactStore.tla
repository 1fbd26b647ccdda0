---------------------------- MODULE ContactStore ----------------------------
(***************************************************************************)
(* ContactStore (contacts.py): the agents the user has accepted and the    *)
(* tier each is trusted at, a list in memory written through to a JSON     *)
(* file.  Look-ups return the first entry for a URL; add_contact appends   *)
(* without looking for one.                                                *)
(***************************************************************************)
EXTENDS A2AData

CONSTANT MaxContacts  \* a bound of the model: the code's list is unbounded

ASSUME MaxContactsAssumption == MaxContacts \in Nat

VARIABLES contacts, contactsFile  \* _contacts and contacts.json

contactVars == <<contacts, contactsFile>>

Contact == [sender : Senders, tier : Tiers]

ContactsTypeOK ==
    /\ contacts \in Seq(Contact)
    /\ contactsFile \in Seq(Contact)

ContactsInit == contacts = <<>> /\ contactsFile = <<>>

IsKnown(s) == \E i \in DOMAIN contacts : contacts[i].sender = s

\* _find: the position of the first contact for s, a set of at most one element.
FirstContactFor(s) ==
    {i \in DOMAIN contacts : /\ contacts[i].sender = s
                             /\ \A j \in DOMAIN contacts : contacts[j].sender = s => i <= j}

HasTier(s, tier) == \E i \in FirstContactFor(s) : contacts[i].tier = tier

\* Fault: the contact is added in memory and not saved.
AddContactUnsaved(s, tier, outcome) ==
    /\ Len(contacts) < MaxContacts
    /\ contacts' = Append(contacts, [sender |-> s, tier |-> tier])
    /\ UNCHANGED contactsFile

AddContact(s, tier, outcome) ==
    /\ Len(contacts) < MaxContacts
    /\ contacts' = Append(contacts, [sender |-> s, tier |-> tier])
    /\ contactsFile' = Written(contactsFile, contacts', outcome)

UpdateTier(s, tier, outcome) ==
    /\ contacts' = [i \in DOMAIN contacts |->
                      IF i \in FirstContactFor(s) THEN [contacts[i] EXCEPT !.tier = tier]
                                                  ELSE contacts[i]]
    /\ contactsFile' = IF IsKnown(s) THEN Written(contactsFile, contacts', outcome)
                                     ELSE contactsFile

ReloadContacts == contacts' = contactsFile /\ UNCHANGED contactsFile
=============================================================================
