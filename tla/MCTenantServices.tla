-------------------------- MODULE MCTenantServices --------------------------
(* Instance of TenantServices for TLC.                                     *)
EXTENDS TenantServices

CONSTANTS ta, tb

MCDefaults == [minute |-> 2, hour |-> 3]
MCFallback == [minute |-> 3, hour |-> 3]
MCRows == {NoRow, [DefaultRow EXCEPT !.minute = 3, !.tokens = 1]}

MCPayloads == [t \in Tenants |-> [p \in Providers |->
    {[fields |-> [login |-> "new"], meta |-> <<>>]}]]

NoRows == [t \in Tenants |-> NoDrivers]
NoHouse == [amadeus |-> [login |-> ""], tbo |-> <<>>]
House == [p \in Providers |-> [login |-> "house", base |-> "house"]]

\* The plaintexts: with a base in meta, overridden by the fields for tb, or bare.
Login(t) == [fields |-> IF t = ta THEN [login |-> "a"] ELSE [login |-> "b", base |-> "field"],
             meta |-> [base |-> "meta"]]
NoLogin == [fields |-> <<>>, meta |-> [base |-> "meta"]]
Known == [t \in Tenants |-> [p \in Providers |-> {Login(t)}]]
Bare == [t \in Tenants |-> [p \in Providers |-> {NoLogin}]]

\* Rows sealed with a key for their own place, or for another tenant's or the
\* other provider's, from where they were copied.
Own(t, p) == <<t, p>>
OtherTenant(t, p) == <<IF t = ta THEN tb ELSE ta, p>>
OtherProvider(t, p) == <<t, IF p = "tbo" THEN "amadeus" ELSE "tbo">>
Rows(k, Place(_, _), Text(_)) == [t \in Tenants |-> [p \in Providers |->
    {Encrypt(k, Place(t, p)[1], Place(t, p)[2], Text(t))}]]

\* What a behaviour is about: the windows, the settings, the registries, or the
\* credentials.
Calm == [k \in Kinds |-> 0]
Plainly(b, r) == [budget |-> b, row |-> r, kms |-> "k1", house |-> NoHouse, vault |-> NoRows, plain |-> NoRows]
Sealed(k, v, pl) ==
    [budget |-> [Calm EXCEPT !["turn"] = 2, !["tool"] = 2, !["vault"] = 1, !["fault"] = 1],
     row |-> NoRow, kms |-> k, house |-> House, vault |-> v, plain |-> pl]
MCScenarios ==
    {Plainly(b, r) : r \in MCRows, b \in {
        [Calm EXCEPT !["turn"] = 4, !["tick"] = 3],
        [Calm EXCEPT !["turn"] = 2, !["patch"] = 1, !["fault"] = 1],
        [Calm EXCEPT !["turn"] = 1, !["patch"] = 2]}}
    \cup {Plainly([Calm EXCEPT !["turn"] = 2, !["tool"] = 4, !["shutdown"] = 1, !["cancel"] = 1], NoRow),
          Plainly([Calm EXCEPT !["turn"] = 2, !["tool"] = 3, !["shutdown"] = 1, !["fault"] = 1], NoRow)}
    \cup {Sealed("k1", Rows("k1", Own, Login), Known), Sealed("k1", Rows("k0", Own, Login), Known),
          Sealed("k1", Rows("k1", OtherTenant, Login), NoRows),
          Sealed("k1", Rows("k1", OtherProvider, Login), NoRows),
          Sealed("plain", Rows("plain", Own, LAMBDA t : NoLogin), Bare),
          Sealed("plain", Rows("k1", Own, Login), Known),
          Sealed("misconfigured", Rows("k1", Own, Login), Known),
          [Sealed("misconfigured", NoRows, NoRows) EXCEPT !.house = NoHouse]}
=============================================================================
