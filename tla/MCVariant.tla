----------------------------- MODULE MCVariant -----------------------------
(* Four small labs cut out of the shipped ones, and pools of names that     *)
(* collide with each other and with the names they replace.                 *)
EXTENDS Variant

l(w) == <<w, "lower">>
C(w) == <<w, "Cap">>
U(w) == <<w, "UPPER">>
s(c) == <<c, "sep">>

stark == <<C("stark")>>
arya == <<l("arya"), s("."), l("stark")>>
hodor == <<l("hodor")>>
sql_svc == <<l("sql_svc")>>
sansa == <<l("sansa"), s("."), l("stark")>>
north == childDomain
essos == externalDomain
needle == <<C("needle")>>
horse == <<l("horse")>>
kerb == <<C("kerb")>>
saPw == <<C("sapw")>>
winterfell == <<l("winterfell")>>
braavos == <<l("braavos")>>
acl(a, b) == <<l("generic"), s("_")>> \o a \o <<s("_")>> \o b
qualified(nb, t) == <<U(nb), s("\\\\")>> \o t

User(n, f, sur, pw, c, g) ==
  [name |-> n, first |-> f, surname |-> sur, password |-> pw, city |-> c, groups |-> g]

NorthWith(hodorPassword) ==
  [name |-> north,
   users |-> <<User(arya, <<C("arya")>>, stark, needle, <<C("winterfell")>>, <<stark>>),
               User(hodor, hodor, hodor, hodorPassword, <<>>, <<stark>>),
               User(sql_svc, <<l("sql")>>, <<>>, kerb, <<>>, <<>>)>>,
   groups |-> <<[name |-> stark, members |-> <<arya>>]>>,
   ous |-> {<<C("vale")>>},
   gmsa |-> {},
   acls |-> <<[key |-> acl(<<l("arya")>>, hodor), for |-> arya, to |-> hodor],
              [key |-> acl(<<l("stark")>>, <<l("dc")>>), for |-> stark,
               to |-> winterfell \o <<s("$")>>]>>]

EssosOf(name, account, password) ==
  [name |-> name,
   users |-> <<User(account, IF account = sansa THEN <<C("sansa")>> ELSE <<>>,
                    IF account = sansa THEN stark ELSE <<>>, password, <<>>, <<>>)>>,
   groups |-> <<>>, ous |-> {}, gmsa |-> {<<l("gmsadragon")>>},
   acls |-> <<[key |-> acl(<<l("gmsadragon")>>, Before(account, ".")),
               for |-> <<l("gmsadragon"), s("$")>>, to |-> account]>>]

Hosts(domain) ==
  <<[id |-> <<l("dc02")>>, hostname |-> winterfell, domain |-> north,
     login |-> qualified("north", arya),
     source |-> braavos \o <<s(".")>> \o domain, remotePassword |-> saPw,
     shares |-> {<<l("thewall")>>}],
    [id |-> <<l("srv03")>>, hostname |-> braavos, domain |-> domain, login |-> qualified("north", hodor),
     source |-> winterfell \o <<s(".")>> \o north, remotePassword |-> kerb, shares |-> {}]>>

File(n, path, kind, lines, secret) ==
  [order |-> n, path |-> path, kind |-> kind, lines |-> lines, secret |-> secret]
Files ==
  {File(1, <<l("config")>>, "config", <<>>, <<>>),
   File(2, <<l("inventory")>>, "inventory", <<<<l("dc02")>>>>, <<>>),
   File(3, <<l("arya")>>, "script",
        <<<<U("north"), s("\\"), l("arya"), s("."), l("stark")>>, needle,
          <<C("bravos")>>, <<l("arya"), s("_"), l("master")>>, <<C("stark"), l("wallpaper")>>>>, needle),
   File(4, <<l("logo")>>, "binary", <<stark>>, <<>>)}

Lab(kind, domains, domain) ==
  [kind |-> kind, domains |-> domains, hosts |-> Hosts(domain), files |-> Files]

\* mini.lab stands for a lab whose domain the generator does not know
mini == <<l("mini"), s("."), l("lab")>>
Stock == Lab("active-directory", <<EssosOf(essos, sansa, horse), NorthWith(saPw)>>, essos)
NameIsPassword == Lab("active-directory", <<EssosOf(essos, sansa, horse), NorthWith(hodor)>>, essos)
Twins == Lab("active-directory", <<EssosOf(essos, sql_svc, horse), NorthWith(saPw)>>, essos)
Unknown == Lab("active-directory", <<EssosOf(mini, sansa, horse), NorthWith(saPw)>>, mini)
Services == Lab("services", <<EssosOf(essos, sansa, horse), NorthWith(saPw)>>, essos)

MCLabs == {Stock, NameIsPassword, Twins, Unknown, Services}
MCPool ==
  [domain |-> {<<l("titan")>>}, subdomain |-> {<<l("ops")>>},
   host |-> {<<l("titan")>>, <<l("echo"), s("-"), l("db")>>},
   first |-> {<<C("john")>>, <<C("mary")>>}, last |-> {<<C("king")>>, <<C("john")>>},
   group |-> {<<C("support")>>}, ou |-> {<<C("north"), l("ern")>>},
   gmsa |-> {<<l("gmsa"), C("wolf")>>}, city |-> {<<C("boston")>>}, share |-> {<<l("dropzone")>>}]
MCPasswords == {<<l("pw1")>>, <<l("pw2")>>, <<l("pw3")>>, <<l("pw4")>>, <<l("pw5")>>, <<l("pw6")>>}
MCOriginalNames == {<<l("sevenkingdoms")>>, <<l("essos")>>, winterfell, braavos, <<l("stark")>>,
                    <<l("sansa")>>, <<l("arya")>>}
MCTree == <<l("GOAD-variant-1")>>
=============================================================================
