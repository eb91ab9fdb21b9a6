------------------------------ MODULE Catalog ------------------------------
(***************************************************************************)
(* Products and variants (services/core/app/domain/catalog.py and its      *)
(* router), and the reads of channels and listings (api/v1/channels.py).   *)
(***************************************************************************)
EXTENDS TenantSession

ProductRow(id, of, store, published) ==
  Row(id, "products", of, {}, {of} \cup ({store} \ {None}), published)

VariantKeys(of, sku, barcode) ==
  {<<"uq_variants_tenant_sku", of, sku>>}
    \cup (IF barcode = None THEN {} ELSE {<<"uq_variants_tenant_barcode", of, barcode>>})

(* Mutant: the index of migration 0005, per product, and none on barcodes. *)
VariantRowPerProduct(id, of, product, sku, barcode) ==
  Row(id, "variants", of, {<<"uq_variants_product_sku", product, sku>>}, {of, product}, TRUE)

VariantRow(id, of, product, sku, barcode) ==
  Row(id, "variants", of, VariantKeys(of, sku, barcode), {of, product}, TRUE)

ImageRow(q, product, url) ==
  Row(<<q, "product_images", url>>, "product_images", tenant[q], {}, {tenant[q], product}, TRUE)

CatalogEvent(q, about) == Event(q, tenant[q], {about})

Variants(product, seen) == {r \in Of("variants", seen) : product \in r.refs}

(* A store is looked up in the tenant; the images go in with the product,  *)
(* and so does the event.                                                  *)
ProductRows(q) ==
  LET id == Id(q, "products") IN
    {ProductRow(id, tenant[q], call[q].store, FALSE), CatalogEvent(q, id)}
      \cup {ImageRow(q, id, url) : url \in call[q].images}

CreateProduct(q) ==
  /\ call[q].what = "create_product"
  /\ \/ Admit(q, "catalog", "write", "read")
     \/ InsertKnowing(q, StoreKnown(q), ProductRows(q), "500")

VariantRows(q) ==
  LET id == Id(q, "variants") IN
    {VariantRow(id, tenant[q], call[q].product, call[q].sku, call[q].barcode),
     CatalogEvent(q, id)}

AddKnown(q) ==
  InsertKnowing(q, Found(q, "products", call[q].product), VariantRows(q), "409")

AddVariant(q) ==
  /\ call[q].what = "add_variant"
  /\ Admit(q, "catalog", "write", "read") \/ AddKnown(q)

(* The gate is set, if it changes, and waits for another setter;           *)
(* publishing tells of every variant that is visible then.                 *)
SetPublished(q) ==
  LET of == call[q].product
      read == Named(q, "products", of)
      events == IF call[q].on
                  THEN {CatalogEvent(q, v.id) : v \in Variants(of, Visible(q))} ELSE {} IN
    \/ at[q] = "read" /\ read = {} /\ Refuse(q, "404")
    \/ /\ at[q] = "read"
       /\ \E r \in read :
            Update(q, IF r.on = call[q].on THEN {} ELSE {[r EXCEPT !.on = call[q].on]}, events)

(* POST publish and unpublish.                                             *)
SetOnlinePublished(q) ==
  /\ call[q].what = "set_online_published"
  /\ Admit(q, "catalog", "write", "read") \/ SetPublished(q)

(* GET /variants/lookup: exactly one of barcode and sku, else 422.         *)
Matching(q) ==
  {r \in Of("variants", Visible(q)) :
     \/ <<"uq_variants_tenant_barcode", tenant[q], call[q].barcode>> \in r.keys
     \/ <<"uq_variants_tenant_sku", tenant[q], call[q].sku>> \in r.keys}

LookUp(q) ==
  /\ call[q].what = "lookup"
  /\ \/ Admit(q, "catalog", "read", "read")
     \/ at[q] = "read" /\ (call[q].barcode = None) = (call[q].sku = None) /\ Refuse(q, "422")
     \/ /\ at[q] = "read" /\ (call[q].barcode = None) # (call[q].sku = None)
        /\ IF Matching(q) = {} THEN Refuse(q, "404") ELSE Read(q)

(* get_product: the product with its variants and images, if it is there.  *)
Detailed(q) ==
  {r \in Visible(q) :
     /\ r.id = call[q].product \/ call[q].product \in r.refs
     /\ r.table \in {"products", "variants", "product_images"}}

Detail(q) ==
  /\ call[q].what = "detail"
  /\ \/ Admit(q, "catalog", "read", "read")
     \/ /\ at[q] = "read"
        /\ IF Of("products", Detailed(q)) = {} THEN Refuse(q, "404") ELSE Read(q)

ListProducts(q) ==
  /\ call[q].what = "list_products"
  /\ \/ Admit(q, "catalog", "read", "read")
     \/ List(q)

(* The lists of channels and of their listings.                            *)
ListChannels(q) ==
  /\ call[q].what = "list_channels"
  /\ \/ Admit(q, "catalog", "read", "read")
     \/ List(q)

CatalogCall(q) ==
  \/ CreateProduct(q) \/ AddVariant(q) \/ SetOnlinePublished(q)
  \/ LookUp(q) \/ Detail(q) \/ ListProducts(q) \/ ListChannels(q)
=============================================================================
